-------------------------- MODULE HttpReaderProofs ---------------------------
(***************************************************************************)
(* What http::read() of HttpReader returns is proved for messages of any    *)
(* number and length and for any way in which ::read() cuts the stream.     *)
(*                                                                          *)
(* The inductive invariant HttpInv says where in the stream the reader is.  *)
(* The frames of the messages from the last that was returned on lie in the *)
(* connection one behind the other (Stream): the k-th behind the byte at[k], *)
(* which is negative for the frame the reader is in.  It has had q bytes of  *)
(* that frame (Lies), and what it keeps in its variables is what these       *)
(* bytes are (Inside): a part of a head with the line break of a chunk in    *)
(* front of it (Opens), of a body of known length (OfLength), of a size      *)
(* line (OfLine) or of a chunk (OfChunk).  Each ::read() moves q, and each   *)
(* part of the reader has to find its end where the frame has it.            *)
(***************************************************************************)
EXTENDS HttpReader, Integers, WellFoundedInduction, SequenceTheorems, TLAPS

-----------------------------------------------------------------------------
(***************************************************************************)
(* Bytes, sequences and messages                                             *)
(***************************************************************************)

(* Heads, size lines and data are bytes.                                     *)
Byte == (Mode \cup {"size", "data", "cr", "lf"}) \X Nat

(* A set of numbers that has 0 and with each number the next has them all.  *)
LEMMA Induction ==
  ASSUME NEW S, 0 \in S, \A n \in Nat : n \in S => n + 1 \in S
  PROVE  Nat \subseteq S
<1> SUFFICES ASSUME Nat \ S # {} PROVE FALSE
  OBVIOUS
<1> DEFINE R == OpToRel(<, Nat)
           T == Nat \ S
<1>1. PICK x \in T : \A y \in T : ~ (<<y, x>> \in R)
  <2>1. IsWellFoundedOn(R, Nat) /\ T \subseteq Nat /\ T # {}
    BY NatLessThanWellFounded
  <2> HIDE DEF R, T
  <2> QED
    BY <2>1, WFMin
<1>2. \A y \in Nat \ S : ~ (y < x)
  BY <1>1 DEF OpToRel
<1>3. x - 1 \in Nat /\ (x - 1) + 1 = x
  OBVIOUS
<1>4. x - 1 \in S
  BY <1>2, <1>3
<1> QED
  BY <1>3, <1>4

(* The sequence u is s and then t.                                          *)
Joins(u, s, t) ==
  /\ Len(u) = Len(s) + Len(t) /\ Len(s) \in Nat /\ Len(t) \in Nat
  /\ \A x \in 1..Len(s) : u[x] = s[x]
  /\ \A x \in 1..Len(t) : u[Len(s) + x] = t[x]

(* The sequence t lies in u behind the l-th place.                          *)
Within(u, l, t) ==
  l + Len(t) <= Len(u) /\ \A x \in 1..Len(t) : u[l + x] = t[x]

(* One sequence behind another.                                             *)
LEMMA Joined ==
  ASSUME NEW s \in Seq(Byte), NEW t \in Seq(Byte)
  PROVE  s \o t \in Seq(Byte) /\ Joins(s \o t, s, t)
  BY DEF Joins

(* The concatenations of the first sequences of ss.                          *)
Sums(ss, f) ==
  /\ f \in [0..Len(ss) -> Seq(Byte)] /\ f[0] = <<>>
  /\ \A j \in 1..Len(ss) : f[j] = f[j - 1] \o ss[j]

(* They exist.                                                               *)
LEMMA SumsExist ==
  ASSUME NEW ss \in Seq(Seq(Byte))
  PROVE  \E f : Sums(ss, f)
<1> DEFINE Upto(n, f) == /\ f \in [0..n -> Seq(Byte)] /\ f[0] = <<>>
                         /\ \A j \in 1..n : f[j] = f[j - 1] \o ss[j]
           S == {n \in Nat : n <= Len(ss) => \E f : Upto(n, f)}
<1>0. Len(ss) \in Nat /\ <<>> \in Seq(Byte) /\ \A j \in 1..Len(ss) : ss[j] \in Seq(Byte)
  BY ElementOfSeq
<1>1. 0 \in S
  <2>1. Upto(0, [j \in 0..0 |-> <<>>])
    BY <1>0
  <2> QED
    BY <2>1
<1>2. ASSUME NEW n \in Nat, n + 1 <= Len(ss), NEW f, Upto(n, f) PROVE \E g : Upto(n + 1, g)
  <2> DEFINE g == [j \in 0..(n + 1) |-> IF j <= n THEN f[j] ELSE f[n] \o ss[n + 1]]
  <2>1. f[n] \in Seq(Byte) /\ ss[n + 1] \in Seq(Byte) /\ f[0] = <<>>
    BY <1>0, <1>2
  <2>2. f[n] \o ss[n + 1] \in Seq(Byte)
    BY <2>1, Joined
  <2>3. \A j \in 0..n : g[j] = f[j] /\ f[j] \in Seq(Byte)
    BY <1>2
  <2>4. g[n + 1] = f[n] \o ss[n + 1]
    <3>1. n + 1 \in 0..(n + 1) /\ ~ (n + 1 <= n)
      OBVIOUS
    <3> QED
      BY <3>1
  <2>5. g \in [0..(n + 1) -> Seq(Byte)]
    BY <1>2, <2>2
  <2> HIDE DEF g
  <2>6. ASSUME NEW j \in 1..(n + 1) PROVE g[j] = g[j - 1] \o ss[j]
    <3>1. CASE j = n + 1
      <4>1. j - 1 = n /\ n \in 0..n
        BY <3>1
      <4>2. g[j - 1] = f[n]
        BY <2>3, <4>1
      <4> QED
        BY <2>4, <3>1, <4>2
    <3>2. CASE j # n + 1
      <4>1. j \in 1..n /\ j \in 0..n /\ j - 1 \in 0..n
        BY <3>2
      <4>2. f[j] = f[j - 1] \o ss[j]
        BY <1>2, <4>1
      <4> QED
        BY <2>3, <4>1, <4>2
    <3> QED
      BY <3>1, <3>2
  <2>7. g[0] = <<>>
    BY <2>1, <2>3
  <2> QED
    BY <2>5, <2>6, <2>7
<1> HIDE DEF Upto
<1>3. ASSUME NEW n \in Nat, n \in S PROVE n + 1 \in S
  <2>1. n + 1 <= Len(ss) => n <= Len(ss)
    BY <1>0
  <2> QED
    BY <1>2, <1>3, <2>1
<1>4. Nat \subseteq S
  <2> HIDE DEF S
  <2> QED
    BY <1>1, <1>3, Induction
<1>5. \E f : Upto(Len(ss), f)
  BY <1>0, <1>4
<1> QED
  BY <1>5 DEF Sums, Upto

(* FlattenSeq() of SequencesExt is the last of them.                        *)
LEMMA Flattened ==
  ASSUME NEW ss \in Seq(Seq(Byte)), NEW f, Sums(ss, f)
  PROVE  FlattenSeq(ss) = f[Len(ss)] /\ FlattenSeq(ss) \in Seq(Byte)
<1>0. Len(ss) \in Nat /\ \A j \in 1..Len(ss) : ss[j] \in Seq(Byte)
  BY ElementOfSeq
<1>1. f[Len(ss)] \in Seq(Byte)
  BY <1>0 DEF Sums
<1>2. CASE Len(ss) = 0
  <2>1. FlattenSeq(ss) = ss
    BY <1>2 DEF FlattenSeq
  <2>2. ss = <<>>
    BY <1>2, EmptySeq
  <2> QED
    BY <1>1, <1>2, <2>1, <2>2 DEF Sums
<1>3. CASE Len(ss) # 0
  <2> DEFINE Rec(g) == g = [j \in 1..Len(ss) |-> IF j = 1 THEN ss[j] ELSE g[j - 1] \o ss[j]]
             g == CHOOSE h : Rec(h)
  <2>1. FlattenSeq(ss) = g[Len(ss)]
    BY <1>3 DEF FlattenSeq
  <2>2. f[1] = ss[1]
    <3>1. f[1] = f[0] \o ss[1] /\ f[0] = <<>>
      <4>1. 1 \in 1..Len(ss) /\ 1 - 1 = 0
        BY <1>0, <1>3
      <4> QED
        BY <4>1 DEF Sums
    <3>2. ss[1] \in Seq(Byte)
      BY <1>0, <1>3
    <3> QED
      BY <3>1, <3>2
  <2>3. Rec([j \in 1..Len(ss) |-> f[j]])
    <3> DEFINE h == [j \in 1..Len(ss) |-> f[j]]
    <3>1. ASSUME NEW j \in 1..Len(ss)
          PROVE  h[j] = IF j = 1 THEN ss[j] ELSE h[j - 1] \o ss[j]
      <4>1. CASE j = 1
        BY <2>2, <4>1
      <4>2. CASE j # 1
        <5>1. j - 1 \in 1..Len(ss)
          BY <1>0, <4>2
        <5> QED
          BY <4>2, <5>1 DEF Sums
      <4> QED
        BY <4>1, <4>2
    <3> QED
      BY <3>1
  <2>4. Rec(g)
    <3> HIDE DEF Rec
    <3> QED
      BY <2>3
  <2> HIDE DEF g
  <2>5. \A j \in 1..Len(ss) : g[j] = IF j = 1 THEN ss[j] ELSE g[j - 1] \o ss[j]
    BY <2>4
  <2> DEFINE S == {n \in Nat : n + 1 <= Len(ss) => g[n + 1] = f[n + 1]}
  <2>6. 0 \in S
    BY <1>0, <1>3, <2>2, <2>5
  <2>7. ASSUME NEW n \in Nat, n \in S PROVE n + 1 \in S
    <3> SUFFICES ASSUME (n + 1) + 1 <= Len(ss) PROVE g[(n + 1) + 1] = f[(n + 1) + 1]
      OBVIOUS
    <3>1. n + 1 <= Len(ss) /\ (n + 1) + 1 \in 1..Len(ss) /\ ((n + 1) + 1) - 1 = n + 1 /\ (n + 1) + 1 # 1
      BY <1>0
    <3>2. g[n + 1] = f[n + 1]
      BY <2>7, <3>1
    <3>3. g[(n + 1) + 1] = g[n + 1] \o ss[(n + 1) + 1]
      BY <2>5, <3>1
    <3>4. f[(n + 1) + 1] = f[n + 1] \o ss[(n + 1) + 1]
      BY <3>1 DEF Sums
    <3> QED
      BY <3>2, <3>3, <3>4
  <2>8. Len(ss) - 1 \in S
    <3> HIDE DEF S
    <3>1. Nat \subseteq S
      BY <2>6, <2>7, Induction
    <3> QED
      BY <1>0, <1>3, <3>1
  <2>9. g[Len(ss)] = f[Len(ss)]
    <3>1. (Len(ss) - 1) + 1 = Len(ss)
      BY <1>0
    <3> QED
      BY <2>8, <3>1
  <2> QED
    BY <1>1, <2>1, <2>9
<1> QED
  BY <1>2, <1>3

(* One sum and the next.                                                    *)
LEMMA SumsNext ==
  ASSUME NEW ss \in Seq(Seq(Byte)), NEW f, Sums(ss, f), NEW n \in Nat, n < Len(ss)
  PROVE  Joins(f[n + 1], f[n], ss[n + 1])
<1> DEFINE s == f[n]
           t == ss[n + 1]
           u == f[n + 1]
<1>0. Len(ss) \in Nat
  OBVIOUS
<1>1. n + 1 \in 1..Len(ss) /\ n \in 0..Len(ss) /\ (n + 1) - 1 = n
  BY <1>0
<1>2. s \in Seq(Byte) /\ t \in Seq(Byte)
  BY <1>1, ElementOfSeq DEF Sums
<1>3. u = s \o t
  BY <1>1 DEF Sums
<1> HIDE DEF s, t, u
<1>4. Joins(u, s, t)
  BY <1>2, <1>3, Joined
<1> QED
  BY <1>4 DEF s, t, u

(* Each of the sequences keeps its place in the longer sums.                *)
LEMMA SumsLie ==
  ASSUME NEW ss \in Seq(Seq(Byte)), NEW f, Sums(ss, f), NEW p \in Nat, p < Len(ss)
  PROVE  Within(f[Len(ss)], Len(f[p]), ss[p + 1])
<1> DEFINE t == ss[p + 1]
           l == Len(f[p])
           Lies(s) == Within(s, l, t)
           S == {n \in Nat : p + 1 + n <= Len(ss) => Lies(f[p + 1 + n])}
<1>0. Len(ss) \in Nat
  OBVIOUS
<1>1. /\ Len(f[p + 1]) = l + Len(t) /\ l \in Nat /\ Len(t) \in Nat
      /\ \A x \in 1..Len(t) : f[p + 1][l + x] = t[x]
  <2>1. Joins(f[p + 1], f[p], ss[p + 1])
    BY SumsNext
  <2> QED
    BY <2>1 DEF Joins
<1> HIDE DEF t, l
<1>2. Lies(f[p + 1])
  BY <1>1 DEF Within
<1>3. ASSUME NEW n \in Nat, n < Len(ss), Lies(f[n]) PROVE Lies(f[n + 1])
  <2> DEFINE s == f[n]
             u == f[n + 1]
             r == ss[n + 1]
  <2>1. Joins(u, s, r)
    BY <1>3, SumsNext
  <2>2. l + Len(t) <= Len(s) /\ \A x \in 1..Len(t) : s[l + x] = t[x]
    BY <1>3 DEF Within
  <2> HIDE DEF s, u, r
  <2>3. ASSUME NEW x \in 1..Len(t) PROVE u[l + x] = t[x]
    <3>1. l + x \in 1..Len(s)
      BY <1>1, <2>1, <2>2 DEF Joins
    <3> QED
      BY <2>1, <2>2, <3>1 DEF Joins
  <2>4. l + Len(t) <= Len(u)
    BY <1>1, <2>1, <2>2 DEF Joins
  <2> QED
    BY <2>3, <2>4 DEF u, Within
<1> HIDE DEF Lies
<1>4. 0 \in S
  <2>1. p + 1 + 0 = p + 1
    OBVIOUS
  <2> QED
    BY <1>2, <2>1
<1>5. ASSUME NEW n \in Nat, n \in S PROVE n + 1 \in S
  <2> SUFFICES ASSUME p + 1 + (n + 1) <= Len(ss) PROVE Lies(f[p + 1 + (n + 1)])
    OBVIOUS
  <2>1. p + 1 + n \in Nat /\ p + 1 + n < Len(ss) /\ p + 1 + (n + 1) = (p + 1 + n) + 1
    BY <1>0
  <2>2. Lies(f[p + 1 + n])
    BY <1>5, <2>1
  <2> QED
    BY <1>3, <2>1, <2>2
<1>6. Nat \subseteq S
  <2> HIDE DEF S
  <2> QED
    BY <1>4, <1>5, Induction
<1>7. Lies(f[Len(ss)])
  <2>1. Len(ss) - p - 1 \in Nat /\ p + 1 + (Len(ss) - p - 1) = Len(ss)
    BY <1>0
  <2>2. Len(ss) - p - 1 \in S
    BY <1>6, <2>1
  <2> QED
    BY <2>1, <2>2
<1> QED
  BY <1>7 DEF Lies, t, l

(* What a peer may send.                                                     *)
HttpMessage ==
  {m \in [mode : Mode, chunks : Seq(Seq(Data))] :
     m.mode = "chunked" => \A c \in 1..Len(m.chunks) : m.chunks[c] # <<>>}

(* What the peer sends.                                                     *)
LEMMA MessagesAre ==
  ASSUME NEW k \in 1..Len(Messages)
  PROVE  Messages[k] \in HttpMessage
<1>1. Messages \in Seq([mode : Mode, chunks : Seq(Seq(Data))]) /\ DOMAIN Messages = 1..Len(Messages)
  BY HttpAssumption
<1>2. Messages[k] \in [mode : Mode, chunks : Seq(Seq(Data))]
  BY <1>1, ElementOfSeq
<1>3. Messages[k].chunks \in Seq(Seq(Data))
  BY <1>2
<1>4. DOMAIN Messages[k].chunks = 1..Len(Messages[k].chunks)
  BY <1>3
<1> QED
  BY <1>1, <1>2, <1>4, HttpAssumption DEF HttpMessage

(* Data are bytes.                                                          *)
LEMMA DataAreBytes ==
  ASSUME NEW m \in HttpMessage
  PROVE  /\ m.mode \in Mode /\ m.chunks \in Seq(Seq(Byte)) /\ Len(m.chunks) \in Nat
         /\ \A c \in 1..Len(m.chunks) : m.chunks[c] \in Seq(Byte) /\ Len(m.chunks[c]) \in Nat
<1>1. m.mode \in Mode /\ m.chunks \in Seq(Seq(Data))
  BY DEF HttpMessage
<1>2. Data \subseteq Byte
  BY DEF Data, Byte
<1>3. Seq(Data) \subseteq Seq(Byte)
  BY <1>2
<1>4. m.chunks \in Seq(Seq(Byte))
  BY <1>1, <1>3
<1>5. \A c \in 1..Len(m.chunks) : m.chunks[c] \in Seq(Byte)
  BY <1>4, ElementOfSeq
<1> QED
  BY <1>1, <1>4, <1>5

(* A line break is two different bytes.                                      *)
LEMMA BreakBytes == Cr \in Byte /\ Lf \in Byte /\ Cr # Lf
  BY DEF Cr, Lf, Byte

(* A chunk on the wire: a size line, the data, a line break.                *)
LEMMA ChunkParts ==
  ASSUME NEW d \in Seq(Byte)
  PROVE  /\ Chunk(d) \in Seq(Byte) /\ Len(Chunk(d)) = 5 + Len(d) /\ Len(d) \in Nat
         /\ Chunk(d)[1] = <<"size", Len(d)>> /\ Chunk(d)[2] = Cr /\ Chunk(d)[3] = Lf
         /\ \A j \in 1..Len(d) : Chunk(d)[3 + j] = d[j]
         /\ Chunk(d)[4 + Len(d)] = Cr /\ Chunk(d)[5 + Len(d)] = Lf
<1> DEFINE t == <<"size", Len(d)>>
           a == <<t, Cr, Lf>>
           b == a \o d
           f == b \o CrLf
<1>1. Len(d) \in Nat /\ t \in Byte
  BY DEF Byte
<1>2. CrLf \in Seq(Byte) /\ Len(CrLf) = 2 /\ CrLf[1] = Cr /\ CrLf[2] = Lf
  BY BreakBytes DEF CrLf
<1> HIDE DEF t
<1>3. a \in Seq(Byte) /\ Len(a) = 3 /\ a[1] = t /\ a[2] = Cr /\ a[3] = Lf
  BY <1>1, BreakBytes
<1> HIDE DEF a
<1>4. b \in Seq(Byte) /\ Joins(b, a, d)
  BY <1>3, Joined
<1> HIDE DEF b
<1>5. f \in Seq(Byte) /\ Joins(f, b, CrLf)
  BY <1>2, <1>4, Joined
<1>6. Chunk(d) = f
  BY DEF Chunk, f, b, a, t
<1> HIDE DEF f
<1>7. Len(b) = 3 + Len(d) /\ Len(f) = 5 + Len(d)
  BY <1>1, <1>2, <1>3, <1>4, <1>5 DEF Joins
<1>8. \A j \in 1..3 : f[j] = a[j]
  BY <1>1, <1>3, <1>4, <1>5, <1>7 DEF Joins
<1>9. \A j \in 1..Len(d) : f[3 + j] = d[j]
  <2> TAKE j \in 1..Len(d)
  <2>1. 3 + j \in 1..(3 + Len(d))
    BY <1>1
  <2>2. f[3 + j] = b[3 + j]
    BY <1>5, <1>7, <2>1 DEF Joins
  <2>3. b[3 + j] = d[j]
    BY <1>3, <1>4 DEF Joins
  <2> QED
    BY <2>2, <2>3
<1>10. f[4 + Len(d)] = Cr /\ f[5 + Len(d)] = Lf
  <2>1. Len(b) + 1 = 4 + Len(d) /\ Len(b) + 2 = 5 + Len(d)
    BY <1>1, <1>7
  <2>2. f[Len(b) + 1] = CrLf[1] /\ f[Len(b) + 2] = CrLf[2]
    BY <1>2, <1>5 DEF Joins
  <2> QED
    BY <1>2, <2>1, <2>2
<1>11. f[1] = t /\ f[2] = Cr /\ f[3] = Lf
  BY <1>3, <1>8
<1> QED
  BY <1>1, <1>5, <1>6, <1>7, <1>9, <1>10, <1>11 DEF t

(* A body, and a head.                                                      *)
LEMMA BodyType ==
  ASSUME NEW m \in HttpMessage
  PROVE  Body(m) \in Seq(Byte) /\ Len(Body(m)) \in Nat
<1>1. m.chunks \in Seq(Seq(Byte))
  BY DataAreBytes
<1>2. FlattenSeq(m.chunks) \in Seq(Byte)
  BY <1>1, SumsExist, Flattened
<1> QED
  BY <1>2 DEF Body

(* The head on the wire: its first byte is not of a line break.              *)
LEMMA HeadParts ==
  ASSUME NEW m \in HttpMessage
  PROVE  /\ HeadOf(m) \in Seq(Byte) /\ Len(HeadOf(m)) = 5
         /\ HeadOf(m)[1] = <<m.mode, IF m.mode = "length" THEN Len(Body(m)) ELSE 0>>
         /\ HeadOf(m)[2] = Cr /\ HeadOf(m)[3] = Lf /\ HeadOf(m)[4] = Cr /\ HeadOf(m)[5] = Lf
         /\ HeadOf(m)[1] \notin {Cr, Lf}
<1> DEFINE t == <<m.mode, IF m.mode = "length" THEN Len(Body(m)) ELSE 0>>
<1>1. t \in Byte
  BY BodyType, DataAreBytes DEF Byte
<1>2. t \notin {Cr, Lf}
  BY DataAreBytes DEF Mode, Cr, Lf
<1>3. HeadOf(m) = <<t, Cr, Lf, Cr, Lf>>
  BY DEF HeadOf
<1> HIDE DEF t
<1>4. /\ HeadOf(m) \in Seq(Byte) /\ Len(HeadOf(m)) = 5
      /\ HeadOf(m)[1] = t
      /\ HeadOf(m)[2] = Cr /\ HeadOf(m)[3] = Lf /\ HeadOf(m)[4] = Cr /\ HeadOf(m)[5] = Lf
  BY <1>1, <1>3, BreakBytes
<1> QED
  BY <1>2, <1>4 DEF t

(* A frame is the head and what follows it.                                 *)
LEMMA FrameParts ==
  ASSUME NEW m \in HttpMessage
  PROVE  /\ m.mode = "length" => Frame(m) \in Seq(Byte) /\ Joins(Frame(m), HeadOf(m), Body(m))
         /\ m.mode = "none" => Frame(m) \in Seq(Byte) /\ Joins(Frame(m), HeadOf(m), <<>>)
         /\ m.mode = "chunked" /\ InChunks(m) \in Seq(Byte) =>
               Frame(m) \in Seq(Byte) /\ Joins(Frame(m), HeadOf(m), InChunks(m))
<1>1. HeadOf(m) \in Seq(Byte) /\ Body(m) \in Seq(Byte) /\ <<>> \in Seq(Byte)
  BY HeadParts, BodyType
<1>2. CASE m.mode = "length"
  <2>1. Frame(m) = HeadOf(m) \o Body(m)
    BY <1>2 DEF Frame
  <2> QED
    BY <1>1, <1>2, <2>1, Joined
<1>3. CASE m.mode = "none"
  <2>1. Frame(m) = HeadOf(m) \o <<>>
    BY <1>3 DEF Frame
  <2> QED
    BY <1>1, <1>3, <2>1, Joined
<1>4. CASE m.mode = "chunked" /\ InChunks(m) \in Seq(Byte)
  <2>1. Frame(m) = HeadOf(m) \o InChunks(m)
    BY <1>4 DEF Frame
  <2> QED
    BY <1>1, <1>4, <2>1, Joined
<1> QED
  BY <1>2, <1>3, <1>4

(* Where the chunks of a message are in its frame, the empty one behind     *)
(* them included, and what the chunks up to each make of the body.          *)
ChunkAt(m, c) == IF c <= Len(m.chunks) THEN m.chunks[c] ELSE <<>>

(* The c-th chunk of m lies behind the byte pos[c]; cat[c] is the body up to it. *)
Laid(m, pos, cat) ==
  /\ pos \in [1..(Len(m.chunks) + 1) -> Nat] /\ pos[1] = 5
  /\ \A c \in 1..Len(m.chunks) : pos[c + 1] = pos[c] + 5 + Len(m.chunks[c])
  /\ Len(Frame(m)) = pos[Len(m.chunks) + 1] + 5
  /\ \A c \in 1..(Len(m.chunks) + 1) : \A j \in 1..(5 + Len(ChunkAt(m, c))) :
       Frame(m)[pos[c] + j] = Chunk(ChunkAt(m, c))[j]
  /\ Sums(m.chunks, cat) /\ cat[Len(m.chunks)] = Body(m)

(* There is one such layout.                                                 *)
Pos(m) == CHOOSE pos : \E cat : Laid(m, pos, cat)
Cat(m) == CHOOSE cat : Laid(m, Pos(m), cat)

(* A chunked message is laid out so.                                         *)
LEMMA Layout ==
  ASSUME NEW m \in HttpMessage, m.mode = "chunked"
  PROVE  Laid(m, Pos(m), Cat(m)) /\ Frame(m) \in Seq(Byte) /\ InChunks(m) \in Seq(Byte)
<1> DEFINE N == Len(m.chunks)
           ss == [c \in 1..N |-> Chunk(m.chunks[c])]
<1>1. /\ N \in Nat /\ m.chunks \in Seq(Seq(Byte))
      /\ \A c \in 1..N : m.chunks[c] \in Seq(Byte) /\ Len(m.chunks[c]) \in Nat
  BY DataAreBytes
<1>2. \A c \in 1..N : Chunk(m.chunks[c]) \in Seq(Byte)
  BY <1>1, ChunkParts
<1>3. /\ ss \in Seq(Seq(Byte)) /\ Len(ss) = N
      /\ \A c \in 1..N : ss[c] = Chunk(m.chunks[c])
  BY <1>1, <1>2
<1> HIDE DEF ss
<1>5. PICK f : Sums(ss, f)
  BY <1>3, SumsExist
<1>6. FlattenSeq(ss) = f[N] /\ f[N] \in Seq(Byte)
  BY <1>3, <1>5, Flattened
<1>7. <<>> \in Seq(Byte) /\ Len(<<>>) = 0
  OBVIOUS
<1> DEFINE last == Chunk(<<>>)
<1>8. last \in Seq(Byte) /\ Len(last) = 5
  <2>1. ASSUME NEW d \in Seq(Byte), Len(d) = 0 PROVE Chunk(d) \in Seq(Byte) /\ Len(Chunk(d)) = 5
    <3>1. Chunk(d) \in Seq(Byte) /\ Len(Chunk(d)) = 5 + Len(d)
      BY ChunkParts
    <3> QED
      BY <2>1, <3>1
  <2> QED
    BY <1>7, <2>1
<1> HIDE DEF last
<1>9. InChunks(m) \in Seq(Byte) /\ Joins(InChunks(m), f[N], last)
  <2>1. InChunks(m) = f[N] \o last
    BY <1>6 DEF InChunks, ss, last
  <2> QED
    BY <1>6, <1>8, <2>1, Joined
<1>10. Frame(m) \in Seq(Byte) /\ Joins(Frame(m), HeadOf(m), InChunks(m))
  BY <1>9, FrameParts
<1>11. Len(HeadOf(m)) = 5
  BY HeadParts
<1>12. \A c \in 0..N : Len(f[c]) \in Nat
  BY <1>3, <1>5 DEF Sums
<1>13. f[0] = <<>> /\ Len(f[0]) = 0
  BY <1>5, <1>7 DEF Sums
<1> DEFINE pos == [c \in 1..(N + 1) |-> 5 + Len(f[c - 1])]
<1>14. pos \in [1..(N + 1) -> Nat] /\ \A c \in 0..N : pos[c + 1] = 5 + Len(f[c])
  <2>1. \A c \in 1..(N + 1) : c - 1 \in 0..N
    BY <1>1
  <2>2. \A c \in 0..N : c + 1 \in 1..(N + 1) /\ (c + 1) - 1 = c
    BY <1>1
  <2> QED
    BY <1>12, <2>1, <2>2
<1> HIDE DEF pos, N
<1>15. pos[1] = 5
  <2>1. 0 \in 0..N /\ 0 + 1 = 1
    BY <1>1
  <2> QED
    BY <1>13, <1>14, <2>1
<1>16. Len(Frame(m)) = pos[N + 1] + 5
  <2>1. N \in 0..N
    BY <1>1
  <2>2. Len(InChunks(m)) = Len(f[N]) + 5 /\ Len(f[N]) \in Nat
    BY <1>8, <1>9, <1>12, <2>1 DEF Joins
  <2>3. Len(Frame(m)) = 5 + Len(InChunks(m))
    BY <1>10, <1>11 DEF Joins
  <2> QED
    BY <1>14, <2>1, <2>2, <2>3
<1>17. ASSUME NEW c \in 1..N PROVE pos[c + 1] = pos[c] + 5 + Len(m.chunks[c])
  <2>1. c - 1 \in Nat /\ c - 1 < N /\ c - 1 \in 0..N /\ c \in 0..N /\ (c - 1) + 1 = c
    BY <1>1
  <2>2. Joins(f[(c - 1) + 1], f[c - 1], ss[(c - 1) + 1])
    BY <1>3, <1>5, <2>1, SumsNext
  <2>3. Len(f[c]) = Len(f[c - 1]) + Len(ss[c])
    BY <2>1, <2>2 DEF Joins
  <2>4. Len(ss[c]) = 5 + Len(m.chunks[c])
    BY <1>1, <1>3, ChunkParts
  <2>5. pos[c + 1] = 5 + Len(f[c]) /\ pos[c] = 5 + Len(f[c - 1])
    <3>1. pos[(c - 1) + 1] = 5 + Len(f[c - 1])
      BY <1>14, <2>1
    <3> QED
      BY <1>14, <2>1, <3>1
  <2> DEFINE l == Len(f[c - 1])
             d == Len(m.chunks[c])
  <2>6. l \in Nat /\ d \in Nat
    BY <1>1, <1>12, <2>1
  <2>7. Len(f[c]) = l + (5 + d)
    BY <2>3, <2>4
  <2>8. pos[c + 1] = 5 + (l + (5 + d)) /\ pos[c] = 5 + l
    BY <2>5, <2>7
  <2> HIDE DEF l, d
  <2>9. pos[c + 1] = pos[c] + 5 + d
    BY <2>6, <2>8
  <2> QED
    BY <2>9 DEF d
<1>18. ASSUME NEW j \in 1..Len(InChunks(m)) PROVE Frame(m)[5 + j] = InChunks(m)[j]
  BY <1>10, <1>11 DEF Joins
<1>19. ASSUME NEW c \in 1..N, NEW j \in 1..(5 + Len(m.chunks[c]))
       PROVE  Frame(m)[pos[c] + j] = Chunk(m.chunks[c])[j]
  <2>1. c - 1 \in Nat /\ c - 1 < N /\ c - 1 \in 0..N /\ (c - 1) + 1 = c
    BY <1>1
  <2>2. Len(ss[c]) = 5 + Len(m.chunks[c]) /\ ss[c] = Chunk(m.chunks[c])
    BY <1>1, <1>3, ChunkParts
  <2> DEFINE l == Len(f[c - 1])
  <2>3. Within(f[N], l, ss[c])
    <3>1. Within(f[Len(ss)], Len(f[c - 1]), ss[(c - 1) + 1])
      BY <1>3, <1>5, <2>1, SumsLie
    <3> QED
      BY <1>3, <2>1, <3>1
  <2>4. pos[c] = 5 + l /\ l \in Nat /\ Len(m.chunks[c]) \in Nat
    <3>1. pos[(c - 1) + 1] = 5 + l
      BY <1>14, <2>1
    <3> QED
      BY <1>1, <1>12, <2>1, <3>1
  <2> HIDE DEF l
  <2>5. f[N][l + j] = Chunk(m.chunks[c])[j] /\ l + j \in 1..Len(f[N])
    <3>1. Len(f[N]) \in Nat
      BY <1>9 DEF Joins
    <3> QED
      BY <2>2, <2>3, <2>4, <3>1 DEF Within
  <2>6. InChunks(m)[l + j] = f[N][l + j] /\ l + j \in 1..Len(InChunks(m))
    <3>1. /\ Len(InChunks(m)) = Len(f[N]) + 5 /\ Len(f[N]) \in Nat
          /\ \A x \in 1..Len(f[N]) : InChunks(m)[x] = f[N][x]
      BY <1>8, <1>9 DEF Joins
    <3> QED
      BY <2>4, <2>5, <3>1
  <2>7. Frame(m)[5 + (l + j)] = InChunks(m)[l + j]
    BY <1>18, <2>6
  <2>8. pos[c] + j = 5 + (l + j)
    BY <2>4
  <2> QED
    BY <2>5, <2>6, <2>7, <2>8
<1>20. ASSUME NEW j \in 1..5 PROVE Frame(m)[pos[N + 1] + j] = last[j]
  <2> DEFINE l == Len(f[N])
  <2>1. pos[N + 1] = 5 + l /\ l \in Nat
    <3>1. N \in 0..N
      BY <1>1
    <3> QED
      BY <1>12, <1>14, <3>1
  <2>2. /\ Len(InChunks(m)) = l + 5
        /\ \A x \in 1..5 : InChunks(m)[l + x] = last[x]
    BY <1>8, <1>9 DEF Joins
  <2> HIDE DEF l
  <2>3. l + j \in 1..Len(InChunks(m))
    BY <2>1, <2>2
  <2>4. Frame(m)[5 + (l + j)] = InChunks(m)[l + j]
    BY <1>18, <2>3
  <2>5. pos[N + 1] + j = 5 + (l + j)
    BY <2>1
  <2> QED
    BY <2>2, <2>4, <2>5
<1>21. PICK cat : Sums(m.chunks, cat)
  BY <1>1, SumsExist
<1>22. cat[N] = Body(m)
  BY <1>1, <1>21, Flattened DEF Body, N
<1>23. ASSUME NEW c \in 1..(N + 1), NEW j \in 1..(5 + Len(ChunkAt(m, c)))
       PROVE  Frame(m)[pos[c] + j] = Chunk(ChunkAt(m, c))[j]
  <2>1. CASE c <= N
    <3>1. ChunkAt(m, c) = m.chunks[c] /\ c \in 1..N
      BY <1>1, <2>1 DEF ChunkAt, N
    <3> QED
      BY <1>19, <3>1
  <2>2. CASE ~ (c <= N)
    <3>1. ChunkAt(m, c) = <<>> /\ c = N + 1
      BY <1>1, <2>2 DEF ChunkAt, N
    <3>2. j \in 1..5
      BY <1>7, <3>1
    <3> QED
      BY <1>20, <3>1, <3>2 DEF last
  <2> QED
    BY <2>1, <2>2
<1>24. Laid(m, pos, cat)
  BY <1>14, <1>15, <1>16, <1>17, <1>21, <1>22, <1>23 DEF Laid, N
<1>25. \E c : Laid(m, Pos(m), c)
  BY <1>24 DEF Pos
<1>26. Laid(m, Pos(m), Cat(m))
  BY <1>25 DEF Cat
<1> QED
  BY <1>9, <1>10, <1>26

(* The bytes that a reader needs of a frame are the head and more.          *)
LEMMA FrameType ==
  ASSUME NEW m \in HttpMessage
  PROVE  /\ Frame(m) \in Seq(Byte) /\ Len(Frame(m)) \in Nat
         /\ Needed(m) \in Nat /\ 5 <= Needed(m) /\ Needed(m) <= Len(Frame(m))
         /\ Len(Frame(m)) <= Needed(m) + 2
         /\ m.mode # "chunked" => Needed(m) = Len(Frame(m))
         /\ m.mode = "chunked" => Needed(m) + 2 = Len(Frame(m))
         /\ m.mode = "length" => Len(Frame(m)) = 5 + Len(Body(m))
<1>1. m.mode \in Mode /\ Len(m.chunks) \in Nat
  BY DataAreBytes
<1>2. Len(HeadOf(m)) = 5 /\ Len(Body(m)) \in Nat
  BY HeadParts, BodyType
<1>3. CASE m.mode = "length"
  <2>1. Frame(m) \in Seq(Byte) /\ Len(Frame(m)) = 5 + Len(Body(m))
    BY <1>2, <1>3, FrameParts DEF Joins
  <2>2. Needed(m) = Len(Frame(m)) - 0
    BY <1>3 DEF Needed
  <2> QED
    BY <1>2, <1>3, <2>1, <2>2
<1>4. CASE m.mode = "none"
  <2>1. Frame(m) \in Seq(Byte) /\ Joins(Frame(m), HeadOf(m), <<>>)
    BY <1>4, FrameParts
  <2>2. Len(<<>>) = 0
    OBVIOUS
  <2>3. Len(Frame(m)) = 5
    BY <1>2, <2>1, <2>2 DEF Joins
  <2>4. Needed(m) = Len(Frame(m)) - 0
    BY <1>4 DEF Needed
  <2> QED
    BY <1>4, <2>1, <2>3, <2>4
<1>5. CASE m.mode = "chunked"
  <2>1. Laid(m, Pos(m), Cat(m)) /\ Frame(m) \in Seq(Byte)
    BY <1>5, Layout
  <2>2. Len(m.chunks) + 1 \in 1..(Len(m.chunks) + 1)
    BY <1>1
  <2>3. Len(Frame(m)) = Pos(m)[Len(m.chunks) + 1] + 5 /\ Pos(m)[Len(m.chunks) + 1] \in Nat
    BY <2>1, <2>2 DEF Laid
  <2>4. Pos(m)[Len(m.chunks) + 1] >= 5
    <3> DEFINE S == {n \in Nat : n <= Len(m.chunks) => Pos(m)[n + 1] >= 5}
    <3>1. 0 \in S
      BY <2>1 DEF Laid
    <3>2. ASSUME NEW n \in Nat, n \in S PROVE n + 1 \in S
      <4> SUFFICES ASSUME n + 1 <= Len(m.chunks) PROVE Pos(m)[(n + 1) + 1] >= 5
        OBVIOUS
      <4>1. n + 1 \in 1..Len(m.chunks) /\ n + 1 \in 1..(Len(m.chunks) + 1)
        BY <1>1
      <4>2. Pos(m)[(n + 1) + 1] = Pos(m)[n + 1] + 5 + Len(m.chunks[n + 1])
        BY <2>1, <4>1 DEF Laid
      <4>3. Pos(m)[n + 1] \in Nat
        BY <2>1, <4>1 DEF Laid
      <4>4. Len(m.chunks[n + 1]) \in Nat
        BY <4>1, DataAreBytes
      <4> QED
        BY <4>2, <4>3, <4>4
    <3> HIDE DEF S
    <3>3. Len(m.chunks) \in S
      BY <1>1, <3>1, <3>2, Induction
    <3> QED
      BY <1>1, <3>3 DEF S
  <2>5. Needed(m) = Len(Frame(m)) - 2
    BY <1>5 DEF Needed
  <2> QED
    BY <1>5, <2>1, <2>3, <2>4, <2>5, SMTT(30)
<1> QED
  BY <1>1, <1>3, <1>4, <1>5 DEF Mode

(* IsSuffix() of SequencesExt.                                               *)
LEMMA EndsWith ==
  ASSUME NEW s \in Seq(Byte), NEW t \in Seq(Byte)
  PROVE  IsSuffix(s, t) <=> /\ Len(s) <= Len(t)
                            /\ \A j \in 1..Len(s) : t[Len(t) - Len(s) + j] = s[j]
<1>1. Len(s) \in Nat /\ Len(t) \in Nat
  OBVIOUS
<1> DEFINE a == Reverse(s)
           b == Reverse(t)
<1>2. a = [j \in 1..Len(s) |-> s[(Len(s) - j) + 1]] /\ b = [j \in 1..Len(t) |-> t[(Len(t) - j) + 1]]
  BY DEF Reverse
<1>3. /\ a \in Seq(Byte) /\ Len(a) = Len(s) /\ \A j \in 1..Len(s) : a[j] = s[(Len(s) - j) + 1]
  <2>1. \A j \in 1..Len(s) : s[(Len(s) - j) + 1] \in Byte
    <3> TAKE j \in 1..Len(s)
    <3>1. (Len(s) - j) + 1 \in 1..Len(s)
      BY <1>1
    <3> QED
      BY <3>1, ElementOfSeq
  <2> QED
    BY <1>1, <1>2, <2>1
<1>4. /\ b \in Seq(Byte) /\ Len(b) = Len(t) /\ \A j \in 1..Len(t) : b[j] = t[(Len(t) - j) + 1]
  <2>1. \A j \in 1..Len(t) : t[(Len(t) - j) + 1] \in Byte
    <3> TAKE j \in 1..Len(t)
    <3>1. (Len(t) - j) + 1 \in 1..Len(t)
      BY <1>1
    <3> QED
      BY <3>1, ElementOfSeq
  <2> QED
    BY <1>1, <1>2, <2>1
<1>5. IsSuffix(s, t) <=> Len(a) <= Len(b) /\ SubSeq(a, 1, Len(a)) = SubSeq(b, 1, Len(a))
  BY DEF IsSuffix, IsPrefix
<1> HIDE DEF a, b
<1>6. ASSUME Len(s) <= Len(t)
      PROVE  SubSeq(a, 1, Len(a)) = SubSeq(b, 1, Len(a)) <=> \A j \in 1..Len(s) : a[j] = b[j]
  <2> DEFINE n == Len(s)
             c == SubSeq(a, 1, n)
             d == SubSeq(b, 1, n)
  <2>1. c = [j \in 1..n |-> a[j]] /\ d = [j \in 1..n |-> b[j]]
    BY <1>1, <1>3, <1>4, <1>6 DEF SubSeq
  <2> HIDE DEF n, c, d
  <2>2. c = d <=> \A j \in 1..n : a[j] = b[j]
    BY <2>1
  <2> QED
    BY <1>3, <2>2 DEF n, c, d
<1>7. ASSUME Len(s) <= Len(t)
      PROVE  (\A j \in 1..Len(s) : a[j] = b[j]) <=>
             (\A j \in 1..Len(s) : t[Len(t) - Len(s) + j] = s[j])
  <2>1. ASSUME \A j \in 1..Len(s) : a[j] = b[j], NEW j \in 1..Len(s)
        PROVE  t[Len(t) - Len(s) + j] = s[j]
    <3> DEFINE k == (Len(s) - j) + 1
    <3>1. /\ k \in 1..Len(s) /\ k \in 1..Len(t)
          /\ (Len(s) - k) + 1 = j /\ (Len(t) - k) + 1 = Len(t) - Len(s) + j
      BY <1>1, <1>7
    <3>2. a[k] = b[k] /\ a[k] = s[(Len(s) - k) + 1] /\ b[k] = t[(Len(t) - k) + 1]
      BY <1>3, <1>4, <2>1, <3>1
    <3> QED
      BY <3>1, <3>2
  <2>2. ASSUME \A j \in 1..Len(s) : t[Len(t) - Len(s) + j] = s[j], NEW j \in 1..Len(s)
        PROVE  a[j] = b[j]
    <3> DEFINE k == (Len(s) - j) + 1
    <3>1. k \in 1..Len(s) /\ j \in 1..Len(t) /\ Len(t) - Len(s) + k = (Len(t) - j) + 1
      BY <1>1, <1>7
    <3>2. t[Len(t) - Len(s) + k] = s[k] /\ a[j] = s[k] /\ b[j] = t[(Len(t) - j) + 1]
      BY <1>3, <1>4, <2>2, <3>1
    <3> QED
      BY <3>1, <3>2
  <2> QED
    BY <2>1, <2>2
<1> QED
  BY <1>3, <1>4, <1>5, <1>6, <1>7

(* The first of some places.                                                *)
LEMMA MinIn ==
  ASSUME NEW S, S \subseteq Nat, S # {}
  PROVE  Min(S) \in S /\ \A y \in S : Min(S) <= y
<1> DEFINE R == OpToRel(<, Nat)
<1>1. PICK x \in S : \A y \in S : ~ (<<y, x>> \in R)
  <2>1. IsWellFoundedOn(R, Nat)
    BY NatLessThanWellFounded
  <2> HIDE DEF R
  <2> QED
    BY <2>1, WFMin
<1>2. \A y \in S : ~ (y < x)
  <2> TAKE y \in S
  <2>1. x \in Nat /\ y \in Nat
    OBVIOUS
  <2> QED
    BY <1>1, <2>1 DEF OpToRel
<1>3. \A y \in S : x <= y
  <2> TAKE y \in S
  <2>1. x \in Nat /\ y \in Nat /\ ~ (y < x)
    BY <1>2
  <2> QED
    BY <2>1
<1> QED
  BY <1>3 DEF Min

(* What ::read() takes and leaves.                                          *)
LEMMA Taken ==
  ASSUME NEW w \in Seq(Byte), NEW n \in 1..Len(w)
  PROVE  /\ SubSeq(w, 1, n) \in Seq(Byte) /\ Len(SubSeq(w, 1, n)) = n
         /\ \A j \in 1..n : SubSeq(w, 1, n)[j] = w[j]
         /\ SubSeq(w, n + 1, Len(w)) \in Seq(Byte)
         /\ Len(SubSeq(w, n + 1, Len(w))) = Len(w) - n
         /\ \A j \in 1..(Len(w) - n) : SubSeq(w, n + 1, Len(w))[j] = w[n + j]
<1>1. Len(w) \in Nat /\ \A j \in 1..Len(w) : w[j] \in Byte
  BY ElementOfSeq
<1>2. \A j \in 1..n : w[j] \in Byte
  BY <1>1
<1>3. /\ SubSeq(w, 1, n) \in Seq(Byte) /\ Len(SubSeq(w, 1, n)) = n
      /\ \A j \in 1..n : SubSeq(w, 1, n)[j] = w[j]
  BY <1>1, <1>2, SubSeqProperties
<1>4. \A j \in (n + 1)..Len(w) : w[j] \in Byte
  BY <1>1
<1>5. /\ SubSeq(w, n + 1, Len(w)) \in Seq(Byte)
      /\ Len(SubSeq(w, n + 1, Len(w))) = Len(w) - n
      /\ \A j \in 1..(Len(w) - n) : SubSeq(w, n + 1, Len(w))[j] = w[n + j]
  <2>1. \A j \in 1..(Len(w) - n) : (n + 1) + j - 1 = n + j
    BY <1>1
  <2> QED
    BY <1>1, <1>4, <2>1, SubSeqProperties
<1> QED
  BY <1>3, <1>5

-----------------------------------------------------------------------------
(***************************************************************************)
(* The stream                                                                *)
(***************************************************************************)

(* The bytes f are in the connection behind its p-th, as far as it has them; *)
(* p is negative if the reader has had some.                                 *)
Along(p, w, f) == \A j \in 1..Len(f) : p + j \in 1..Len(w) => w[p + j] = f[j]

(* The last frame that was returned: a part of it may be left.               *)
First(g) == IF g = 0 THEN 1 ELSE g

(* The frames from the last that was returned on lie in the connection, one  *)
(* after the other, the k-th behind the byte at[k].  What follows them is a  *)
(* part of one more, if the peer closed in it.                               *)
FramesAt(at, w, s, g) ==
  \A k \in First(g)..s : /\ at[k + 1] = at[k] + Len(Frame(Messages[k]))
                         /\ at[k + 1] <= at[s + 1]
                         /\ at[k] + Needed(Messages[k]) <= Len(w)
                         /\ Along(at[k], w, Frame(Messages[k]))

EndsAt(p, w, s, g, pr, pp) ==
  /\ pr = "open" => Len(w) = p
  /\ s = Len(Messages) => Len(w) <= p
  /\ ~ pp /\ s > g => Len(w) <= p
  /\ s < Len(Messages) => /\ Len(w) < p + Needed(Messages[s + 1])
                          /\ Along(p, w, Frame(Messages[s + 1]))

Stream(at, w, s, g, pr, pp) ==
  FramesAt(at, w, s, g) /\ EndsAt(at[s + 1], w, s, g, pr, pp)

(* The reader has taken q bytes of the frame of the message after the g-th. *)
Lies(g, q, w, s, pr, pp) ==
  \E at \in [Int -> Int] : Stream(at, w, s, g, pr, pp) /\ at[g + 1] = - q

(* The reader takes n bytes.                                                *)
LEMMA AlongAfter ==
  ASSUME NEW p \in Int, NEW w \in Seq(Byte), NEW f, Along(p, w, f),
         NEW n \in 1..Len(w)
  PROVE  Along(p - n, SubSeq(w, n + 1, Len(w)), f)
<1> DEFINE v == SubSeq(w, n + 1, Len(w))
<1>1. Len(v) = Len(w) - n /\ \A j \in 1..(Len(w) - n) : v[j] = w[n + j]
  BY Taken
<1> HIDE DEF v
<1>2. ASSUME NEW j \in 1..Len(f), (p - n) + j \in 1..Len(v) PROVE v[(p - n) + j] = f[j]
  <2>0. Len(w) \in Nat /\ j \in Int
    OBVIOUS
  <2>1. p + j \in 1..Len(w) /\ n + ((p - n) + j) = p + j /\ (p - n) + j \in 1..(Len(w) - n)
    BY <1>1, <1>2, <2>0
  <2>2. v[(p - n) + j] = w[p + j]
    BY <1>1, <2>1
  <2> QED
    BY <2>1, <2>2 DEF Along
<1>3. Along(p - n, v, f)
  BY <1>2 DEF Along
<1> QED
  BY <1>3 DEF v

(* The frames that Stream speaks of are those of messages.                   *)
LEMMA Places ==
  ASSUME NEW s \in 0..Len(Messages), NEW g \in 0..s, NEW k \in First(g)..s
  PROVE  /\ Len(Messages) \in Nat /\ s \in Nat /\ g \in Nat
         /\ k \in Int /\ k + 1 \in Int /\ s + 1 \in Int /\ k \in 1..Len(Messages)
         /\ Messages[k] \in HttpMessage
<1>1. Len(Messages) \in Nat
  BY HttpAssumption
<1>2. g \in Nat /\ s \in Nat
  BY <1>1
<1>3. First(g) \in Nat /\ 1 <= First(g)
  BY <1>2 DEF First
<1>4. k \in Int /\ 1 <= k /\ k <= s
  BY <1>2, <1>3
<1>5. k \in 1..Len(Messages)
  BY <1>1, <1>4
<1> QED
  BY <1>1, <1>2, <1>4, <1>5, MessagesAre

(* All that is in the connection moves by n.                                 *)
LEMMA Shift ==
  ASSUME NEW at \in [Int -> Int], NEW w \in Seq(Byte), NEW s \in 0..Len(Messages),
         NEW g \in 0..s, NEW pr, NEW pp, Stream(at, w, s, g, pr, pp), NEW n \in 1..Len(w)
  PROVE  Stream([k \in Int |-> at[k] - n], SubSeq(w, n + 1, Len(w)), s, g, pr, pp)
<1> DEFINE v == SubSeq(w, n + 1, Len(w))
           b == [k \in Int |-> at[k] - n]
<1>0. v \in Seq(Byte) /\ Len(v) = Len(w) - n
  BY Taken
<1>a. Len(w) \in Nat /\ n \in Nat
  OBVIOUS
<1>1. \A k \in Int : b[k] = at[k] - n /\ at[k] \in Int
  OBVIOUS
<1>2. ASSUME NEW p \in Int, NEW f, Along(p, w, f) PROVE Along(p - n, v, f)
  BY <1>2, AlongAfter
<1> HIDE DEF v, b
<1>3. ASSUME NEW k \in First(g)..s
      PROVE  /\ b[k + 1] = b[k] + Len(Frame(Messages[k]))
             /\ b[k + 1] <= b[s + 1]
             /\ b[k] + Needed(Messages[k]) <= Len(v)
             /\ Along(b[k], v, Frame(Messages[k]))
  <2> DEFINE m == Messages[k]
             l == Len(Frame(m))
             r == Needed(m)
  <2>1. k \in Int /\ k + 1 \in Int /\ s + 1 \in Int /\ m \in HttpMessage
    BY Places
  <2> HIDE DEF m
  <2>2. l \in Nat /\ r \in Nat
    BY <2>1, FrameType
  <2>3. at[k + 1] = at[k] + l /\ at[k + 1] <= at[s + 1] /\ at[k] + r <= Len(w) /\ Along(at[k], w, Frame(m))
    BY <1>3 DEF Stream, FramesAt, m
  <2>4. Along(b[k], v, Frame(m))
    <3>1. Along(at[k] - n, v, Frame(m)) /\ b[k] = at[k] - n
      BY <1>1, <1>2, <2>1, <2>3
    <3> QED
      BY <3>1
  <2> HIDE DEF l, r, m
  <2> DEFINE x == at[k]
             y == at[k + 1]
             z == at[s + 1]
  <2>5. /\ b[k] = x - n /\ b[k + 1] = y - n /\ b[s + 1] = z - n
        /\ x \in Int /\ y \in Int /\ z \in Int
    BY <1>1, <2>1
  <2>7. y = x + l /\ y <= z /\ x + r <= Len(w)
    BY <2>3
  <2> HIDE DEF x, y, z
  <2>6. b[k + 1] = b[k] + l /\ b[k + 1] <= b[s + 1] /\ b[k] + r <= Len(v)
    BY <1>0, <1>a, <2>2, <2>5, <2>7
  <2> QED
    BY <2>4, <2>6 DEF l, r, m
<1>4. EndsAt(b[s + 1], v, s, g, pr, pp)
  <2> DEFINE m == Messages[s + 1]
             r == Needed(m)
  <2>1. s + 1 \in Int /\ Len(Messages) \in Nat
    BY HttpAssumption
  <2>2. s < Len(Messages) => r \in Nat
    <3>1. s < Len(Messages) => s + 1 \in 1..Len(Messages)
      BY <2>1
    <3> QED
      BY <3>1, MessagesAre, FrameType
  <2>3. EndsAt(at[s + 1], w, s, g, pr, pp)
    BY DEF Stream
  <2>4. s < Len(Messages) => Along(b[s + 1], v, Frame(m))
    <3> SUFFICES ASSUME s < Len(Messages) PROVE Along(b[s + 1], v, Frame(m))
      OBVIOUS
    <3>1. Along(at[s + 1], w, Frame(m))
      BY <2>3 DEF EndsAt
    <3>2. Along(at[s + 1] - n, v, Frame(m)) /\ b[s + 1] = at[s + 1] - n
      BY <1>1, <1>2, <2>1, <3>1
    <3> QED
      BY <3>2
  <2> DEFINE z == at[s + 1]
  <2>5. b[s + 1] = z - n /\ z \in Int
    BY <1>1, <2>1
  <2>6. /\ pr = "open" => Len(w) = z
        /\ s = Len(Messages) => Len(w) <= z
        /\ ~ pp /\ s > g => Len(w) <= z
        /\ s < Len(Messages) => Len(w) < z + r
    BY <2>3 DEF EndsAt
  <2> HIDE DEF r, z
  <2>7. /\ pr = "open" => Len(v) = b[s + 1]
        /\ s = Len(Messages) => Len(v) <= b[s + 1]
        /\ ~ pp /\ s > g => Len(v) <= b[s + 1]
        /\ s < Len(Messages) => Len(v) < b[s + 1] + r
    <3> DEFINE lw == Len(w)
               lv == Len(v)
               y == b[s + 1]
    <3>0. lv = lw - n /\ lw \in Nat /\ n \in Nat /\ y = z - n /\ z \in Int
      BY <1>0, <1>a, <2>5
    <3> HIDE DEF lw, lv, y
    <3>4. lv \in Int /\ y \in Int
      BY <3>0
    <3>1. lw = z => lv = y
      BY <3>0
    <3>2. lw <= z => lv <= y
      BY <3>0
    <3>3. r \in Nat => (lw < z + r => lv < y + r)
      BY <3>0, <3>4
    <3> USE DEF lw, lv, y
    <3> QED
      BY <2>2, <2>6, <3>1, <3>2, <3>3
  <2> QED
    BY <2>4, <2>7 DEF EndsAt, r
<1>5. FramesAt(b, v, s, g)
  BY <1>3 DEF FramesAt
<1>6. Stream(b, v, s, g, pr, pp)
  BY <1>4, <1>5 DEF Stream
<1> QED
  BY <1>6 DEF v, b

(* It returns a message.                                                    *)
LEMMA Returned ==
  ASSUME NEW at \in [Int -> Int], NEW w \in Seq(Byte), NEW s \in 0..Len(Messages),
         NEW g \in 0..s, NEW pr, NEW pp, Stream(at, w, s, g, pr, pp), g < s
  PROVE  Stream(at, w, s, g + 1, pr, pp)
<1>1. First(g + 1)..s \subseteq First(g)..s
  BY DEF First
<1>2. FramesAt(at, w, s, g + 1)
  BY <1>1 DEF Stream, FramesAt
<1>3. s > g + 1 => s > g
  OBVIOUS
<1>4. EndsAt(at[s + 1], w, s, g + 1, pr, pp)
  BY <1>3 DEF Stream, EndsAt
<1> QED
  BY <1>2, <1>4 DEF Stream

(* The peer writes: what is there stays where it is.                        *)
LEMMA AlongBefore ==
  ASSUME NEW p \in Int, NEW w \in Seq(Byte), NEW v \in Seq(Byte), NEW f \in Seq(Byte),
         Along(p, w, f), p + Len(f) <= Len(w)
  PROVE  Along(p, w \o v, f)
<1> DEFINE u == w \o v
<1>1. Joins(u, w, v)
  BY Joined
<1> HIDE DEF u
<1>2. ASSUME NEW j \in 1..Len(f), p + j \in 1..Len(u) PROVE u[p + j] = f[j]
  <2>1. j \in Int /\ j <= Len(f) /\ Len(f) \in Nat /\ Len(w) \in Nat
    OBVIOUS
  <2>2. p + j \in 1..Len(w)
    BY <1>2, <2>1
  <2> QED
    BY <1>1, <2>2 DEF Along, Joins
<1>3. Along(p, u, f)
  BY <1>2 DEF Along
<1> QED
  BY <1>3 DEF u

(* What is written lies behind what was there.                               *)
LEMMA AlongWritten ==
  ASSUME NEW w \in Seq(Byte), NEW v \in Seq(Byte), NEW f \in Seq(Byte),
         Len(v) <= Len(f), \A j \in 1..Len(v) : v[j] = f[j]
  PROVE  Along(Len(w), w \o v, f)
<1> DEFINE u == w \o v
<1>1. Joins(u, w, v)
  BY Joined
<1> HIDE DEF u
<1>2. ASSUME NEW j \in 1..Len(f), Len(w) + j \in 1..Len(u) PROVE u[Len(w) + j] = f[j]
  <2>1. j \in Int /\ Len(f) \in Nat /\ Len(w) \in Nat /\ Len(v) \in Nat
    OBVIOUS
  <2>2. j \in 1..Len(v)
    BY <1>1, <1>2, <2>1 DEF Joins
  <2> QED
    BY <1>1, <2>2 DEF Joins
<1>3. Along(Len(w), u, f)
  BY <1>2 DEF Along
<1> QED
  BY <1>3 DEF u

(* A message more, of which the last n bytes may be missing if it is the     *)
(* last: of those no reader needs them.                                     *)
LEMMA Sent ==
  ASSUME NEW at \in [Int -> Int], NEW w \in Seq(Byte), NEW s \in 0..Len(Messages),
         NEW g \in 0..s, NEW pr, NEW pp, Stream(at, w, s, g, "open", pp), s < Len(Messages),
         NEW v \in Seq(Byte), Needed(Messages[s + 1]) <= Len(v),
         Len(v) <= Len(Frame(Messages[s + 1])),
         \A j \in 1..Len(v) : v[j] = Frame(Messages[s + 1])[j],
         pr = "open" => Len(v) = Len(Frame(Messages[s + 1]))
  PROVE  LET b == [at EXCEPT ![s + 2] = at[s + 1] + Len(Frame(Messages[s + 1]))]
         IN Stream(b, w \o v, s + 1, g, pr, pp)
<1> DEFINE m == Messages[s + 1]
           l == Len(Frame(m))
           b == [at EXCEPT ![s + 2] = at[s + 1] + l]
           u == w \o v
<1>1. /\ Len(Messages) \in Nat /\ s \in Nat /\ g \in Nat /\ s + 1 \in 1..Len(Messages)
      /\ s + 1 \in Int /\ s + 2 \in Int
  <2>1. Len(Messages) \in Nat
    BY HttpAssumption
  <2> QED
    BY <2>1
<1>2. m \in HttpMessage
  BY <1>1, MessagesAre
<1> HIDE DEF m
<1>3. /\ Frame(m) \in Seq(Byte) /\ l \in Nat
      /\ Needed(m) \in Nat /\ 5 <= Needed(m) /\ Needed(m) <= l
  BY <1>2, FrameType
<1> HIDE DEF l
<1>4. u \in Seq(Byte) /\ Len(u) = Len(w) + Len(v) /\ Len(w) \in Nat /\ Len(v) \in Nat
  <2>1. u \in Seq(Byte) /\ Joins(u, w, v)
    BY Joined
  <2> HIDE DEF u
  <2> QED
    BY <2>1 DEF Joins
<1>5. Len(w) = at[s + 1]
  BY DEF Stream, EndsAt
<1>6. \A k \in Int : k <= s + 1 => b[k] = at[k]
  BY <1>1
<1>7. b[s + 2] = at[s + 1] + l
  BY <1>1
<1> HIDE DEF u, b
<1>8. ASSUME NEW k \in First(g)..s
      PROVE  /\ b[k + 1] = b[k] + Len(Frame(Messages[k]))
             /\ b[k + 1] <= b[s + 2]
             /\ b[k] + Needed(Messages[k]) <= Len(u)
             /\ Along(b[k], u, Frame(Messages[k]))
  <2> DEFINE f == Messages[k]
             x == at[k]
             y == at[k + 1]
             z == at[s + 1]
             lf == Len(Frame(f))
             nf == Needed(f)
  <2>1. f \in HttpMessage /\ k \in Int /\ k + 1 \in Int /\ k <= s
    BY Places, SMTT(30)
  <2>2. y = x + lf /\ y <= z /\ x + nf <= Len(w) /\ Along(x, w, Frame(f))
    BY <1>8 DEF Stream, FramesAt
  <2>3. x \in Int /\ y \in Int /\ z \in Int
    BY <1>1, <2>1
  <2>4. b[k] = x /\ b[k + 1] = y /\ b[s + 2] = z + l
    <3>1. k <= s + 1 /\ k + 1 <= s + 1
      BY <1>1, <2>1
    <3> QED
      BY <1>6, <1>7, <2>1, <3>1
  <2> HIDE DEF f
  <2>5. lf \in Nat /\ nf \in Nat /\ Frame(f) \in Seq(Byte)
    BY <2>1, FrameType
  <2>6. z = Len(w)
    BY <1>5
  <2> HIDE DEF x, y, z
  <2>7. x + lf <= Len(w)
    BY <2>2, <2>6
  <2>8. Along(x, u, Frame(f))
    <3>1. Along(x, w \o v, Frame(f))
      BY <2>2, <2>3, <2>5, <2>7, AlongBefore
    <3> QED
      BY <3>1 DEF u
  <2> HIDE DEF lf, nf
  <2>9. x + nf <= Len(u)
    BY <1>4, <2>2, <2>3, <2>5
  <2>10. y <= z + l
    BY <1>3, <2>2, <2>3
  <2> QED
    BY <2>2, <2>4, <2>8, <2>9, <2>10 DEF f, lf, nf
<1>9. /\ b[s + 2] = b[s + 1] + l
      /\ b[s + 1] + Needed(m) <= Len(u)
      /\ Along(b[s + 1], u, Frame(m))
  <2> DEFINE z == at[s + 1]
             r == Needed(m)
  <2>1. b[s + 1] = z /\ b[s + 2] = z + l /\ z = Len(w)
    <3>1. s + 1 <= s + 1
      BY <1>1
    <3> QED
      BY <1>1, <1>5, <1>6, <1>7, <3>1
  <2>2. r <= Len(v) /\ Len(v) <= l /\ \A j \in 1..Len(v) : v[j] = Frame(m)[j]
    BY DEF m, l
  <2> HIDE DEF z, r
  <2>3. Along(Len(w), u, Frame(m))
    <3>1. Along(Len(w), w \o v, Frame(m))
      BY <1>3, <2>2, AlongWritten DEF l
    <3> QED
      BY <3>1 DEF u
  <2>4. z + r <= Len(u)
    BY <1>3, <1>4, <2>1, <2>2 DEF r
  <2> QED
    BY <2>1, <2>3, <2>4 DEF r
<1>10. FramesAt(b, u, s + 1, g)
  <2> SUFFICES ASSUME NEW k \in First(g)..(s + 1)
               PROVE  /\ b[k + 1] = b[k] + Len(Frame(Messages[k]))
                      /\ b[k + 1] <= b[(s + 1) + 1]
                      /\ b[k] + Needed(Messages[k]) <= Len(u)
                      /\ Along(b[k], u, Frame(Messages[k]))
    BY DEF FramesAt
  <2>1. (s + 1) + 1 = s + 2 /\ First(g) \in Nat
    BY <1>1 DEF First
  <2>2. CASE k = s + 1
    <3>1. b[s + 2] \in Int
      <4>1. at[s + 1] \in Int
        BY <1>1
      <4> QED
        BY <1>3, <1>7, <4>1
    <3>2. b[s + 2] <= b[s + 2]
      <4> DEFINE x == b[s + 2]
      <4> HIDE DEF x
      <4>1. x \in Int => x <= x
        OBVIOUS
      <4> QED
        BY <3>1, <4>1 DEF x
    <3> QED
      BY <1>9, <2>1, <2>2, <3>2 DEF m, l
  <2>3. CASE k # s + 1
    <3>1. k \in First(g)..s
      BY <1>1, <2>1, <2>3
    <3> QED
      BY <1>8, <2>1, <3>1
  <2> QED
    BY <2>2, <2>3
<1>11. EndsAt(b[s + 2], u, s + 1, g, pr, pp)
  <2> DEFINE z == at[s + 1]
             x == b[s + 2]
  <2>1. x = z + l /\ z = Len(w) /\ z \in Int
    BY <1>1, <1>5, <1>7
  <2>2. Len(v) <= l /\ (pr = "open" => Len(v) = l)
    BY DEF m, l
  <2> HIDE DEF z, x
  <2>3. Len(u) <= x
    BY <1>3, <1>4, <2>1, <2>2
  <2>4. Len(v) = l => Len(u) = x
    BY <1>3, <1>4, <2>1
  <2>5. x \in Int
    BY <1>3, <2>1
  <2>6. ASSUME s + 1 < Len(Messages)
        PROVE  /\ Len(u) < x + Needed(Messages[(s + 1) + 1])
               /\ Along(x, u, Frame(Messages[(s + 1) + 1]))
    <3> DEFINE f == Messages[(s + 1) + 1]
               r == Needed(f)
    <3>1. (s + 1) + 1 \in 1..Len(Messages)
      BY <1>1, <2>6
    <3>2. f \in HttpMessage
      BY <3>1, MessagesAre
    <3> HIDE DEF f
    <3>3. r \in Nat /\ 5 <= r /\ Frame(f) \in Seq(Byte)
      BY <3>2, FrameType
    <3> HIDE DEF r
    <3>4. Len(u) < x + r
      BY <1>4, <2>3, <2>5, <3>3
    <3>5. Along(x, u, Frame(f))
      <4> SUFFICES ASSUME NEW j \in 1..Len(Frame(f)) PROVE ~ (x + j \in 1..Len(u))
        BY DEF Along
      <4>1. j \in Nat /\ 1 <= j
        BY <3>3
      <4> QED
        BY <1>4, <2>3, <2>5, <4>1
    <3> QED
      BY <3>4, <3>5 DEF f, r
  <2> QED
    BY <2>2, <2>3, <2>4, <2>6 DEF EndsAt, x
<1>12. (s + 1) + 1 = s + 2
  BY <1>1
<1>13. Stream(b, u, s + 1, g, pr, pp)
  BY <1>10, <1>11, <1>12 DEF Stream
<1> QED
  BY <1>13 DEF b, u, l, m

(* The peer closes between two messages, or in one that no reader can use.  *)
LEMMA Closed ==
  ASSUME NEW at \in [Int -> Int], NEW w \in Seq(Byte), NEW s \in 0..Len(Messages),
         NEW g \in 0..s, NEW pp, Stream(at, w, s, g, "open", pp)
  PROVE  Stream(at, w, s, g, "closed", pp)
  BY DEF Stream, EndsAt

(* What HttpAssumption says of the numbers.                                  *)
LEMMA Constants ==
  /\ HeadTurns \in Nat /\ HeadTurns > 0
  /\ LineTurns \in Nat /\ LineTurns >= 5 /\ Len(Messages) \in Nat
  BY HttpAssumption

(* A message that comes after s others, of which g were returned.           *)
LEMMA Following ==
  ASSUME NEW n \in Nat, NEW s \in 0..n, NEW g \in 0..s, s < n
  PROVE  s \in Nat /\ g \in Nat /\ s + 1 \in 1..n /\ s + 1 \in Int
  OBVIOUS

(* The peer closes, having written a part that no reader can use.            *)
LEMMA BrokenOff ==
  ASSUME NEW at \in [Int -> Int], NEW w \in Seq(Byte), NEW s \in 0..Len(Messages),
         NEW g \in 0..s, NEW pp, Stream(at, w, s, g, "open", pp), s < Len(Messages),
         pp \/ s = g,
         NEW v \in Seq(Byte), Len(v) < Needed(Messages[s + 1]),
         \A j \in 1..Len(v) : v[j] = Frame(Messages[s + 1])[j]
  PROVE  Stream(at, w \o v, s, g, "closed", pp)
<1> DEFINE m == Messages[s + 1]
           u == w \o v
<1>1. /\ Len(Messages) \in Nat /\ s \in Nat /\ g \in Nat /\ s + 1 \in 1..Len(Messages)
      /\ s + 1 \in Int
  <2>1. Len(Messages) \in Nat
    BY Constants
  <2> QED
    BY <2>1, Following
<1>2. m \in HttpMessage
  BY <1>1, MessagesAre
<1> HIDE DEF m
<1>3. /\ Frame(m) \in Seq(Byte) /\ Len(Frame(m)) \in Nat
      /\ Needed(m) \in Nat /\ Needed(m) <= Len(Frame(m))
  BY <1>2, FrameType
<1>4. u \in Seq(Byte) /\ Len(u) = Len(w) + Len(v) /\ Len(w) \in Nat /\ Len(v) \in Nat
  <2>1. u \in Seq(Byte) /\ Joins(u, w, v)
    BY Joined
  <2> HIDE DEF u
  <2> QED
    BY <2>1 DEF Joins
<1>5. Len(w) = at[s + 1]
  BY DEF Stream, EndsAt
<1> HIDE DEF u
<1>6. ASSUME NEW k \in First(g)..s
      PROVE  /\ at[k + 1] = at[k] + Len(Frame(Messages[k]))
             /\ at[k + 1] <= at[s + 1]
             /\ at[k] + Needed(Messages[k]) <= Len(u)
             /\ Along(at[k], u, Frame(Messages[k]))
  <2> DEFINE f == Messages[k]
             x == at[k]
             y == at[k + 1]
             z == at[s + 1]
             lf == Len(Frame(f))
             nf == Needed(f)
  <2>1. f \in HttpMessage /\ k \in Int /\ k + 1 \in Int
    BY Places
  <2>2. y = x + lf /\ y <= z /\ x + nf <= Len(w) /\ Along(x, w, Frame(f))
    BY <1>6 DEF Stream, FramesAt
  <2>3. x \in Int /\ y \in Int /\ z \in Int
    BY <1>1, <2>1
  <2> HIDE DEF f
  <2>4. lf \in Nat /\ nf \in Nat /\ Frame(f) \in Seq(Byte)
    BY <2>1, FrameType
  <2>5. z = Len(w)
    BY <1>5
  <2> HIDE DEF x, y, z
  <2>6. x + lf <= Len(w)
    BY <2>2, <2>5
  <2>7. Along(x, u, Frame(f))
    <3>1. Along(x, w \o v, Frame(f))
      BY <2>2, <2>3, <2>4, <2>6, AlongBefore
    <3> QED
      BY <3>1 DEF u
  <2> HIDE DEF lf, nf
  <2>8. x + nf <= Len(u)
    BY <1>4, <2>2, <2>3, <2>4
  <2> QED
    BY <2>2, <2>7, <2>8 DEF f, lf, nf, x, y, z
<1>7. EndsAt(at[s + 1], u, s, g, "closed", pp)
  <2> DEFINE r == Needed(m)
  <2>1. Len(v) < r /\ \A j \in 1..Len(v) : v[j] = Frame(m)[j]
    BY DEF m
  <2> HIDE DEF r
  <2>2. Len(v) <= Len(Frame(m))
    BY <1>3, <1>4, <2>1 DEF r
  <2>3. Along(Len(w), u, Frame(m))
    <3>1. Along(Len(w), w \o v, Frame(m))
      BY <1>3, <2>1, <2>2, AlongWritten
    <3> QED
      BY <3>1 DEF u
  <2>4. Len(u) < Len(w) + r
    BY <1>3, <1>4, <2>1 DEF r
  <2>5. s # Len(Messages) /\ (pp \/ ~ (s > g))
    BY <1>1
  <2> QED
    BY <1>5, <2>3, <2>4, <2>5 DEF EndsAt, m, r
<1>8. Stream(at, u, s, g, "closed", pp)
  BY <1>6, <1>7 DEF Stream, FramesAt
<1> QED
  BY <1>8 DEF u
-----------------------------------------------------------------------------
(***************************************************************************)
(* What the reader finds in it                                               *)
(***************************************************************************)

(* The frames count from the last that was returned, or from the first.      *)
LEMMA FirstIs ==
  ASSUME NEW g \in Nat
  PROVE  First(g) \in Nat /\ 1 <= First(g) /\ First(g) <= g + 1 /\ (g # 0 => First(g) = g)
  BY DEF First

(* What the reader finds in the connection when it has had q bytes of the   *)
(* next frame.                                                              *)
LEMMA Ahead ==
  ASSUME NEW at \in [Int -> Int], NEW w \in Seq(Byte), NEW s \in 0..Len(Messages),
         NEW g \in 0..s, NEW pr, NEW pp, Stream(at, w, s, g, pr, pp),
         NEW q \in Nat, at[g + 1] = - q, NEW n \in 1..Len(w)
  PROVE  /\ g + 1 \in 1..Len(Messages)
         /\ \A j \in 1..n : q + j <= Len(Frame(Messages[g + 1])) => w[j] = Frame(Messages[g + 1])[q + j]
         /\ q + n >= Needed(Messages[g + 1]) => g < s
<1> DEFINE m == Messages[g + 1]
           p == at[g + 1]
<1>1. Len(Messages) \in Nat
  BY HttpAssumption
<1>2. s \in Nat /\ g \in Nat /\ g + 1 \in Nat /\ Len(w) \in Nat /\ n \in Nat
  BY <1>1
<1>3. g = s => g + 1 \in 1..Len(Messages) /\ Len(w) < p + Needed(m) /\ Along(p, w, Frame(m))
  <2> SUFFICES ASSUME g = s PROVE g + 1 \in 1..Len(Messages) /\ Len(w) < p + Needed(m) /\ Along(p, w, Frame(m))
    OBVIOUS
  <2>1. EndsAt(p, w, s, g, pr, pp)
    BY DEF Stream
  <2>2. s # Len(Messages)
    <3> SUFFICES ASSUME s = Len(Messages) PROVE FALSE
      OBVIOUS
    <3>1. Len(w) <= p
      BY <2>1 DEF EndsAt
    <3> HIDE DEF p
    <3>2. p = - q
      BY DEF p
    <3> QED
      BY <1>2, <3>1, <3>2
  <2>3. s < Len(Messages)
    BY <1>1, <2>2
  <2> QED
    BY <1>1, <1>2, <2>1, <2>3 DEF EndsAt
<1>4. g < s => g + 1 \in 1..Len(Messages) /\ g + 1 \in First(g)..s
  <2>1. First(g) \in Nat /\ First(g) <= g + 1
    BY <1>2, FirstIs
  <2> QED
    BY <1>1, <1>2, <2>1
<1>5. g < s => Along(p, w, Frame(m))
  BY <1>4 DEF Stream, FramesAt
<1>6. g < s \/ g = s
  BY <1>2
<1>7. g + 1 \in 1..Len(Messages) /\ Along(p, w, Frame(m))
  BY <1>3, <1>4, <1>5, <1>6
<1>8. m \in HttpMessage
  BY <1>7, MessagesAre
<1> HIDE DEF m
<1>9. Len(Frame(m)) \in Nat /\ Needed(m) \in Nat
  BY <1>8, FrameType
<1>10. ASSUME NEW j \in 1..n, q + j <= Len(Frame(m)) PROVE w[j] = Frame(m)[q + j]
  <2>1. p = - q
    OBVIOUS
  <2> HIDE DEF p
  <2>2. p + (q + j) = j /\ q + j \in 1..Len(Frame(m)) /\ j \in 1..Len(w)
    BY <1>2, <1>9, <1>10, <2>1
  <2> QED
    BY <1>7, <2>2 DEF Along
<1>11. ASSUME q + n >= Needed(m), g = s PROVE FALSE
  <2>1. Len(w) < p + Needed(m)
    BY <1>3, <1>11
  <2>2. p = - q
    OBVIOUS
  <2> DEFINE r == Needed(m)
  <2>3. n <= Len(w) /\ q \in Nat /\ r \in Nat /\ Len(w) < p + r /\ q + n >= r
    BY <1>2, <1>9, <1>11, <2>1
  <2> HIDE DEF p, r
  <2> QED
    BY <1>2, <2>2, <2>3
<1> QED
  BY <1>6, <1>7, <1>10, <1>11 DEF m

(* A message that was sent is there as far as the reader needs it, and the  *)
(* next one begins behind it; a peer that waits has sent no other.          *)
LEMMA Whole ==
  ASSUME NEW at \in [Int -> Int], NEW w \in Seq(Byte), NEW s \in 0..Len(Messages),
         NEW g \in 0..s, NEW pr, NEW pp, Stream(at, w, s, g, pr, pp), g < s
  PROVE  /\ at[g + 1] + Needed(Messages[g + 1]) <= Len(w)
         /\ at[(g + 1) + 1] = at[g + 1] + Len(Frame(Messages[g + 1]))
<1>1. Len(Messages) \in Nat
  BY HttpAssumption
<1>2. s \in Nat /\ g \in Nat
  BY <1>1
<1>3. g + 1 \in First(g)..s
  <2>1. First(g) \in Nat /\ First(g) <= g + 1
    BY <1>2, FirstIs
  <2> QED
    BY <1>2, <2>1
<1> QED
  BY <1>3 DEF Stream, FramesAt

(* A peer that waits has sent nothing behind the next frame.                 *)
LEMMA Alone ==
  ASSUME NEW at \in [Int -> Int], NEW w \in Seq(Byte), NEW s \in 0..Len(Messages),
         NEW g \in 0..s, NEW pr, NEW pp, Stream(at, w, s, g, pr, pp),
         g + 1 \in 1..Len(Messages)
  PROVE  ~ pp => (s <= g + 1 => Len(w) <= at[g + 1] + Len(Frame(Messages[g + 1])))
<1> SUFFICES ASSUME ~ pp, s <= g + 1
             PROVE  Len(w) <= at[g + 1] + Len(Frame(Messages[g + 1]))
  OBVIOUS
<1> DEFINE m == Messages[g + 1]
           p == at[g + 1]
           l == Len(Frame(m))
<1>1. Len(Messages) \in Nat
  BY HttpAssumption
<1>2. s \in Nat /\ g \in Nat /\ Len(w) \in Nat /\ g + 1 \in Int
  BY <1>1
<1>3. m \in HttpMessage
  BY MessagesAre
<1> HIDE DEF m
<1>4. l \in Nat /\ Needed(m) \in Nat /\ Needed(m) <= l
  BY <1>3, FrameType
<1>5. p \in Int
  BY <1>2
<1>6. CASE g = s
  <2>1. s < Len(Messages)
    BY <1>1, <1>2, <1>6
  <2>2. Len(w) < p + Needed(m)
    BY <1>6, <2>1 DEF Stream, EndsAt, m
  <2> DEFINE r == Needed(m)
  <2>4. r \in Nat /\ r <= l /\ l \in Nat /\ Len(w) < p + r
    BY <1>4, <2>2
  <2> HIDE DEF p, l, r
  <2>3. Len(w) <= p + l
    BY <1>2, <1>5, <2>4
  <2> QED
    BY <2>3 DEF p, l, m
<1>7. CASE g < s
  <2>1. s = g + 1 /\ s > g
    BY <1>2, <1>7
  <2>2. Len(w) <= at[s + 1]
    BY <2>1 DEF Stream, EndsAt
  <2>3. at[(g + 1) + 1] = at[g + 1] + Len(Frame(Messages[g + 1]))
    BY <1>7, Whole
  <2> QED
    BY <2>1, <2>2, <2>3
<1> QED
  BY <1>2, <1>6, <1>7

(* The chunked frame ends with a line break that the reader leaves.         *)
LEMMA FrameEnd ==
  ASSUME NEW m \in HttpMessage, m.mode = "chunked"
  PROVE  Frame(m)[Len(Frame(m)) - 1] = Cr /\ Frame(m)[Len(Frame(m))] = Lf
<1> DEFINE N == Len(m.chunks)
           e == Pos(m)[N + 1]
           d == ChunkAt(m, N + 1)
<1>1. N \in Nat
  BY DataAreBytes
<1>2. Laid(m, Pos(m), Cat(m))
  BY Layout
<1>3. N + 1 \in 1..(N + 1) /\ ~ (N + 1 <= N)
  BY <1>1
<1>4. e \in Nat /\ Len(Frame(m)) = e + 5
  BY <1>2, <1>3 DEF Laid
<1>5. d = <<>>
  BY <1>3 DEF ChunkAt
<1>6. \A j \in 1..(5 + Len(d)) : Frame(m)[e + j] = Chunk(d)[j]
  BY <1>2, <1>3 DEF Laid
<1> HIDE DEF d, e, N
<1>7. d \in Seq(Byte) /\ Len(d) = 0
  <2>1. <<>> \in Seq(Byte) /\ Len(<<>>) = 0
    OBVIOUS
  <2> QED
    BY <1>5, <2>1
<1>8. Chunk(d)[4 + Len(d)] = Cr /\ Chunk(d)[5 + Len(d)] = Lf
  BY <1>7, ChunkParts
<1>9. Frame(m)[e + 4] = Cr /\ Frame(m)[e + 5] = Lf
  <2>1. 4 + Len(d) = 4 /\ 5 + Len(d) = 5
    BY <1>7
  <2>2. 4 \in 1..(5 + Len(d)) /\ 5 \in 1..(5 + Len(d))
    BY <2>1
  <2> QED
    BY <1>6, <1>8, <2>1, <2>2
<1>10. (e + 5) - 1 = e + 4
  BY <1>4
<1> QED
  BY <1>4, <1>9, <1>10

(* What is left of a chunked message is in front of the next head.           *)
LEMMA BreakAhead ==
  ASSUME NEW at \in [Int -> Int], NEW w \in Seq(Byte), NEW s \in 0..Len(Messages),
         NEW g \in 1..s, NEW pr, NEW pp, Stream(at, w, s, g, pr, pp),
         Messages[g].mode = "chunked", at[g + 1] \in {1, 2}, Len(w) >= 1
  PROVE  w[1] = IF at[g + 1] = 2 THEN Cr ELSE Lf
<1> DEFINE m == Messages[g]
           p == at[g + 1]
           a == at[g]
           l == Len(Frame(m))
<1>1. Len(Messages) \in Nat
  BY HttpAssumption
<1>2. s \in Nat /\ g \in Nat /\ Len(w) \in Nat /\ g # 0 /\ g <= s /\ s <= Len(Messages)
  <2>1. s \in Nat /\ s <= Len(Messages)
    BY <1>1
  <2>2. g \in Nat /\ g # 0 /\ g <= s
    BY <2>1
  <2>3. Len(w) \in Nat
    OBVIOUS
  <2> QED
    BY <2>1, <2>2, <2>3
<1>3. g \in First(g)..s /\ g \in 1..Len(Messages)
  <2>1. First(g) = g
    BY <1>2, FirstIs
  <2> QED
    BY <1>1, <1>2, <2>1
<1>4. m \in HttpMessage
  BY <1>3, MessagesAre
<1>5. p = a + l /\ Along(a, w, Frame(m)) /\ a \in Int
  <2>1. p = a + l /\ Along(a, w, Frame(m))
    BY <1>3 DEF Stream, FramesAt
  <2>2. g \in Int
    BY <1>2
  <2> QED
    BY <2>1, <2>2
<1>6. p = 1 \/ p = 2
  OBVIOUS
<1>a. m.mode = "chunked"
  OBVIOUS
<1> HIDE DEF m
<1>7. l \in Nat /\ 5 <= l
  BY <1>4, FrameType
<1>8. Frame(m)[l - 1] = Cr /\ Frame(m)[l] = Lf
  BY <1>4, <1>a, FrameEnd
<1> HIDE DEF a, p
<1>9. CASE p = 2
  <2> HIDE DEF l
  <2>1. a + (l - 1) = 1 /\ l - 1 \in 1..l /\ 1 \in 1..Len(w)
    BY <1>2, <1>5, <1>7, <1>9
  <2>2. w[1] = Frame(m)[l - 1]
    BY <1>5, <2>1 DEF Along, l
  <2> QED
    BY <1>8, <1>9, <2>2 DEF p
<1>10. CASE p = 1
  <2> HIDE DEF l
  <2>1. a + l = 1 /\ l \in 1..l /\ 1 \in 1..Len(w) /\ p # 2
    BY <1>2, <1>5, <1>7, <1>10
  <2>2. w[1] = Frame(m)[l]
    BY <1>5, <2>1 DEF Along, l
  <2> QED
    BY <1>8, <2>1, <2>2 DEF p
<1> QED
  BY <1>6, <1>9, <1>10
-----------------------------------------------------------------------------
(***************************************************************************)
(* Types                                                                     *)
(***************************************************************************)

(* TypeOK, and the types of what it leaves out.                              *)
HttpType ==
  /\ timed \in BOOLEAN /\ pipelines \in BOOLEAN
  /\ sent \in 0..Len(Messages) /\ peer \in {"open", "closed"} /\ broken \in BOOLEAN
  /\ wire \in Seq(Byte)
  /\ rpc \in {"idle", "head", "length", "line", "chunk", "closed"}
  /\ i \in Nat /\ v_head \in Seq(Byte) /\ v_body \in Seq(Byte)
  /\ i_content_length \in Nat /\ line \in Seq(Byte)
  /\ iChunckLength \in Nat /\ chunckData \in Seq(Byte)
  /\ rpc = "head" => i < HeadTurns /\ Len(v_head) <= i
  /\ rpc = "length" => Len(v_body) < i_content_length
  /\ rpc = "line" => i < LineTurns /\ Len(line) <= i
  /\ rpc = "chunk" => Len(chunckData) < iChunckLength
  /\ ret \in {"SMOOTH", "TIMEOUT", "CLOSE", "ERROR", "PROTOCOL"}
  /\ got \in Seq(Seq(Byte))
  /\ over \in BOOLEAN /\ spent \in BOOLEAN /\ cut \in BOOLEAN

(* One ::read().                                                            *)
LEMMA Takes ==
  ASSUME wire \in Seq(Byte), NEW n, NEW count, Receives(n, count)
  PROVE  /\ n \in 1..Len(wire) /\ n <= count
         /\ SubSeq(wire, 1, n) \in Seq(Byte) /\ Len(SubSeq(wire, 1, n)) = n
         /\ \A j \in 1..n : SubSeq(wire, 1, n)[j] = wire[j]
         /\ wire[1] \in Byte
         /\ wire' = SubSeq(wire, n + 1, Len(wire)) /\ wire' \in Seq(Byte)
         /\ UNCHANGED <<timed, pipelines, sent, peer, broken>> /\ ~ broken
<1>1. Len(wire) \in Nat
  OBVIOUS
<1>2. /\ ~ broken /\ n \in 1..count /\ n <= Len(wire)
      /\ wire' = SubSeq(wire, n + 1, Len(wire))
      /\ UNCHANGED <<timed, pipelines, sent, peer, broken>>
  BY DEF Receives
<1>3. n \in 1..Len(wire) /\ n <= count /\ 1 \in 1..Len(wire)
  BY <1>1, <1>2
<1>4. wire[1] \in Byte
  BY <1>3, ElementOfSeq
<1> QED
  BY <1>2, <1>3, <1>4, Taken

(* A byte more.                                                             *)
LEMMA OneMore ==
  ASSUME NEW s \in Seq(Byte), NEW b \in Byte
  PROVE  /\ Append(s, b) \in Seq(Byte) /\ Len(Append(s, b)) = Len(s) + 1
         /\ Len(s) \in Nat
         /\ \A j \in 1..Len(s) : Append(s, b)[j] = s[j]
         /\ Append(s, b)[Len(s) + 1] = b
  OBVIOUS

(* The empty sequence of bytes.                                              *)
LEMMA EmptyBytes == <<>> \in Seq(Byte) /\ Len(<<>>) = 0
  OBVIOUS

(* A body more.                                                              *)
LEMMA Appended ==
  ASSUME NEW s \in Seq(Seq(Byte)), NEW b \in Seq(Byte)
  PROVE  /\ Append(s, b) \in Seq(Seq(Byte)) /\ Len(Append(s, b)) = Len(s) + 1
         /\ Len(s) \in Nat
         /\ \A j \in 1..Len(s) : Append(s, b)[j] = s[j]
         /\ Append(s, b)[Len(s) + 1] = b
<1> DEFINE S == Seq(Byte)
<1> HIDE DEF S
<1>1. s \in Seq(S) /\ b \in S
  BY DEF S
<1>2. /\ Append(s, b) \in Seq(S) /\ Len(Append(s, b)) = Len(s) + 1
      /\ Len(s) \in Nat
      /\ \A j \in 1..Len(s) : Append(s, b)[j] = s[j]
      /\ Append(s, b)[Len(s) + 1] = b
  BY <1>1
<1> QED
  BY <1>2 DEF S

(* The types are kept by every step: Send ...                                *)
LEMMA TypeSend ==
  ASSUME HttpType, Send
  PROVE  HttpType'
<1>1. sent + 1 \in 1..Len(Messages) /\ sent' \in 0..Len(Messages)
  <2>1. sent \in 0..Len(Messages) /\ sent < Len(Messages) /\ sent' = sent + 1
    BY DEF HttpType, Send, PeerMaySend
  <2> QED
    BY <2>1, Constants
<1>2. Frame(Messages[sent + 1]) \in Seq(Byte)
  BY <1>1, MessagesAre, FrameType
<1>3. wire' \in Seq(Byte)
  <2>1. wire' = wire \o Frame(Messages[sent + 1]) /\ wire \in Seq(Byte)
    BY DEF HttpType, Send
  <2> QED
    BY <1>2, <2>1, Joined
<1>4. UNCHANGED <<timed, pipelines, peer, broken, rpc, call, ret, history>>
  BY DEF Send
<1> QED
  BY <1>1, <1>3, <1>4 DEF HttpType, call, history

(* ... PeerCloses ...                                                        *)
LEMMA TypePeerCloses ==
  ASSUME HttpType, PeerCloses
  PROVE  HttpType'
<1>1. UNCHANGED <<timed, pipelines, broken, rpc, call, ret, history>> /\ peer' = "closed"
  BY DEF PeerCloses
<1>2. sent' \in 0..Len(Messages) /\ wire' \in Seq(Byte)
  <2>1. CASE UNCHANGED <<wire, sent>>
    BY <2>1 DEF HttpType
  <2>2. CASE ~ UNCHANGED <<wire, sent>>
    <3>1. /\ sent < Len(Messages)
          /\ \E n \in 1..(Len(Frame(Messages[sent + 1])) - 1) :
               /\ wire' = wire \o SubSeq(Frame(Messages[sent + 1]), 1, n)
               /\ sent' = sent + 1 \/ sent' = sent
      BY <2>2 DEF PeerCloses, PeerMaySend
    <3>2. sent \in 0..Len(Messages) /\ wire \in Seq(Byte)
      BY DEF HttpType
    <3>3. sent + 1 \in 1..Len(Messages) /\ sent + 1 \in 0..Len(Messages)
      BY <3>1, <3>2, Constants
    <3> DEFINE f == Frame(Messages[sent + 1])
    <3>4. f \in Seq(Byte) /\ Len(f) \in Nat
      BY <3>3, MessagesAre, FrameType
    <3> HIDE DEF f
    <3>5. PICK n \in 1..(Len(f) - 1) : wire' = wire \o SubSeq(f, 1, n) /\ (sent' = sent + 1 \/ sent' = sent)
      BY <3>1 DEF f
    <3>6. n \in 1..Len(f)
      BY <3>4
    <3>7. SubSeq(f, 1, n) \in Seq(Byte)
      BY <3>4, <3>6, Taken
    <3> QED
      BY <3>2, <3>3, <3>5, <3>7, Joined
  <2> QED
    BY <2>1, <2>2
<1> QED
  BY <1>1, <1>2 DEF HttpType, call, history

(* ... Reset ...                                                             *)
LEMMA TypeReset ==
  ASSUME HttpType, Reset
  PROVE  HttpType'
  BY EmptyBytes DEF HttpType, Reset, call, history

(* ... Read ...                                                              *)
LEMMA TypeRead ==
  ASSUME HttpType, Read
  PROVE  HttpType'
  BY EmptyBytes, Constants DEF HttpType, Read, conn, history

(* ... the ends of a call without data ...                                   *)
LEMMA TypeEnd ==
  ASSUME HttpType, SelectTimeout \/ SelectError \/ ReadError \/ ReadZero
  PROVE  HttpType'
<1>1. /\ UNCHANGED <<timed, pipelines, conn, call, got, over, spent>>
      /\ rpc' \in {"idle", "closed"} /\ ret' \in {"TIMEOUT", "ERROR", "CLOSE"}
      /\ cut' \in BOOLEAN
  BY DEF HttpType, SelectTimeout, SelectError, ReadError, ReadZero, Return, history
<1> QED
  BY <1>1 DEF HttpType, conn, call

(* ... ReadLength: the body is shorter than its length while it is read ...  *)
LEMMA TypeReadLength ==
  ASSUME HttpType, ReadLength
  PROVE  HttpType'
<1>0. wire \in Seq(Byte) /\ v_body \in Seq(Byte) /\ got \in Seq(Seq(Byte)) /\ i_content_length \in Nat /\ over \in BOOLEAN
  BY DEF HttpType
<1>1. PICK n \in 1..Len(wire) : Receives(n, Len(wire)) /\ v_body' = v_body \o SubSeq(wire, 1, n)
  BY DEF ReadLength
<1>2. /\ SubSeq(wire, 1, n) \in Seq(Byte) /\ wire' \in Seq(Byte)
      /\ UNCHANGED <<timed, pipelines, sent, peer, broken>>
  BY <1>0, <1>1, Takes
<1>3. v_body' \in Seq(Byte)
  BY <1>0, <1>1, <1>2, Joined
<1>4. /\ over' \in BOOLEAN
      /\ UNCHANGED <<i, v_head, i_content_length, line, iChunckLength, chunckData, spent, cut>>
  BY <1>0 DEF ReadLength
<1>5. CASE Len(v_body') >= i_content_length
  <2>1. rpc' = "idle" /\ ret' = "SMOOTH" /\ got' = Append(got, v_body')
    BY <1>5 DEF ReadLength, Return
  <2>2. got' \in Seq(Seq(Byte))
    BY <1>0, <1>3, <2>1, Appended
  <2> QED
    BY <1>2, <1>3, <1>4, <2>1, <2>2 DEF HttpType
<1>6. CASE ~ (Len(v_body') >= i_content_length)
  <2>1. UNCHANGED <<rpc, ret, got>> /\ rpc = "length"
    BY <1>6 DEF ReadLength
  <2>2. Len(v_body') < i_content_length
    BY <1>0, <1>3, <1>6
  <2> QED
    BY <1>2, <1>3, <1>4, <2>1, <2>2 DEF HttpType
<1> QED
  BY <1>5, <1>6

(* ... ReadChunk: so is a chunk ...                                          *)
LEMMA TypeReadChunk ==
  ASSUME HttpType, ReadChunk
  PROVE  HttpType'
<1>0. wire \in Seq(Byte) /\ v_body \in Seq(Byte) /\ chunckData \in Seq(Byte) /\ iChunckLength \in Nat
  BY DEF HttpType
<1>1. PICK n \in 1..Len(wire) : /\ Receives(n, iChunckLength - Len(chunckData))
                                /\ chunckData' = chunckData \o SubSeq(wire, 1, n)
  BY DEF ReadChunk
<1>2. /\ SubSeq(wire, 1, n) \in Seq(Byte) /\ wire' \in Seq(Byte)
      /\ UNCHANGED <<timed, pipelines, sent, peer, broken>>
  BY <1>0, <1>1, Takes
<1>3. chunckData' \in Seq(Byte)
  BY <1>0, <1>1, <1>2, Joined
<1>4. UNCHANGED <<v_head, i_content_length, ret, got, over, spent, cut>>
  BY DEF ReadChunk, history
<1>5. CASE Len(chunckData') >= iChunckLength
  <2>1. /\ v_body' = v_body \o chunckData'
        /\ rpc' = "line" /\ i' = 0 /\ line' = <<>> /\ iChunckLength' = 0
    BY <1>5 DEF ReadChunk
  <2>2. v_body' \in Seq(Byte)
    BY <1>0, <1>3, <2>1, Joined
  <2> QED
    BY <1>2, <1>3, <1>4, <2>1, <2>2, Constants, EmptyBytes DEF HttpType
<1>6. CASE ~ (Len(chunckData') >= iChunckLength)
  <2>1. UNCHANGED <<v_body, rpc, i, line, iChunckLength>> /\ rpc = "chunk"
    BY <1>6 DEF ReadChunk
  <2>2. Len(chunckData') < iChunckLength
    BY <1>0, <1>3, <1>6
  <2> QED
    BY <1>2, <1>3, <1>4, <2>1, <2>2 DEF HttpType
<1> QED
  BY <1>5, <1>6

(* ... Again: a loop ends with its last turn ...                             *)
LEMMA TypeAgain ==
  ASSUME HttpType, Again
  PROVE  HttpType'
<1>1. UNCHANGED <<timed, pipelines, conn>>
  BY DEF Again
<1>2. CASE rpc = "head" /\ HeadTurn /\ UNCHANGED <<v_head, over, spent, cut>>
  <2>1. /\ i' = i + 1
        /\ UNCHANGED <<v_body, i_content_length, line, iChunckLength, chunckData, got>>
        /\ i + 1 = HeadTurns => rpc' = "closed" /\ ret' = "PROTOCOL"
        /\ i + 1 # HeadTurns => UNCHANGED <<rpc, ret>>
    BY <1>2 DEF HeadTurn, Return
  <2>2. i \in Nat /\ i < HeadTurns /\ Len(v_head) <= i /\ v_head \in Seq(Byte)
    BY <1>2 DEF HttpType
  <2>3. i' \in Nat /\ (i + 1 # HeadTurns => i' < HeadTurns) /\ Len(v_head) <= i'
    BY <2>1, <2>2, Constants
  <2> QED
    BY <1>1, <1>2, <2>1, <2>3 DEF HttpType, conn
<1>3. CASE rpc = "line" /\ LineTurn /\ UNCHANGED line
  <2>1. /\ i' = i + 1
        /\ UNCHANGED <<v_head, v_body, i_content_length, iChunckLength, chunckData, over, cut>>
        /\ i + 1 = LineTurns => rpc' = "idle" /\ ret' = "SMOOTH" /\ got' = Append(got, v_body) /\ spent' = TRUE
        /\ i + 1 # LineTurns => UNCHANGED <<rpc, ret, got, spent>>
    BY <1>3 DEF LineTurn, Return
  <2>2. /\ i \in Nat /\ i < LineTurns /\ Len(line) <= i /\ line \in Seq(Byte)
        /\ v_body \in Seq(Byte) /\ got \in Seq(Seq(Byte))
    BY <1>3 DEF HttpType
  <2>3. i' \in Nat /\ (i + 1 # LineTurns => i' < LineTurns) /\ Len(line) <= i'
    BY <2>1, <2>2, Constants
  <2>4. got' \in Seq(Seq(Byte))
    BY <2>1, <2>2, Appended
  <2> QED
    BY <1>1, <1>3, <2>1, <2>3, <2>4 DEF HttpType, conn
<1> QED
  BY <1>2, <1>3 DEF Again

(* A byte of a size line: it is kept unless it makes the line a line break. *)
LEMMA LineIs ==
  ASSUME HttpType, ReadLine
  PROVE  line' \in Seq(Byte) /\ Len(line') <= Len(line) + 1 /\ Len(line') \in Nat
<1>1. line \in Seq(Byte) /\ wire \in Seq(Byte) /\ Receives(1, 1)
  BY DEF HttpType, ReadLine
<1>2. wire[1] \in Byte
  BY <1>1, Takes
<1> DEFINE a == Append(line, wire[1])
<1>3. a \in Seq(Byte) /\ Len(a) = Len(line) + 1 /\ Len(line) \in Nat
  BY <1>1, <1>2, OneMore
<1>4. line' = IF a = CrLf THEN <<>> ELSE a
  BY DEF ReadLine, WithoutBreak
<1> HIDE DEF a
<1>5. CASE a = CrLf
  <2>1. line' = <<>>
    BY <1>4, <1>5
  <2>2. line' \in Seq(Byte) /\ Len(line') = 0
    BY <2>1, EmptyBytes
  <2> QED
    BY <1>3, <2>2
<1>6. CASE a # CrLf
  BY <1>3, <1>4, <1>6
<1> QED
  BY <1>5, <1>6

(* A line break, and two.                                                    *)
LEMMA BreakParts ==
  /\ CrLf \in Seq(Byte) /\ Len(CrLf) = 2 /\ CrLf[1] = Cr /\ CrLf[2] = Lf
  /\ CrLf \o CrLf \in Seq(Byte) /\ Len(CrLf \o CrLf) = 4
  /\ (CrLf \o CrLf)[1] = Cr /\ (CrLf \o CrLf)[2] = Lf
  /\ (CrLf \o CrLf)[3] = Cr /\ (CrLf \o CrLf)[4] = Lf
<1>1. CrLf \in Seq(Byte) /\ Len(CrLf) = 2 /\ CrLf[1] = Cr /\ CrLf[2] = Lf
  BY BreakBytes DEF CrLf
<1> DEFINE u == CrLf \o CrLf
<1>2. u \in Seq(Byte) /\ Joins(u, CrLf, CrLf)
  BY <1>1, Joined
<1> HIDE DEF u
<1>3. Len(u) = 4 /\ u[1] = Cr /\ u[2] = Lf
  <2>1. 1 \in 1..2 /\ 2 \in 1..2
    OBVIOUS
  <2> QED
    BY <1>1, <1>2, <2>1 DEF Joins
<1>4. u[3] = Cr /\ u[4] = Lf
  <2>1. 1 \in 1..2 /\ 2 \in 1..2 /\ 2 + 1 = 3 /\ 2 + 2 = 4
    OBVIOUS
  <2>2. u[2 + 1] = CrLf[1] /\ u[2 + 2] = CrLf[2]
    BY <1>1, <1>2, <2>1 DEF Joins
  <2> QED
    BY <1>1, <2>1, <2>2
<1> QED
  BY <1>1, <1>2, <1>3, <1>4 DEF u

(* What strtol() makes of a line is a number.                               *)
LEMMA NumberType ==
  ASSUME NEW s \in Seq(Byte), Len(s) >= 1
  PROVE  Number(s) \in Nat
<1>1. s[1] \in Byte
  BY ElementOfSeq
<1>2. s[1][2] \in Nat
  BY <1>1 DEF Byte
<1> QED
  BY <1>2 DEF Number

(* ... ReadLine ...                                                          *)
LEMMA TypeReadLine ==
  ASSUME HttpType, ReadLine
  PROVE  HttpType'
<1>1. /\ wire \in Seq(Byte) /\ v_body \in Seq(Byte) /\ got \in Seq(Seq(Byte)) /\ line \in Seq(Byte)
      /\ rpc = "line" /\ i \in Nat /\ i < LineTurns /\ Len(line) <= i /\ Receives(1, 1)
  BY DEF HttpType, ReadLine
<1>2. wire' \in Seq(Byte) /\ UNCHANGED <<timed, pipelines, sent, peer, broken>>
  BY <1>1, Takes
<1>3. line' \in Seq(Byte) /\ Len(line') <= Len(line) + 1 /\ Len(line') \in Nat /\ Len(line) \in Nat
  BY <1>1, LineIs
<1>4. got' = Append(got, v_body) => got' \in Seq(Seq(Byte))
  BY <1>1, Appended
<1>5. CASE IsSuffix(CrLf, line')
  <2>1. /\ iChunckLength' = Number(line')
        /\ Number(line') > 0 => rpc' = "chunk" /\ chunckData' = <<>> /\ UNCHANGED <<ret, got>>
        /\ ~ (Number(line') > 0) => /\ rpc' = "idle" /\ ret' = "SMOOTH" /\ got' = Append(got, v_body)
                                    /\ UNCHANGED chunckData
        /\ UNCHANGED <<i, v_head, v_body, i_content_length, over, spent, cut>>
    BY <1>5 DEF ReadLine, Return
  <2>2. Len(line') >= 2
    BY <1>3, <1>5, BreakParts, EndsWith
  <2>3. Number(line') \in Nat
    BY <1>3, <2>2, NumberType
  <2>4. CASE Number(line') > 0
    BY <1>1, <1>2, <1>3, <2>1, <2>3, <2>4, EmptyBytes DEF HttpType
  <2>5. CASE ~ (Number(line') > 0)
    BY <1>1, <1>2, <1>3, <1>4, <2>1, <2>3, <2>5 DEF HttpType
  <2> QED
    BY <2>4, <2>5
<1>6. CASE ~ IsSuffix(CrLf, line')
  <2>1. /\ i' = i + 1
        /\ UNCHANGED <<v_head, v_body, i_content_length, iChunckLength, chunckData, over, cut>>
        /\ i + 1 = LineTurns => rpc' = "idle" /\ ret' = "SMOOTH" /\ got' = Append(got, v_body) /\ spent' = TRUE
        /\ i + 1 # LineTurns => UNCHANGED <<rpc, ret, got, spent>>
    BY <1>6 DEF ReadLine, LineTurn, Return
  <2>2. i' \in Nat /\ (i + 1 # LineTurns => i' < LineTurns) /\ Len(line') <= i'
    BY <1>1, <1>3, <2>1, Constants
  <2>3. CASE i + 1 = LineTurns
    BY <1>1, <1>2, <1>3, <1>4, <2>1, <2>2, <2>3 DEF HttpType
  <2>4. CASE i + 1 # LineTurns
    BY <1>1, <1>2, <1>3, <2>1, <2>2, <2>4 DEF HttpType
  <2> QED
    BY <2>3, <2>4
<1> QED
  BY <1>5, <1>6

(* ... ReadHead ...                                                          *)
LEMMA TypeReadHead ==
  ASSUME HttpType, ReadHead
  PROVE  HttpType'
<1>1. /\ wire \in Seq(Byte) /\ v_body \in Seq(Byte) /\ got \in Seq(Seq(Byte)) /\ v_head \in Seq(Byte)
      /\ rpc = "head" /\ i \in Nat /\ i < HeadTurns /\ Len(v_head) <= i /\ Receives(1, 1)
  BY DEF HttpType, ReadHead
<1>2. wire[1] \in Byte /\ wire' \in Seq(Byte) /\ UNCHANGED <<timed, pipelines, sent, peer, broken>>
  BY <1>1, Takes
<1>3. v_head' \in Seq(Byte) /\ Len(v_head') = Len(v_head) + 1 /\ Len(v_head) \in Nat
  <2>1. v_head' = Append(v_head, wire[1])
    BY DEF ReadHead
  <2> QED
    BY <1>1, <1>2, <2>1, OneMore
<1>4. UNCHANGED <<over, spent, cut>>
  BY DEF ReadHead
<1>5. CASE HeadTurn
  <2>1. /\ i' = i + 1
        /\ UNCHANGED <<v_body, i_content_length, line, iChunckLength, chunckData, got>>
        /\ i + 1 = HeadTurns => rpc' = "closed" /\ ret' = "PROTOCOL"
        /\ i + 1 # HeadTurns => UNCHANGED <<rpc, ret>>
    BY <1>5 DEF HeadTurn, Return
  <2>2. i' \in Nat /\ (i + 1 # HeadTurns => i' < HeadTurns) /\ Len(v_head') <= i'
    BY <1>1, <1>3, <2>1, Constants
  <2> QED
    BY <1>1, <1>2, <1>3, <1>4, <2>1, <2>2 DEF HttpType
<1>6. CASE /\ rpc' = "closed" /\ ret' = "PROTOCOL"
           /\ UNCHANGED <<i, v_body, i_content_length, line, iChunckLength, chunckData, got>>
  BY <1>1, <1>2, <1>3, <1>4, <1>6 DEF HttpType
<1>7. CASE ReadInChunkMode(v_head')
  <2>1. /\ rpc' = "line" /\ i' = 0 /\ line' = <<>> /\ iChunckLength' = 0
        /\ v_body' = <<>> /\ chunckData' = <<>>
        /\ UNCHANGED <<i_content_length, ret, got>>
    BY <1>7 DEF ReadInChunkMode
  <2> QED
    BY <1>1, <1>2, <1>3, <1>4, <2>1, Constants, EmptyBytes DEF HttpType
<1>8. CASE ReadInLengthMode(v_head')
  <2> DEFINE S == Found(v_head', "length")
             n == v_head'[Min(S)][2]
  <2>1. /\ S # {}
        /\ i_content_length' = n /\ v_body' = <<>>
        /\ n = 0 => rpc' = "idle" /\ ret' = "SMOOTH" /\ got' = Append(got, <<>>)
        /\ n # 0 => rpc' = "length" /\ UNCHANGED <<ret, got>>
        /\ UNCHANGED <<i, line, iChunckLength, chunckData>>
    BY <1>8 DEF ReadInLengthMode, Return
  <2>2. S \subseteq 1..Len(v_head') /\ S \subseteq Nat
    BY <1>3 DEF Found
  <2>3. Min(S) \in 1..Len(v_head')
    <3> HIDE DEF S
    <3> QED
      BY <2>1, <2>2, MinIn
  <2>4. v_head'[Min(S)] \in Byte
    BY <1>3, <2>3, ElementOfSeq
  <2>5. n \in Nat
    BY <2>4 DEF Byte
  <2> HIDE DEF n
  <2>6. CASE n = 0
    <3>1. got' \in Seq(Seq(Byte))
      BY <1>1, <2>1, <2>6, EmptyBytes, Appended, ZenonT(60)
    <3> QED
      BY <1>1, <1>2, <1>3, <1>4, <2>1, <2>5, <2>6, <3>1, EmptyBytes DEF HttpType
  <2>7. CASE n # 0
    BY <1>1, <1>2, <1>3, <1>4, <2>1, <2>5, <2>7, EmptyBytes DEF HttpType
  <2> QED
    BY <2>6, <2>7
<1>9. CASE ModeError(v_head')
  BY <1>6, <1>9 DEF ModeError, Return
<1>10. \/ HeadTurn
       \/ /\ rpc' = "closed" /\ ret' = "PROTOCOL"
          /\ UNCHANGED <<i, v_body, i_content_length, line, iChunckLength, chunckData, got>>
       \/ ReadInLengthMode(v_head') \/ ReadInChunkMode(v_head') \/ ModeError(v_head')
  BY DEF ReadHead, Return
<1> QED
  BY <1>5, <1>6, <1>7, <1>8, <1>9, <1>10

(* ... so by all.                                                            *)
LEMMA TypeStep ==
  ASSUME HttpType, [Next]_vars
  PROVE  HttpType'
<1>1. CASE UNCHANGED vars
  BY <1>1 DEF HttpType, vars, conn, call, history
<1>2. CASE Send
  BY <1>2, TypeSend
<1>3. CASE PeerCloses
  BY <1>3, TypePeerCloses
<1>4. CASE Reset
  BY <1>4, TypeReset
<1>5. CASE Read
  BY <1>5, TypeRead
<1>6. CASE SelectTimeout \/ SelectError \/ ReadError \/ ReadZero
  BY <1>6, TypeEnd
<1>7. CASE ReadHead
  BY <1>7, TypeReadHead
<1>8. CASE ReadLength
  BY <1>8, TypeReadLength
<1>9. CASE ReadLine
  BY <1>9, TypeReadLine
<1>10. CASE ReadChunk
  BY <1>10, TypeReadChunk
<1>11. CASE Again
  BY <1>11, TypeAgain
<1> QED
  BY <1>1, <1>2, <1>3, <1>4, <1>5, <1>6, <1>7, <1>8, <1>9, <1>10, <1>11
  DEF Next, ReaderStep, ReadData
-----------------------------------------------------------------------------
(***************************************************************************)
(* Heads                                                                     *)
(***************************************************************************)

(* A reader of a head begins q bytes behind its start: at most with the line *)
(* break of the last chunk of the message before, the g-th.                 *)
Begins(g, q) == q \in -2..0 /\ (q < 0 => g > 0 /\ Messages[g].mode = "chunked")

(* The byte at offset n of its frame, or of the line break in front of it.  *)
Opening(g, n) == IF n <= 0 THEN CrLf[n + 2] ELSE HeadOf(Messages[g + 1])[n]

(* The bytes h are the last ones of these, up to the n-th.                  *)
Opens(h, g, n) ==
  /\ Begins(g, n - Len(h))
  /\ n >= 1 => g + 1 \in 1..Len(Messages)
  /\ \A j \in 1..Len(h) : h[j] = Opening(g, (n - Len(h)) + j)

(* A frame begins with its head.                                             *)
LEMMA FrameHead ==
  ASSUME NEW m \in HttpMessage
  PROVE  5 <= Len(Frame(m)) /\ \A j \in 1..5 : Frame(m)[j] = HeadOf(m)[j]
<1>1. Len(HeadOf(m)) = 5
  BY HeadParts
<1>2. m.mode \in {"length", "none", "chunked"}
  BY DataAreBytes DEF Mode
<1>3. m.mode = "chunked" => InChunks(m) \in Seq(Byte)
  BY Layout
<1>4. \E t : Joins(Frame(m), HeadOf(m), t)
  BY <1>2, <1>3, FrameParts
<1>5. PICK t : Joins(Frame(m), HeadOf(m), t)
  BY <1>4
<1>6. /\ Len(Frame(m)) = 5 + Len(t) /\ Len(t) \in Nat
      /\ \A x \in 1..5 : Frame(m)[x] = HeadOf(m)[x]
  BY <1>1, <1>5 DEF Joins
<1>7. 5 <= Len(Frame(m))
  BY <1>6
<1> QED
  BY <1>6, <1>7

(* What the reader of a head finds next.                                    *)
LEMMA OpeningAhead ==
  ASSUME NEW at \in [Int -> Int], NEW w \in Seq(Byte), NEW s \in 0..Len(Messages),
         NEW g \in 0..s, NEW pr, NEW pp, Stream(at, w, s, g, pr, pp),
         NEW q \in Int, at[g + 1] = - q, q < 0 => Begins(g, q), q <= 4, Len(w) >= 1
  PROVE  w[1] = Opening(g, q + 1) /\ (q + 1 >= 1 => g + 1 \in 1..Len(Messages))
<1>1. Len(Messages) \in Nat /\ Len(w) \in Nat
  BY Constants
<1>2. s \in Nat /\ g \in Nat
  BY <1>1
<1>3. CASE q >= 0
  <2> DEFINE m == Messages[g + 1]
  <2>1. q \in Nat /\ 1 \in 1..Len(w) /\ 1 \in 1..1
    BY <1>1, <1>3
  <2>2. g + 1 \in 1..Len(Messages) /\ (q + 1 <= Len(Frame(m)) => w[1] = Frame(m)[q + 1])
    BY <2>1, Ahead, ZenonT(60)
  <2>3. m \in HttpMessage
    BY <2>2, MessagesAre
  <2> HIDE DEF m
  <2>4. Len(Frame(m)) \in Nat /\ 5 <= Len(Frame(m))
    BY <2>3, FrameHead, FrameType
  <2>5. q + 1 \in 1..5 /\ ~ (q + 1 <= 0)
    BY <2>1
  <2>6. q + 1 <= Len(Frame(m))
    <3> DEFINE l == Len(Frame(m))
    <3>1. l \in Nat /\ 5 <= l
      BY <2>4
    <3> HIDE DEF l
    <3>2. q + 1 <= l
      BY <3>1
    <3> QED
      BY <3>2 DEF l
  <2>7. \A j \in 1..5 : Frame(m)[j] = HeadOf(m)[j]
    BY <2>3, FrameHead
  <2> QED
    BY <2>2, <2>4, <2>5, <2>6, <2>7 DEF Opening, m
<1>4. CASE q < 0
  <2> DEFINE p == at[g + 1]
  <2>0. p = 0 - q
    OBVIOUS
  <2> HIDE DEF p
  <2>1. q = -2 \/ q = -1
    BY <1>4 DEF Begins
  <2>2. g > 0 /\ Messages[g].mode = "chunked"
    BY <1>4 DEF Begins
  <2>3. g \in 1..s
    BY <1>2, <2>2
  <2>4. p \in {1, 2}
    BY <2>0, <2>1
  <2>5. w[1] = IF p = 2 THEN Cr ELSE Lf
    BY <2>2, <2>3, <2>4, BreakAhead DEF p
  <2>6. CASE q = -2
    <3>3. q = 0 - 2
      BY <2>6
    <3>4. p = 2
      BY <2>0, <3>3
    <3>1. q + 1 <= 0 /\ (q + 1) + 2 = 1 /\ ~ (q + 1 >= 1)
      BY <3>3
    <3>2. Opening(g, q + 1) = CrLf[1]
      BY <3>1 DEF Opening
    <3> QED
      BY <2>5, <3>1, <3>2, <3>4, BreakParts
  <2>7. CASE q = -1
    <3>1. q + 1 <= 0 /\ (q + 1) + 2 = 2 /\ p # 2 /\ ~ (q + 1 >= 1)
      BY <2>0, <2>7
    <3>2. Opening(g, q + 1) = CrLf[2]
      BY <3>1 DEF Opening
    <3> QED
      BY <2>5, <3>1, <3>2, BreakParts
  <2> QED
    BY <2>1, <2>6, <2>7
<1> QED
  BY <1>3, <1>4

(* A head has ended exactly if its five bytes are there: no line break in    *)
(* front of it and no part of it looks like its end.                        *)
LEMMA HeadEnds ==
  ASSUME NEW g \in Nat, NEW h \in Seq(Byte), NEW n \in Int, Opens(h, g, n), n <= 5
  PROVE  IsSuffix(CrLf \o CrLf, h) <=> n = 5
<1> DEFINE t == CrLf \o CrLf
           l == Len(h)
<1>1. t \in Seq(Byte) /\ Len(t) = 4 /\ t[1] = Cr /\ t[2] = Lf /\ t[3] = Cr /\ t[4] = Lf
  BY BreakParts
<1>2. IsSuffix(t, h) <=> /\ Len(t) <= l
                         /\ \A j \in 1..Len(t) : h[l - Len(t) + j] = t[j]
  BY <1>1, EndsWith
<1> HIDE DEF t
<1>3. IsSuffix(t, h) <=> 4 <= l /\ \A j \in 1..4 : h[(l - 4) + j] = t[j]
  BY <1>1, <1>2
<1>4. l \in Nat
  OBVIOUS
<1>5. -2 <= n - l /\ n - l <= 0 /\ (n >= 1 => g + 1 \in 1..Len(Messages))
  BY <1>4 DEF Opens, Begins
<1>6. ASSUME NEW j \in 1..4, 4 <= l PROVE h[(l - 4) + j] = Opening(g, (n - 4) + j)
  <2>1. (l - 4) + j \in 1..l /\ (n - l) + ((l - 4) + j) = (n - 4) + j
    BY <1>4, <1>6
  <2>2. h[(l - 4) + j] = Opening(g, (n - l) + ((l - 4) + j))
    BY <2>1 DEF Opens
  <2> QED
    BY <2>1, <2>2
<1> HIDE DEF l
<1>7. ASSUME n = 5 PROVE IsSuffix(t, h)
  <2> DEFINE m == Messages[g + 1]
  <2>1. g + 1 \in 1..Len(Messages) /\ 4 <= l
    BY <1>4, <1>5, <1>7
  <2>2. m \in HttpMessage
    BY <2>1, MessagesAre
  <2> HIDE DEF m
  <2>3. HeadOf(m)[2] = Cr /\ HeadOf(m)[3] = Lf /\ HeadOf(m)[4] = Cr /\ HeadOf(m)[5] = Lf
    BY <2>2, HeadParts
  <2>4. ASSUME NEW j \in 1..4 PROVE Opening(g, (n - 4) + j) = HeadOf(m)[1 + j]
    <3>1. (n - 4) + j = 1 + j /\ ~ (1 + j <= 0)
      BY <1>7
    <3> QED
      BY <3>1 DEF Opening, m
  <2>5. ASSUME NEW j \in 1..4 PROVE HeadOf(m)[1 + j] = t[j]
    <3>1. CASE j = 1
      BY <1>1, <2>3, <3>1
    <3>2. CASE j = 2
      BY <1>1, <2>3, <3>2
    <3>3. CASE j = 3
      BY <1>1, <2>3, <3>3
    <3>4. CASE j = 4
      BY <1>1, <2>3, <3>4
    <3> QED
      BY <3>1, <3>2, <3>3, <3>4
  <2> QED
    BY <1>3, <1>6, <2>1, <2>4, <2>5
<1>8. ASSUME IsSuffix(t, h), n # 5 PROVE FALSE
  <2> DEFINE m == Messages[g + 1]
             j == 5 - n
  <2>1. 4 <= l
    BY <1>3, <1>8
  <2>2. j \in 1..4 /\ (n - 4) + j = 1 /\ n >= 1
    BY <1>4, <1>5, <1>8, <2>1
  <2>3. m \in HttpMessage
    BY <1>5, <2>2, MessagesAre
  <2>4. h[(l - 4) + j] = t[j] /\ h[(l - 4) + j] = Opening(g, 1)
    BY <1>3, <1>6, <1>8, <2>1, <2>2
  <2> HIDE DEF j
  <2>5. Opening(g, 1) = HeadOf(m)[1]
    BY DEF Opening
  <2>6. t[j] \in {Cr, Lf}
    <3>1. j = 1 \/ j = 2 \/ j = 3 \/ j = 4
      BY <2>2
    <3> QED
      BY <1>1, <3>1
  <2> HIDE DEF m
  <2> QED
    BY <2>3, <2>4, <2>5, <2>6, HeadParts
<1> QED
  BY <1>7, <1>8 DEF t

(* What a complete head says of the body.                                   *)
LEMMA HeadSays ==
  ASSUME NEW g \in Nat, NEW h \in Seq(Byte), Opens(h, g, 5), NEW kind \in Mode
  PROVE  /\ g + 1 \in 1..Len(Messages)
         /\ Messages[g + 1].mode # kind => Found(h, kind) = {}
         /\ Messages[g + 1].mode = kind =>
              Found(h, kind) # {} /\ h[Min(Found(h, kind))] = HeadOf(Messages[g + 1])[1]
<1> DEFINE m == Messages[g + 1]
           l == Len(h)
           b == l - 5
           S == Found(h, kind)
<1>1. l \in Nat /\ DOMAIN h = 1..l
  OBVIOUS
<1>2. g + 1 \in 1..Len(Messages) /\ 5 - l \in -2..0 /\ \A j \in 1..l : h[j] = Opening(g, (5 - l) + j)
  BY DEF Opens, Begins
<1>3. b \in 0..2
  BY <1>1, <1>2, SMTT(30)
<1>4. m \in HttpMessage
  BY <1>2, MessagesAre
<1>5. kind # "cr" /\ kind # "lf"
  BY DEF Mode
<1> HIDE DEF m
<1>6. /\ HeadOf(m)[1][1] = m.mode
      /\ HeadOf(m)[2] = Cr /\ HeadOf(m)[3] = Lf /\ HeadOf(m)[4] = Cr /\ HeadOf(m)[5] = Lf
  BY <1>4, HeadParts
<1>7. Cr[1] = "cr" /\ Lf[1] = "lf"
  BY DEF Cr, Lf
<1>8. CrLf[1] = Cr /\ CrLf[2] = Lf
  BY BreakParts
<1> HIDE DEF l, b
<1>9. ASSUME NEW j \in 1..l
      PROVE  IF j = b + 1 THEN h[j] = HeadOf(m)[1] ELSE h[j] \in {Cr, Lf}
  <2> DEFINE n == j - b
  <2>1. (5 - l) + j = n /\ j \in Int
    BY <1>1 DEF b
  <2>2. h[j] = Opening(g, n)
    BY <1>2, <2>1
  <2>3. n \in Int /\ -1 <= n /\ n <= 5 /\ (n = 1 <=> j = b + 1)
    BY <1>1, <1>3, <2>1 DEF b
  <2> HIDE DEF n
  <2>4. CASE n <= 0
    <3>1. n + 2 = 1 \/ n + 2 = 2
      BY <2>3, <2>4
    <3>2. Opening(g, n) = CrLf[n + 2]
      BY <2>4 DEF Opening
    <3>3. n # 1
      BY <2>3, <2>4
    <3> QED
      BY <1>8, <2>2, <2>3, <3>1, <3>2, <3>3
  <2>5. CASE ~ (n <= 0)
    <3>1. n = 1 \/ n = 2 \/ n = 3 \/ n = 4 \/ n = 5
      BY <2>3, <2>5
    <3>2. Opening(g, n) = HeadOf(m)[n]
      BY <2>5 DEF Opening, m
    <3>3. CASE n = 1
      BY <2>2, <2>3, <3>2, <3>3
    <3>4. CASE n # 1
      <4>1. HeadOf(m)[n] \in {Cr, Lf}
        BY <1>6, <3>1, <3>4
      <4> QED
        BY <2>2, <2>3, <3>2, <3>4, <4>1
    <3> QED
      BY <3>3, <3>4
  <2> QED
    BY <2>4, <2>5
<1>10. b + 1 \in 1..l
  BY <1>1, <1>3 DEF b
<1>11. ASSUME m.mode # kind PROVE S = {}
  <2>1. ASSUME NEW j \in 1..l PROVE h[j][1] # kind
    BY <1>5, <1>6, <1>7, <1>9, <1>11
  <2> QED
    BY <1>1, <2>1 DEF Found
<1>12. ASSUME m.mode = kind PROVE S # {} /\ h[Min(S)] = HeadOf(m)[1]
  <2>1. b + 1 \in S
    BY <1>1, <1>6, <1>9, <1>10, <1>12 DEF Found
  <2>2. S \subseteq 1..l
    BY <1>1 DEF Found
  <2>3. S \subseteq Nat
    BY <2>2
  <2>4. Min(S) \in S
    <3> HIDE DEF S
    <3> QED
      BY <2>1, <2>3, MinIn
  <2>5. Min(S) \in 1..l /\ h[Min(S)][1] = kind
    BY <2>2, <2>4 DEF Found
  <2> DEFINE x == Min(S)
  <2> HIDE DEF x
  <2>6. x = b + 1
    BY <1>5, <1>7, <1>9, <2>5 DEF x
  <2>7. h[x] = HeadOf(m)[1]
    BY <1>9, <1>10, <2>6
  <2> QED
    BY <2>1, <2>7 DEF x
<1> QED
  BY <1>2, <1>11, <1>12 DEF m

(* The reader takes n bytes; it is in the same frame, or has got to the next. *)
LEMMA LiesOn ==
  ASSUME NEW w \in Seq(Byte), NEW s \in 0..Len(Messages), NEW g \in 0..s, NEW pr, NEW pp,
         NEW q \in Int, Lies(g, q, w, s, pr, pp), NEW n \in 1..Len(w)
  PROVE  /\ Lies(g, q + n, SubSeq(w, n + 1, Len(w)), s, pr, pp)
         /\ g < s => Lies(g + 1, (q + n) - Len(Frame(Messages[g + 1])),
                         SubSeq(w, n + 1, Len(w)), s, pr, pp)
<1>0. PICK at \in [Int -> Int] : Stream(at, w, s, g, pr, pp) /\ at[g + 1] = - q
  BY DEF Lies
<1> DEFINE b == [k \in Int |-> at[k] - n]
           v == SubSeq(w, n + 1, Len(w))
           l == Len(Frame(Messages[g + 1]))
<1>1. Len(Messages) \in Nat /\ Len(w) \in Nat
  BY Constants
<1>2. s \in Nat /\ g \in Nat /\ g + 1 \in Int /\ n \in Nat
  BY <1>1
<1>3. v \in Seq(Byte)
  BY Taken
<1>4. Stream(b, v, s, g, pr, pp)
  BY <1>0, Shift
<1>5. b \in [Int -> Int] /\ b[g + 1] = at[g + 1] - n
  <2>1. \A k \in Int : at[k] - n \in Int
    BY <1>2
  <2>2. b \in [Int -> Int]
    BY <2>1
  <2>3. b[g + 1] = at[g + 1] - n
    BY <1>2
  <2> QED
    BY <2>2, <2>3
<1> HIDE DEF b, v
<1>6. b[g + 1] = - (q + n)
  <2>1. at[g + 1] = 0 - q
    BY <1>0
  <2>2. b[g + 1] = (0 - q) - n
    BY <1>5, <2>1
  <2> DEFINE x == b[g + 1]
  <2> HIDE DEF x
  <2>3. x = (0 - q) - n => x = - (q + n)
    BY <1>2
  <2> QED
    BY <2>2, <2>3 DEF x
<1>7. ASSUME g < s PROVE Stream(b, v, s, g + 1, pr, pp) /\ b[(g + 1) + 1] = - ((q + n) - l)
  <2>1. Stream(b, v, s, g + 1, pr, pp)
    BY <1>3, <1>4, <1>5, <1>7, Returned
  <2>2. b[(g + 1) + 1] = b[g + 1] + l
    BY <1>3, <1>4, <1>5, <1>7, Whole
  <2>3. l \in Nat
    <3>1. g + 1 \in 1..Len(Messages)
      BY <1>1, <1>2, <1>7
    <3> QED
      BY <3>1, MessagesAre, FrameType
  <2> HIDE DEF l
  <2> DEFINE x == b[(g + 1) + 1]
             y == b[g + 1]
             z == q + n
  <2>4. x = y + l /\ y = 0 - z /\ z \in Int
    BY <1>2, <1>6, <2>2
  <2> HIDE DEF x, y, z
  <2>5. x = 0 - (z - l)
    BY <2>3, <2>4
  <2>6. x = - (z - l)
    BY <2>3, <2>4, <2>5
  <2> QED
    BY <2>1, <2>6 DEF x, z
<1>8. b \in [Int -> Int]
  BY <1>5
<1> HIDE DEF l
<1>9. Lies(g, q + n, v, s, pr, pp)
  BY <1>4, <1>6, <1>8 DEF Lies
<1>10. ASSUME g < s PROVE Lies(g + 1, (q + n) - l, v, s, pr, pp)
  BY <1>7, <1>8, <1>10 DEF Lies
<1> QED
  BY <1>9, <1>10 DEF v, l

(* Every chunk, the empty one too, ends before its frame does.              *)
LEMMA ChunkFits ==
  ASSUME NEW m \in HttpMessage, m.mode = "chunked", NEW c \in 1..(Len(m.chunks) + 1)
  PROVE  /\ Pos(m)[c] \in Nat /\ 5 <= Pos(m)[c]
         /\ Len(ChunkAt(m, c)) \in Nat
         /\ Pos(m)[c] + 5 + Len(ChunkAt(m, c)) <= Len(Frame(m))
<1> DEFINE N == Len(m.chunks)
           P == Pos(m)
           L == Len(Frame(m))
<1>1. N \in Nat /\ \A k \in 1..N : Len(m.chunks[k]) \in Nat
  BY DataAreBytes
<1>2. Laid(m, P, Cat(m))
  BY Layout
<1> HIDE DEF P
<1>3. /\ \A k \in 1..(N + 1) : P[k] \in Nat
      /\ P[1] = 5 /\ L = P[N + 1] + 5
      /\ \A k \in 1..N : P[k + 1] = P[k] + 5 + Len(m.chunks[k])
  BY <1>2 DEF Laid
<1> HIDE DEF L
<1> DEFINE U == {n \in Nat : n <= N => 5 <= P[n + 1]}
           D == {n \in Nat : n <= N => P[(N + 1) - n] + 5 <= L}
<1>4. ASSUME NEW k \in 1..N PROVE P[k] + 5 <= P[k + 1] /\ P[k] \in Nat /\ P[k + 1] \in Nat
  <2>1. k \in 1..(N + 1) /\ k + 1 \in 1..(N + 1)
    BY <1>1
  <2> DEFINE x == P[k]
             y == P[k + 1]
             z == Len(m.chunks[k])
  <2>2. x \in Nat /\ y \in Nat /\ z \in Nat /\ y = x + 5 + z
    BY <1>1, <1>3, <2>1
  <2> HIDE DEF x, y, z
  <2>3. x + 5 <= y
    BY <2>2
  <2> QED
    BY <2>2, <2>3 DEF x, y
<1>5. 0 \in U
  BY <1>3
<1>6. ASSUME NEW n \in Nat, n \in U PROVE n + 1 \in U
  <2> SUFFICES ASSUME n + 1 <= N PROVE 5 <= P[(n + 1) + 1]
    OBVIOUS
  <2>1. n + 1 \in 1..N /\ n <= N
    BY <1>1
  <2>2. 5 <= P[n + 1] /\ P[n + 1] + 5 <= P[(n + 1) + 1] /\ P[n + 1] \in Nat /\ P[(n + 1) + 1] \in Nat
    BY <1>4, <1>6, <2>1
  <2> QED
    BY <2>2
<1>7. 0 \in D
  <2>1. (N + 1) - 0 = N + 1 /\ N + 1 \in 1..(N + 1)
    BY <1>1
  <2>2. P[N + 1] \in Nat /\ L = P[N + 1] + 5
    BY <1>3, <2>1
  <2>3. P[N + 1] + 5 <= L
    BY <2>2
  <2> QED
    BY <2>1, <2>3
<1>8. ASSUME NEW n \in Nat, n \in D PROVE n + 1 \in D
  <2> SUFFICES ASSUME n + 1 <= N PROVE P[(N + 1) - (n + 1)] + 5 <= L
    OBVIOUS
  <2> DEFINE k == (N + 1) - (n + 1)
  <2>1. k \in 1..N /\ n <= N /\ k + 1 = (N + 1) - n
    BY <1>1
  <2>2. P[k + 1] + 5 <= L
    BY <1>8, <2>1
  <2> HIDE DEF k
  <2>3. P[k] + 5 <= P[k + 1] /\ P[k] \in Nat /\ P[k + 1] \in Nat
    BY <1>4, <2>1
  <2>4. L \in Nat
    BY FrameType DEF L
  <2>5. P[k] + 5 <= L
    BY <2>2, <2>3, <2>4
  <2> QED
    BY <2>5 DEF k
<1>9. Nat \subseteq U /\ Nat \subseteq D
  <2> HIDE DEF U, D
  <2> QED
    BY <1>5, <1>6, <1>7, <1>8, Induction
<1>10. 5 <= P[c] /\ P[c] \in Nat
  <2>1. c - 1 \in Nat /\ c - 1 <= N /\ (c - 1) + 1 = c
    BY <1>1
  <2>2. c - 1 \in U
    BY <1>9, <2>1
  <2> QED
    BY <1>3, <2>1, <2>2
<1>11. ASSUME NEW k \in 1..(N + 1) PROVE P[k] + 5 <= L
  <2> DEFINE n == (N + 1) - k
  <2>1. n \in Nat /\ n <= N /\ (N + 1) - n = k
    BY <1>1
  <2>2. n \in D
    BY <1>9, <2>1
  <2> QED
    BY <2>1, <2>2
<1>12. CASE c <= N
  <2> DEFINE x == P[c]
             y == P[c + 1]
             z == Len(m.chunks[c])
  <2>1. c \in 1..N /\ c + 1 \in 1..(N + 1) /\ ChunkAt(m, c) = m.chunks[c]
    BY <1>1, <1>12 DEF ChunkAt
  <2>2. x \in Nat /\ y \in Nat /\ z \in Nat /\ y = x + 5 + z /\ y + 5 <= L
    BY <1>1, <1>3, <1>11, <2>1
  <2>3. L \in Nat
    BY FrameType DEF L
  <2> HIDE DEF x, y, z
  <2>4. x + 5 + z <= L
    BY <2>2, <2>3
  <2> QED
    BY <1>10, <2>1, <2>2, <2>4 DEF P, L, x, z
<1>13. CASE ~ (c <= N)
  <2>1. ChunkAt(m, c) = <<>>
    BY <1>13 DEF ChunkAt
  <2>2. Len(ChunkAt(m, c)) = 0
    BY <2>1, EmptyBytes
  <2>3. P[c] + 5 <= L /\ P[c] + 5 + 0 = P[c] + 5
    BY <1>10, <1>11
  <2> QED
    BY <1>10, <2>2, <2>3 DEF P, L
<1> QED
  BY <1>12, <1>13
-----------------------------------------------------------------------------
(***************************************************************************)
(* Size lines, and the invariant                                             *)
(***************************************************************************)

(* The reader of the body of the message after the g-th has taken q bytes of *)
(* its frame, and these of its body.                                        *)
OfLength(g, q, body, n) ==
  LET m == Messages[g + 1] IN
  /\ g + 1 \in 1..Len(Messages) /\ m.mode = "length"
  /\ n = Len(Body(m)) /\ q = 5 + Len(body)
  /\ \A j \in 1..Len(body) : body[j] = Body(m)[j]

(* Of a size line, the line break in front of it included, x bytes are taken: *)
(* a line break is dropped.                                                 *)
LineTo(size, x) ==
  IF x = 1 THEN <<Cr>>
  ELSE IF x = 3 THEN << <<"size", size>> >>
  ELSE IF x = 4 THEN << <<"size", size>>, Cr >> ELSE <<>>

(* The next byte.                                                            *)
LineByte(size, x) == IF x = 2 THEN <<"size", size>> ELSE IF x \in {0, 3} THEN Cr ELSE Lf

(* The reader is in the size line behind the c-th chunk; without a timeout a *)
(* failed read may have used up any number of turns.                         *)
OfLine(g, q, body, text, turn, tm) ==
  LET m == Messages[g + 1] IN
  /\ g + 1 \in 1..Len(Messages) /\ m.mode = "chunked"
  /\ \E c \in 0..Len(m.chunks), x \in 0..4 :
       /\ c = 0 => x >= 2
       /\ body = Cat(m)[c]
       /\ q = Pos(m)[c + 1] + x - 2
       /\ text = LineTo(Len(ChunkAt(m, c + 1)), x)
       /\ tm => turn = IF c = 0 THEN x - 2 ELSE x

(* It is in the data of a chunk.                                             *)
OfChunk(g, q, body, n, data) ==
  LET m == Messages[g + 1] IN
  /\ g + 1 \in 1..Len(Messages) /\ m.mode = "chunked"
  /\ \E c \in 1..Len(m.chunks) :
       /\ body = Cat(m)[c - 1]
       /\ n = Len(m.chunks[c])
       /\ q = Pos(m)[c] + 3 + Len(data)
       /\ \A j \in 1..Len(data) : data[j] = m.chunks[c][j]

(* The reader has taken q bytes of the frame of the message after the g-th: *)
(* where is it, and what does it know?                                      *)
Inside(g, q) ==
  /\ rpc = "idle" => Begins(g, q)
  /\ rpc = "head" => q <= 4 /\ Opens(v_head, g, q)
  /\ rpc = "length" => OfLength(g, q, v_body, i_content_length)
  /\ rpc = "line" => OfLine(g, q, v_body, line, i, timed)
  /\ rpc = "chunk" => OfChunk(g, q, v_body, iChunckLength, chunckData)

(* It knows where it is.                                                     *)
Placed(g) ==
  \E q \in Int : Lies(g, q, wire, sent, peer, pipelines) /\ Inside(g, q)

(* What holds of a reader that has not gone astray.                          *)
Steady ==
  /\ Len(got) <= sent
  /\ ~ pipelines => sent <= Len(got) + 1
  /\ \A k \in 1..Len(got) : got[k] = Body(Messages[k])
  /\ rpc = "closed" /\ ret = "CLOSE" => Len(got) = sent /\ peer = "closed"
  /\ rpc # "closed" /\ ~ broken => Placed(Len(got))

(* The inductive invariant.                                                  *)
HttpInv == HttpType /\ (~ Garbled => Steady)

(* A byte of a size line, or of the line break in front of it.              *)
LEMMA SizeLine ==
  ASSUME NEW m \in HttpMessage, m.mode = "chunked", NEW c \in 0..Len(m.chunks),
         NEW x \in 0..4, c = 0 => x >= 2
  PROVE  LET q == Pos(m)[c + 1] + x - 2 IN
         /\ q \in Nat /\ q + 1 <= Len(Frame(m))
         /\ Frame(m)[q + 1] = LineByte(Len(ChunkAt(m, c + 1)), x)
<1> DEFINE N == Len(m.chunks)
           d == ChunkAt(m, c + 1)
           p == Pos(m)[c + 1]
           L == Len(Frame(m))
           q == Pos(m)[c + 1] + x - 2
<1>1. N \in Nat /\ \A k \in 1..N : m.chunks[k] \in Seq(Byte) /\ Len(m.chunks[k]) \in Nat
  BY DataAreBytes
<1>2. c + 1 \in 1..(N + 1)
  BY <1>1
<1>3. p \in Nat /\ 5 <= p /\ Len(d) \in Nat /\ p + 5 + Len(d) <= L
  BY <1>2, ChunkFits
<1>4. d \in Seq(Byte)
  BY <1>1, <1>2, EmptyBytes DEF ChunkAt
<1>5. \A j \in 1..(5 + Len(d)) : Frame(m)[p + j] = Chunk(d)[j]
  BY <1>2, Layout DEF Laid
<1>6. Chunk(d)[1] = <<"size", Len(d)>> /\ Chunk(d)[2] = Cr /\ Chunk(d)[3] = Lf
  BY <1>4, ChunkParts
<1>7. L \in Nat
  BY FrameType
<1>8. q = p + x - 2
  OBVIOUS
<1> HIDE DEF d, p, L, q
<1>9. q \in Nat /\ q + 1 <= L
  BY <1>3, <1>7, <1>8
<1>10. CASE x >= 2
  <2>1. x = 2 \/ x = 3 \/ x = 4
    BY <1>10
  <2> DEFINE j == x - 1
  <2>2. j \in 1..(5 + Len(d)) /\ q + 1 = p + j
    BY <1>3, <1>8, <2>1
  <2>3. Frame(m)[q + 1] = Chunk(d)[j]
    BY <1>5, <2>2
  <2>4. CASE x = 2
    <3>1. j = 1
      BY <2>4
    <3> QED
      BY <1>6, <1>9, <2>3, <2>4, <3>1 DEF d, L, q, LineByte
  <2>5. CASE x = 3
    <3>1. j = 2
      BY <2>5
    <3> QED
      BY <1>6, <1>9, <2>3, <2>5, <3>1 DEF L, q, LineByte
  <2>6. CASE x = 4
    <3>1. j = 3
      BY <2>6
    <3> QED
      BY <1>6, <1>9, <2>3, <2>6, <3>1 DEF L, q, LineByte
  <2> QED
    BY <1>9, <2>1, <2>4, <2>5, <2>6 DEF L, d, q, LineByte
<1>11. CASE ~ (x >= 2)
  <2>1. (x = 0 \/ x = 1) /\ c \in 1..N /\ c \in 1..(N + 1)
    BY <1>1, <1>11
  <2> DEFINE e == m.chunks[c]
             o == Pos(m)[c]
             l == Len(e)
  <2>2. ChunkAt(m, c) = e
    BY <1>1, <2>1 DEF ChunkAt
  <2>3. p = o + 5 + l /\ o \in Nat /\ l \in Nat
    BY <1>1, <2>1, Layout, ChunkFits DEF Laid, p
  <2>4. \A j \in 1..(5 + l) : Frame(m)[o + j] = Chunk(e)[j]
    BY <2>1, <2>2, Layout DEF Laid
  <2>5. Chunk(e)[4 + l] = Cr /\ Chunk(e)[5 + l] = Lf
    BY <1>1, <2>1, ChunkParts
  <2> HIDE DEF e, o, l
  <2>6. CASE x = 0
    <3>1. 4 + l \in 1..(5 + l) /\ q + 1 = o + (4 + l)
      BY <1>8, <2>3, <2>6
    <3>2. Frame(m)[q + 1] = Cr
      BY <2>4, <2>5, <3>1
    <3> QED
      BY <1>9, <2>6, <3>2 DEF L, q, LineByte
  <2>7. CASE x = 1
    <3>1. 5 + l \in 1..(5 + l) /\ q + 1 = o + (5 + l)
      BY <1>8, <2>3, <2>7
    <3>2. Frame(m)[q + 1] = Lf
      BY <2>4, <2>5, <3>1
    <3> QED
      BY <1>9, <2>7, <3>2 DEF L, q, LineByte
  <2> QED
    BY <2>1, <2>6, <2>7
<1> QED
  BY <1>10, <1>11 DEF q

(* Lines of up to three bytes.                                              *)
LEMMA Texts ==
  ASSUME NEW a \in Byte, NEW b \in Byte, NEW c \in Byte
  PROVE  /\ <<a>> \in Seq(Byte) /\ Len(<<a>>) = 1 /\ <<a>>[1] = a
         /\ <<a, b>> \in Seq(Byte) /\ Len(<<a, b>>) = 2 /\ <<a, b>>[1] = a /\ <<a, b>>[2] = b
         /\ <<a, b, c>> \in Seq(Byte) /\ Len(<<a, b, c>>) = 3
         /\ <<a, b, c>>[1] = a /\ <<a, b, c>>[2] = b /\ <<a, b, c>>[3] = c
  OBVIOUS

(* Append() by its elements.                                                 *)
LEMMA AppendIs ==
  ASSUME NEW s \in Seq(Byte), NEW b \in Byte, NEW t \in Seq(Byte), Len(t) = Len(s) + 1,
         \A j \in 1..Len(s) : t[j] = s[j], t[Len(s) + 1] = b
  PROVE  Append(s, b) = t
<1> DEFINE u == Append(s, b)
<1>1. /\ u \in Seq(Byte) /\ Len(u) = Len(s) + 1 /\ Len(s) \in Nat
      /\ \A j \in 1..Len(s) : u[j] = s[j]
      /\ u[Len(s) + 1] = b
  BY OneMore
<1> HIDE DEF u
<1>2. ASSUME NEW j \in 1..Len(u) PROVE u[j] = t[j]
  <2>1. j \in 1..Len(s) \/ j = Len(s) + 1
    BY <1>1
  <2> QED
    BY <1>1, <2>1
<1>3. u = t
  BY <1>1, <1>2, SeqEqual
<1> QED
  BY <1>3 DEF u

(* How they grow.                                                            *)
LEMMA TextsGrow ==
  ASSUME NEW a \in Byte, NEW b \in Byte, NEW c \in Byte
  PROVE  /\ Append(<<>>, a) = <<a>> /\ Append(<<a>>, b) = <<a, b>>
         /\ Append(<<a, b>>, c) = <<a, b, c>>
<1> DEFINE r == <<a>>
           s == <<a, b>>
           t == <<a, b, c>>
<1>1. /\ r \in Seq(Byte) /\ Len(r) = 1 /\ r[1] = a
      /\ s \in Seq(Byte) /\ Len(s) = 2 /\ s[1] = a /\ s[2] = b
      /\ t \in Seq(Byte) /\ Len(t) = 3 /\ t[1] = a /\ t[2] = b /\ t[3] = c
  BY Texts
<1>2. Append(<<>>, a) = r
  OBVIOUS
<1> HIDE DEF r, s, t
<1>3. Append(r, b) = s
  <2>1. Len(s) = Len(r) + 1 /\ Len(r) + 1 = 2
    BY <1>1
  <2>2. \A j \in 1..Len(r) : s[j] = r[j]
    BY <1>1
  <2>3. s[Len(r) + 1] = b
    BY <1>1, <2>1
  <2> QED
    BY <1>1, <2>1, <2>2, <2>3, AppendIs
<1>4. Append(s, c) = t
  <2>1. Len(t) = Len(s) + 1 /\ Len(s) + 1 = 3
    BY <1>1
  <2>2. \A j \in 1..Len(s) : t[j] = s[j]
    <3>1. \A j \in 1..2 : j = 1 \/ j = 2
      OBVIOUS
    <3> QED
      BY <1>1, <3>1
  <2>3. t[Len(s) + 1] = c
    BY <1>1, <2>1
  <2> QED
    BY <1>1, <2>1, <2>2, <2>3, AppendIs
<1> QED
  BY <1>2, <1>3, <1>4 DEF r, s, t

(* What the byte makes of the line.                                         *)
LEMMA LineNext ==
  ASSUME NEW size \in Nat, NEW x \in 0..4, NEW b,
         b = LineByte(size, x),
         NEW text, text = WithoutBreak(Append(LineTo(size, x), b))
  PROVE  /\ x < 4 => text = LineTo(size, x + 1) /\ ~ IsSuffix(CrLf, text)
         /\ x = 4 => IsSuffix(CrLf, text) /\ Number(text) = size
<1> DEFINE t == <<"size", size>>
           r1 == <<Cr>>
           r2 == <<t>>
           r3 == <<t, Cr>>
           r4 == <<t, Cr, Lf>>
<1>1. t \in Byte /\ t # Cr /\ t # Lf /\ t[1] = "size" /\ t[2] = size
  BY DEF Byte, Cr, Lf
<1>2. Cr \in Byte /\ Lf \in Byte /\ Cr # Lf
  BY BreakBytes
<1>3. CrLf \in Seq(Byte) /\ Len(CrLf) = 2 /\ CrLf[1] = Cr /\ CrLf[2] = Lf /\ CrLf = <<Cr, Lf>>
  BY BreakParts DEF CrLf
<1>4. x = 0 \/ x = 1 \/ x = 2 \/ x = 3 \/ x = 4
  OBVIOUS
<1>5. /\ x = 0 => LineTo(size, x) = <<>> /\ LineTo(size, x + 1) = r1 /\ b = Cr
      /\ x = 1 => LineTo(size, x) = r1 /\ LineTo(size, x + 1) = <<>> /\ b = Lf
      /\ x = 2 => LineTo(size, x) = <<>> /\ LineTo(size, x + 1) = r2 /\ b = t
      /\ x = 3 => LineTo(size, x) = r2 /\ LineTo(size, x + 1) = r3 /\ b = Cr
      /\ x = 4 => LineTo(size, x) = r3 /\ b = Lf
  BY DEF LineTo, LineByte
<1> HIDE DEF t
<1>6. /\ r1 \in Seq(Byte) /\ Len(r1) = 1
      /\ r2 \in Seq(Byte) /\ Len(r2) = 1
      /\ r3 \in Seq(Byte) /\ Len(r3) = 2 /\ r3[1] = t /\ r3[2] = Cr
      /\ r4 \in Seq(Byte) /\ Len(r4) = 3 /\ r4[1] = t /\ r4[2] = Cr /\ r4[3] = Lf
  BY <1>1, <1>2, Texts
<1>7. /\ Append(<<>>, Cr) = r1 /\ Append(r1, Lf) = CrLf /\ Append(<<>>, t) = r2
      /\ Append(r2, Cr) = r3 /\ Append(r3, Lf) = r4
  BY <1>1, <1>2, <1>3, TextsGrow
<1> HIDE DEF r1, r2, r3, r4
<1>8. r1 # CrLf /\ r2 # CrLf /\ r3 # CrLf /\ r4 # CrLf
  BY <1>1, <1>3, <1>6
<1>9. ASSUME NEW s \in Seq(Byte), Len(s) = 0 \/ Len(s) = 1 PROVE ~ IsSuffix(CrLf, s)
  <2> DEFINE l == Len(s)
  <2>1. IsSuffix(CrLf, s) => Len(CrLf) <= Len(s)
    BY <1>3, EndsWith
  <2>2. IsSuffix(CrLf, s) => 2 <= l
    BY <1>3, <2>1
  <2> HIDE DEF l
  <2>3. l = 0 \/ l = 1
    BY <1>9 DEF l
  <2> QED
    BY <2>2, <2>3
<1>10. CASE x = 0
  <2>1. text = r1
    BY <1>5, <1>7, <1>8, <1>10 DEF WithoutBreak
  <2> QED
    BY <1>5, <1>6, <1>9, <1>10, <2>1
<1>11. CASE x = 1
  <2>1. text = <<>>
    BY <1>5, <1>7, <1>11 DEF WithoutBreak
  <2>2. <<>> \in Seq(Byte) /\ Len(<<>>) = 0
    BY EmptyBytes
  <2>3. ~ IsSuffix(CrLf, <<>>)
    BY <1>9, <2>2
  <2> QED
    BY <1>5, <1>11, <2>1, <2>3
<1>12. CASE x = 2
  <2>1. text = r2
    BY <1>5, <1>7, <1>8, <1>12 DEF WithoutBreak
  <2> QED
    BY <1>5, <1>6, <1>9, <1>12, <2>1
<1>13. CASE x = 3
  <2>1. text = r3
    BY <1>5, <1>7, <1>8, <1>13 DEF WithoutBreak
  <2>2. IsSuffix(CrLf, r3) => r3[2] = CrLf[2]
    <3>1. 2 \in 1..Len(CrLf) /\ Len(r3) - Len(CrLf) + 2 = 2
      BY <1>3, <1>6
    <3>2. IsSuffix(CrLf, r3) => r3[Len(r3) - Len(CrLf) + 2] = CrLf[2]
      BY <1>3, <1>6, <3>1, EndsWith
    <3> QED
      BY <3>1, <3>2
  <2>3. ~ IsSuffix(CrLf, r3)
    BY <1>2, <1>3, <1>6, <2>2
  <2> QED
    BY <1>5, <1>13, <2>1, <2>3
<1>14. CASE x = 4
  <2>1. text = r4
    BY <1>5, <1>7, <1>8, <1>14 DEF WithoutBreak
  <2>2. ASSUME NEW j \in 1..Len(CrLf) PROVE r4[Len(r4) - Len(CrLf) + j] = CrLf[j]
    <3>1. (j = 1 \/ j = 2) /\ Len(r4) - Len(CrLf) + j = 1 + j
      BY <1>3, <1>6
    <3>2. r4[1 + j] = CrLf[j]
      BY <1>3, <1>6, <3>1
    <3> QED
      BY <3>1, <3>2
  <2>3. IsSuffix(CrLf, r4)
    <3>1. Len(CrLf) <= Len(r4)
      BY <1>3, <1>6
    <3> QED
      BY <1>3, <1>6, <2>2, <3>1, EndsWith
  <2>4. Number(r4) = size
    BY <1>1, <1>6 DEF Number
  <2> QED
    BY <1>14, <2>1, <2>3, <2>4
<1> QED
  BY <1>4, <1>10, <1>11, <1>12, <1>13, <1>14
-----------------------------------------------------------------------------
(***************************************************************************)
(* The reader's place in the stream                                          *)
(***************************************************************************)

(* What it finds.                                                           *)
LEMMA LiesAhead ==
  ASSUME NEW w \in Seq(Byte), NEW s \in 0..Len(Messages), NEW g \in 0..s, NEW pr, NEW pp,
         NEW q \in Nat, Lies(g, q, w, s, pr, pp), NEW n \in 1..Len(w)
  PROVE  /\ g + 1 \in 1..Len(Messages)
         /\ \A j \in 1..n : q + j <= Len(Frame(Messages[g + 1])) => w[j] = Frame(Messages[g + 1])[q + j]
         /\ q + n >= Needed(Messages[g + 1]) => g < s
<1>1. PICK at \in [Int -> Int] : Stream(at, w, s, g, pr, pp) /\ at[g + 1] = - q
  BY DEF Lies
<1> QED
  BY <1>1, Ahead

(* What the reader of a head finds next.                                     *)
LEMMA LiesOpen ==
  ASSUME NEW w \in Seq(Byte), NEW s \in 0..Len(Messages), NEW g \in 0..s, NEW pr, NEW pp,
         NEW q \in Int, Lies(g, q, w, s, pr, pp), q < 0 => Begins(g, q), q <= 4, Len(w) >= 1
  PROVE  w[1] = Opening(g, q + 1) /\ (q + 1 >= 1 => g + 1 \in 1..Len(Messages))
<1>1. PICK at \in [Int -> Int] : Stream(at, w, s, g, pr, pp) /\ at[g + 1] = - q
  BY DEF Lies
<1> QED
  BY <1>1, OpeningAhead

(* A message that was sent is there as far as the reader needs it.           *)
LEMMA LiesWhole ==
  ASSUME NEW w \in Seq(Byte), NEW s \in 0..Len(Messages), NEW g \in 0..s, NEW pr, NEW pp,
         NEW q \in Int, Lies(g, q, w, s, pr, pp), g < s
  PROVE  Needed(Messages[g + 1]) <= q + Len(w)
<1>1. PICK at \in [Int -> Int] : Stream(at, w, s, g, pr, pp) /\ at[g + 1] = - q
  BY DEF Lies
<1> DEFINE z == Needed(Messages[g + 1])
           l == Len(w)
           y == at[g + 1]
<1>2. y + z <= l
  BY <1>1, Whole
<1>6. l \in Nat /\ y = - q
  BY <1>1
<1>3. Len(Messages) \in Nat /\ g + 1 \in 1..Len(Messages)
  BY Constants
<1>4. z \in Nat
  BY <1>3, MessagesAre, FrameType
<1> HIDE DEF z, l, y
<1>5. z <= q + l
  BY <1>2, <1>4, <1>6
<1> QED
  BY <1>5 DEF z, l

(* A peer that waits has sent nothing behind it.                             *)
LEMMA LiesAlone ==
  ASSUME NEW w \in Seq(Byte), NEW s \in 0..Len(Messages), NEW g \in 0..s, NEW pr, NEW pp \in BOOLEAN,
         NEW q \in Int, Lies(g, q, w, s, pr, pp),
         ~ pp, s <= g + 1, g + 1 \in 1..Len(Messages)
  PROVE  q + Len(w) <= Len(Frame(Messages[g + 1]))
<1>1. PICK at \in [Int -> Int] : Stream(at, w, s, g, pr, pp) /\ at[g + 1] = - q
  BY DEF Lies
<1> DEFINE z == Len(Frame(Messages[g + 1]))
           l == Len(w)
           y == at[g + 1]
<1>2. ~ pp => (s <= g + 1 => l <= y + z)
  BY <1>1, Alone
<1>6. l <= y + z
  BY <1>2
<1>5. l \in Nat /\ y = - q
  BY <1>1
<1>3. z \in Nat
  BY MessagesAre, FrameType
<1> HIDE DEF z, l, y
<1>4. q + l <= z
  BY <1>3, <1>5, <1>6
<1> QED
  BY <1>4 DEF z, l

(* The peer writes, or closes.                                              *)
LEMMA LiesSent ==
  ASSUME NEW w \in Seq(Byte), NEW s \in 0..Len(Messages), NEW g \in 0..s, NEW pr, NEW pp,
         NEW q \in Int, Lies(g, q, w, s, "open", pp), s < Len(Messages),
         NEW v \in Seq(Byte), Needed(Messages[s + 1]) <= Len(v),
         Len(v) <= Len(Frame(Messages[s + 1])),
         \A j \in 1..Len(v) : v[j] = Frame(Messages[s + 1])[j],
         pr = "open" => Len(v) = Len(Frame(Messages[s + 1]))
  PROVE  Lies(g, q, w \o v, s + 1, pr, pp)
<1>1. PICK at \in [Int -> Int] : Stream(at, w, s, g, "open", pp) /\ at[g + 1] = - q
  BY DEF Lies
<1> DEFINE b == [at EXCEPT ![s + 2] = at[s + 1] + Len(Frame(Messages[s + 1]))]
<1>2. Stream(b, w \o v, s + 1, g, pr, pp)
  BY <1>1, Sent
<1>3. s \in Nat /\ g \in Nat /\ g + 1 # s + 2 /\ s + 1 \in Int /\ g + 1 \in Int
  BY Constants
<1>4. s + 1 \in 1..Len(Messages)
  BY <1>3, Constants
<1>5. Len(Frame(Messages[s + 1])) \in Nat
  BY <1>4, MessagesAre, FrameType
<1>6. at[s + 1] + Len(Frame(Messages[s + 1])) \in Int
  BY <1>3, <1>5
<1>7. b \in [Int -> Int] /\ b[g + 1] = at[g + 1]
  BY <1>3, <1>6
<1> HIDE DEF b
<1> QED
  BY <1>1, <1>2, <1>7 DEF Lies

(* The peer closes between two messages ...                                  *)
LEMMA LiesClosed ==
  ASSUME NEW w \in Seq(Byte), NEW s \in 0..Len(Messages), NEW g \in 0..s, NEW pp,
         NEW q \in Int, Lies(g, q, w, s, "open", pp)
  PROVE  Lies(g, q, w, s, "closed", pp)
BY Closed DEF Lies

(* ... or in one.                                                            *)
LEMMA LiesBroken ==
  ASSUME NEW w \in Seq(Byte), NEW s \in 0..Len(Messages), NEW g \in 0..s, NEW pp,
         NEW q \in Int, Lies(g, q, w, s, "open", pp), s < Len(Messages),
         pp \/ s = g,
         NEW v \in Seq(Byte), Len(v) < Needed(Messages[s + 1]),
         \A j \in 1..Len(v) : v[j] = Frame(Messages[s + 1])[j]
  PROVE  Lies(g, q, w \o v, s, "closed", pp)
BY BrokenOff DEF Lies

(* A reader that has gone astray stays so.                                  *)
LEMMA GarbledStays ==
  ASSUME [Next]_vars, Garbled
  PROVE  Garbled'
<1>1. UNCHANGED <<timed, pipelines>>
  BY DEF Next, vars, Send, PeerCloses, Reset, ReaderStep, ReadData, Read, ReadError, ReadZero,
         ReadHead, ReadLength, ReadLine, ReadChunk, SelectTimeout, SelectError, Again, Receives
<1>2. over => over'
  BY DEF Next, vars, Send, PeerCloses, Reset, ReaderStep, ReadData, Read, ReadError, ReadZero,
         ReadHead, ReadLength, ReadLine, ReadChunk, SelectTimeout, SelectError, Again,
         LineTurn, HeadTurn, history
<1>3. spent => spent'
  BY DEF Next, vars, Send, PeerCloses, Reset, ReaderStep, ReadData, Read, ReadError, ReadZero,
         ReadHead, ReadLength, ReadLine, ReadChunk, SelectTimeout, SelectError, Again,
         LineTurn, HeadTurn, history
<1>4. cut => cut'
  BY DEF Next, vars, Send, PeerCloses, Reset, ReaderStep, ReadData, Read, ReadError, ReadZero,
         ReadHead, ReadLength, ReadLine, ReadChunk, SelectTimeout, SelectError, Again,
         LineTurn, HeadTurn, history
<1> QED
  BY <1>1, <1>2, <1>3, <1>4 DEF Garbled

(* The numbers of the messages.                                             *)
LEMMA Counts ==
  ASSUME HttpType, Steady
  PROVE  /\ Len(got) \in Nat /\ Len(got) \in 0..sent /\ sent \in 0..Len(Messages)
         /\ sent \in Nat /\ Len(Messages) \in Nat /\ got \in Seq(Seq(Byte)) /\ wire \in Seq(Byte)
<1>1. got \in Seq(Seq(Byte)) /\ wire \in Seq(Byte) /\ sent \in 0..Len(Messages)
  BY DEF HttpType
<1>2. Len(got) \in Nat
  BY <1>1
<1>3. Len(got) <= sent
  BY DEF Steady
<1> QED
  BY <1>1, <1>2, <1>3, Constants

(* A reader that goes on knows where it is in the stream.                    *)
LEMMA Position ==
  ASSUME HttpType, Steady, rpc # "closed", ~ broken
  PROVE  \E q \in Int : /\ Lies(Len(got), q, wire, sent, peer, pipelines)
                        /\ Inside(Len(got), q)
BY DEF Steady, Placed

(* A step that returns no message.                                          *)
LEMMA StillSteady ==
  ASSUME HttpType, Steady, UNCHANGED <<got, sent, pipelines>>,
         rpc' = "closed" /\ ret' = "CLOSE" => Len(got) = sent /\ peer' = "closed",
         rpc' # "closed" /\ ~ broken' => Placed(Len(got))'
  PROVE  Steady'
BY DEF Steady

(* A step that returns one.                                                 *)
LEMMA NextSteady ==
  ASSUME HttpType, Steady, UNCHANGED <<sent, pipelines>>, NEW g, g = Len(got), g < sent,
         NEW b \in Seq(Byte), b = Body(Messages[g + 1]), got' = Append(got, b),
         rpc' = "idle", NEW q \in Int,
         Lies(g + 1, q, wire', sent', peer', pipelines'), Begins(g + 1, q)
  PROVE  Steady'
<1>1. g \in Nat /\ sent \in Nat /\ got \in Seq(Seq(Byte))
  BY Counts
<1>2. Len(got') = g + 1 /\ got'[g + 1] = b /\ \A j \in 1..g : got'[j] = got[j]
  BY <1>1, Appended
<1>3. \A k \in 1..g : got[k] = Body(Messages[k])
  BY DEF Steady
<1>4. ASSUME NEW k \in 1..Len(got') PROVE got'[k] = Body(Messages[k])
  <2>1. k \in 1..g \/ k = g + 1
    BY <1>1, <1>2
  <2> QED
    BY <1>2, <1>3, <2>1
<1>5. ~ pipelines => sent <= g + 1
  BY DEF Steady
<1>6. ~ pipelines' => sent' <= Len(got') + 1
  BY <1>1, <1>2, <1>5
<1>7. Inside(g + 1, q)'
  BY DEF Inside
<1>8. Placed(g + 1)'
  BY <1>7 DEF Placed
<1>9. Placed(Len(got))'
  BY <1>2, <1>8
<1>10. Len(got') <= sent'
  BY <1>1, <1>2
<1> QED
  BY <1>4, <1>6, <1>9, <1>10 DEF Steady
-----------------------------------------------------------------------------
(***************************************************************************)
(* The steps of the peer, and the ends of a call                             *)
(***************************************************************************)

(* The reader stays where it is.                                            *)
LEMMA InsideStays ==
  ASSUME NEW g, NEW q, Inside(g, q), UNCHANGED <<rpc, call, timed>>
  PROVE  Inside(g, q)'
BY DEF Inside, call

(* Send leaves the reader in its place.                                      *)
LEMMA SteadySend ==
  ASSUME HttpType, Steady, Send
  PROVE  Steady'
<1> DEFINE v == Frame(Messages[sent + 1])
<1>1. /\ Len(got) \in 0..sent /\ Len(got) \in Nat /\ sent \in 0..Len(Messages) /\ sent \in Nat
      /\ Len(Messages) \in Nat /\ wire \in Seq(Byte)
  BY Counts
<1>2. /\ peer = "open" /\ ~ broken /\ sent < Len(Messages)
      /\ pipelines \/ sent = Len(got)
  BY DEF Send, PeerMaySend
<1>3. /\ wire' = wire \o v /\ sent' = sent + 1
      /\ UNCHANGED <<timed, pipelines, peer, broken, rpc, call, ret, got>>
  BY DEF Send, history
<1>4. sent + 1 \in 1..Len(Messages)
  BY <1>1, <1>2
<1>5. v \in Seq(Byte) /\ Len(v) \in Nat /\ Needed(Messages[sent + 1]) <= Len(v)
  BY <1>4, MessagesAre, FrameType
<1>6. ASSUME NEW q \in Int, Lies(Len(got), q, wire, sent, peer, pipelines)
      PROVE  Lies(Len(got), q, wire', sent', peer', pipelines')
  <2>1. Lies(Len(got), q, wire, sent, "open", pipelines)
    BY <1>2, <1>6
  <2>2. Lies(Len(got), q, wire \o v, sent + 1, "open", pipelines)
    <3>1. Len(v) <= Len(Frame(Messages[sent + 1]))
      BY <1>5
    <3> QED
      BY <1>1, <1>2, <1>5, <2>1, <3>1, LiesSent
  <2> QED
    BY <1>2, <1>3, <2>2
<1>7. ASSUME rpc' # "closed", ~ broken' PROVE Placed(Len(got))'
  <2>1. PICK q \in Int : Lies(Len(got), q, wire, sent, peer, pipelines) /\ Inside(Len(got), q)
    BY <1>2, <1>3, <1>7, Position
  <2>2. Lies(Len(got), q, wire', sent', peer', pipelines')
    BY <1>6, <2>1
  <2>3. Inside(Len(got), q)'
    BY <1>3, <2>1, InsideStays
  <2> QED
    BY <1>3, <2>2, <2>3 DEF Placed
<1>8. ~ pipelines' => sent' <= Len(got') + 1
  BY <1>1, <1>2, <1>3
<1>9. Len(got') <= sent'
  BY <1>1, <1>3
<1> QED
  BY <1>2, <1>3, <1>7, <1>8, <1>9 DEF Steady

(* So does PeerCloses, whatever part of a message it leaves.                 *)
LEMMA SteadyPeerCloses ==
  ASSUME HttpType, Steady, PeerCloses
  PROVE  Steady'
<1> DEFINE g == Len(got)
           m == Messages[sent + 1]
<1>1. /\ g \in 0..sent /\ g \in Nat /\ sent \in 0..Len(Messages) /\ sent \in Nat
      /\ Len(Messages) \in Nat /\ wire \in Seq(Byte)
  BY Counts
<1>2. /\ peer = "open" /\ peer' = "closed"
      /\ UNCHANGED <<timed, pipelines, broken, rpc, call, ret, got>>
  BY DEF PeerCloses, history
<1>3. ASSUME Len(got') <= sent', ~ pipelines => sent' <= Len(got) + 1,
             ~ broken => \A q \in Int : Lies(g, q, wire, sent, "open", pipelines) =>
                           Lies(g, q, wire', sent', "closed", pipelines)
      PROVE  Steady'
  <2>1. ASSUME rpc' # "closed", ~ broken' PROVE Placed(Len(got))'
    <3>1. PICK q \in Int : Lies(g, q, wire, sent, peer, pipelines) /\ Inside(g, q)
      BY <1>2, <2>1, Position
    <3>2. Lies(g, q, wire', sent', peer', pipelines')
      BY <1>2, <1>3, <2>1, <3>1
    <3>3. Inside(Len(got), q)'
      BY <1>2, <3>1, InsideStays
    <3> QED
      BY <1>2, <3>2, <3>3 DEF Placed
  <2> QED
    BY <1>2, <1>3, <2>1 DEF Steady
<1>4. CASE UNCHANGED <<wire, sent>>
  <2>1. \A q \in Int : Lies(g, q, wire, sent, "open", pipelines) =>
                           Lies(g, q, wire', sent', "closed", pipelines)
    BY <1>1, <1>4, LiesClosed
  <2>2. Len(got) <= sent /\ (~ pipelines => sent <= Len(got) + 1)
    BY DEF Steady
  <2> QED
    BY <1>2, <1>3, <1>4, <2>1, <2>2
<1>5. ASSUME PeerMaySend, NEW n \in 1..(Len(Frame(m)) - 1),
             wire' = wire \o SubSeq(Frame(m), 1, n),
             sent' = IF n >= Needed(m) THEN sent + 1 ELSE sent
      PROVE  Steady'
  <2> DEFINE v == SubSeq(Frame(m), 1, n)
             r == Needed(m)
             l == Len(Frame(m))
  <2>1. peer = "open" /\ ~ broken /\ sent < Len(Messages) /\ (pipelines \/ sent = g)
    BY <1>5 DEF PeerMaySend
  <2>2. sent + 1 \in 1..Len(Messages)
    BY <1>1, <2>1
  <2>3. Frame(m) \in Seq(Byte) /\ l \in Nat /\ r \in Nat /\ r <= l
    BY <2>2, MessagesAre, FrameType
  <2>4. n \in 1..l /\ n \in Nat /\ n <= l /\ n # l
    <3> HIDE DEF l
    <3>1. n \in 1..(l - 1)
      BY <1>5 DEF l
    <3> QED
      BY <2>3, <3>1
  <2>5. v \in Seq(Byte) /\ Len(v) = n /\ \A j \in 1..n : v[j] = Frame(m)[j]
    BY <2>3, <2>4, Taken
  <2>6. CASE n >= r
    <3>1. sent' = sent + 1
      BY <1>5, <2>6
    <3>2. \A q \in Int : Lies(g, q, wire, sent, "open", pipelines) =>
                           Lies(g, q, wire \o v, sent + 1, "closed", pipelines)
      <4>1. Needed(Messages[sent + 1]) <= Len(v) /\ Len(v) <= Len(Frame(Messages[sent + 1]))
        <5> HIDE DEF v, l, r
        <5>1. r <= Len(v) /\ Len(v) <= l
          BY <2>3, <2>4, <2>5, <2>6
        <5> QED
          BY <5>1 DEF r, l, m
      <4>2. \A j \in 1..Len(v) : v[j] = Frame(Messages[sent + 1])[j]
        BY <2>5
      <4> HIDE DEF v, g
      <4> QED
        BY <1>1, <2>1, <2>5, <4>1, <4>2, LiesSent
    <3>3. Len(got') <= sent' /\ (~ pipelines => sent' <= Len(got) + 1)
      BY <1>1, <1>2, <2>1, <3>1
    <3> QED
      BY <1>3, <1>5, <3>1, <3>2, <3>3
  <2>7. CASE ~ (n >= r)
    <3>1. sent' = sent
      BY <1>5, <2>7
    <3>2. \A q \in Int : Lies(g, q, wire, sent, "open", pipelines) =>
                           Lies(g, q, wire \o v, sent, "closed", pipelines)
      <4>1. Len(v) < Needed(Messages[sent + 1])
        <5> HIDE DEF v, l, r
        <5>1. Len(v) < r
          BY <2>3, <2>4, <2>5, <2>7
        <5> QED
          BY <5>1 DEF r, m
      <4>2. \A j \in 1..Len(v) : v[j] = Frame(Messages[sent + 1])[j]
        BY <2>5
      <4> HIDE DEF v, g
      <4> QED
        BY <1>1, <2>1, <2>5, <4>1, <4>2, LiesBroken
    <3>3. Len(got') <= sent' /\ (~ pipelines => sent' <= Len(got) + 1)
      BY <1>1, <1>2, <3>1 DEF Steady
    <3> QED
      BY <1>3, <1>5, <3>1, <3>2, <3>3
  <2> QED
    BY <2>6, <2>7
<1> QED
  BY <1>4, <1>5 DEF PeerCloses

(* After Reset there is no place to keep.                                    *)
LEMMA SteadyReset ==
  ASSUME HttpType, Steady, Reset
  PROVE  Steady'
<1>1. UNCHANGED <<got, sent, pipelines, rpc, ret, peer>> /\ broken'
  BY DEF Reset, history
<1> QED
  BY <1>1 DEF Steady

(* A call of http::read() begins where the last one ended.                   *)
LEMMA SteadyRead ==
  ASSUME HttpType, Steady, Read
  PROVE  Steady'
<1>1. /\ rpc = "idle" /\ rpc' = "head" /\ v_head' = <<>>
      /\ UNCHANGED <<got, sent, pipelines, wire, peer, broken>>
  BY DEF Read, history, conn
<1>2. ASSUME ~ broken' PROVE Placed(Len(got))'
  <2>1. PICK q \in Int : Lies(Len(got), q, wire, sent, peer, pipelines) /\ Inside(Len(got), q)
    BY <1>1, <1>2, Position
  <2>2. Begins(Len(got), q)
    BY <1>1, <2>1 DEF Inside
  <2>3. q \in Int /\ q <= 0 /\ q <= 4 /\ q - 0 = q /\ ~ (q >= 1)
    BY <2>2 DEF Begins
  <2>4. Opens(<<>>, Len(got), q)
    BY <2>2, <2>3, EmptyBytes DEF Opens
  <2>5. Inside(Len(got), q)'
    BY <1>1, <2>3, <2>4 DEF Inside
  <2> QED
    BY <1>1, <2>1, <2>5 DEF Placed
<1> QED
  BY <1>1, <1>2, StillSteady

(* A reader that got ERROR does not go on.                                   *)
LEMMA SteadyError ==
  ASSUME HttpType, Steady, SelectError \/ ReadError
  PROVE  Steady'
<1>1. rpc' = "closed" /\ ret' = "ERROR" /\ UNCHANGED <<got, sent, pipelines, peer>>
  BY DEF SelectError, ReadError, Return, history, conn
<1> QED
  BY <1>1, StillSteady

(* A reader that has taken no byte of a head but line breaks is in front of it. *)
LEMMA StillBefore ==
  ASSUME NEW g \in Nat, NEW q \in Int, NEW h \in Seq(Byte), Opens(h, g, q),
         \A k \in DOMAIN h : h[k] \in {Cr, Lf}
  PROVE  Begins(g, q)
<1> DEFINE l == Len(h)
<1>1. l \in Nat /\ DOMAIN h = 1..l
  OBVIOUS
<1>2. q - l \in -2..0 /\ (q - l < 0 => g > 0 /\ Messages[g].mode = "chunked")
  BY DEF Opens, Begins
<1>3. q >= 1 => g + 1 \in 1..Len(Messages)
  BY DEF Opens
<1>4. \A j \in 1..l : h[j] = Opening(g, (q - l) + j)
  BY DEF Opens
<1> HIDE DEF l
<1>5. q <= 0
  <2> SUFFICES ASSUME q >= 1 PROVE FALSE
    OBVIOUS
  <2> DEFINE j == (l - q) + 1
  <2>1. j \in 1..l /\ (q - l) + j = 1
    BY <1>1, <1>2
  <2>2. h[j] = Opening(g, 1)
    BY <1>4, <2>1
  <2>3. h[j] \in {Cr, Lf}
    BY <1>1, <2>1
  <2>4. Opening(g, 1) = HeadOf(Messages[g + 1])[1]
    BY DEF Opening
  <2>5. Opening(g, 1) \notin {Cr, Lf}
    BY <1>3, <2>4, MessagesAre, HeadParts
  <2> QED
    BY <2>2, <2>3, <2>5
<1>6. q \in -2..0
  BY <1>1, <1>2, <1>5
<1>7. ASSUME q < 0 PROVE q - l < 0
  BY <1>1, <1>7
<1> QED
  BY <1>2, <1>6, <1>7 DEF Begins

(* A timeout leaves the reader in front of a head, or cuts a message.        *)
LEMMA SteadyTimeout ==
  ASSUME HttpType, Steady, SelectTimeout, ~ Garbled'
  PROVE  Steady'
<1>1. /\ rpc' = "idle" /\ UNCHANGED <<got, sent, pipelines, wire, peer, broken>>
      /\ cut' = (cut \/ rpc # "head" \/ \E k \in DOMAIN v_head : v_head[k] \notin {Cr, Lf})
  BY DEF SelectTimeout, Return, conn
<1>2. rpc = "head" /\ \A k \in DOMAIN v_head : v_head[k] \in {Cr, Lf}
  BY <1>1 DEF Garbled
<1>3. ASSUME ~ broken' PROVE Placed(Len(got))'
  <2>1. PICK q \in Int : Lies(Len(got), q, wire, sent, peer, pipelines) /\ Inside(Len(got), q)
    BY <1>1, <1>2, <1>3, Position
  <2>2. Opens(v_head, Len(got), q)
    BY <1>2, <2>1 DEF Inside
  <2>3. Len(got) \in Nat /\ v_head \in Seq(Byte)
    BY Counts DEF HttpType
  <2>4. Begins(Len(got), q)
    BY <1>2, <2>2, <2>3, StillBefore
  <2>5. Inside(Len(got), q)'
    BY <1>1, <2>4 DEF Inside
  <2> QED
    BY <1>1, <2>1, <2>5 DEF Placed
<1> QED
  BY <1>1, <1>3, StillSteady

(* Turns on which nothing arrives do not move the reader.                   *)
LEMMA SteadyAgain ==
  ASSUME HttpType, Steady, Again, ~ Garbled'
  PROVE  Steady'
<1>1. ~ timed /\ ~ timed' /\ ~ broken
  BY DEF Again, Waits
<1>2. UNCHANGED <<sent, pipelines, wire, peer, broken>>
  BY DEF Again, conn
<1>3. CASE rpc = "head" /\ HeadTurn /\ UNCHANGED <<v_head, over, spent, cut>>
  <2>1. /\ UNCHANGED <<got, v_head>>
        /\ (rpc' = "closed" /\ ret' = "PROTOCOL") \/ rpc' = rpc
    BY <1>3 DEF HeadTurn, Return
  <2>2. ASSUME rpc' = rpc PROVE Placed(Len(got))'
    <3>1. PICK q \in Int : Lies(Len(got), q, wire, sent, peer, pipelines) /\ Inside(Len(got), q)
      BY <1>1, <1>3, Position
    <3>2. Inside(Len(got), q)'
      BY <1>3, <2>1, <2>2, <3>1 DEF Inside
    <3> QED
      BY <1>2, <2>1, <3>1, <3>2 DEF Placed
  <2> QED
    BY <1>2, <1>3, <2>1, <2>2, StillSteady
<1>4. CASE rpc = "line" /\ LineTurn /\ UNCHANGED line
  <2>1. ~ spent'
    BY <1>1 DEF Garbled
  <2>2. UNCHANGED <<got, rpc, ret, v_body, line>>
    BY <1>4, <2>1 DEF LineTurn
  <2>3. PICK q \in Int : Lies(Len(got), q, wire, sent, peer, pipelines) /\ Inside(Len(got), q)
    BY <1>1, <1>4, Position
  <2>4. OfLine(Len(got), q, v_body, line, i, timed)
    BY <1>4, <2>3 DEF Inside
  <2>5. OfLine(Len(got), q, v_body, line, i, timed)'
    BY <1>1, <2>2, <2>4 DEF OfLine
  <2>6. Inside(Len(got), q)'
    BY <1>4, <2>2, <2>5 DEF Inside
  <2>7. Placed(Len(got))'
    BY <1>2, <2>2, <2>3, <2>6 DEF Placed
  <2> QED
    BY <1>2, <1>4, <2>2, <2>7, StillSteady
<1> QED
  BY <1>3, <1>4 DEF Again

(* In a message there is always a byte to come that the reader needs.       *)
LEMMA Short ==
  ASSUME HttpType, NEW g \in Nat, g + 1 \in 1..Len(Messages), NEW q \in Int, Inside(g, q), Reading
  PROVE  q < Needed(Messages[g + 1])
<1> DEFINE m == Messages[g + 1]
           r == Needed(m)
           L == Len(Frame(m))
<1>1. /\ L \in Nat /\ r \in Nat /\ 5 <= r /\ r <= L
      /\ m.mode # "chunked" => r = L
      /\ m.mode = "chunked" => r + 2 = L
      /\ m.mode = "length" => L = 5 + Len(Body(m))
  BY MessagesAre, FrameType
<1>2. m \in HttpMessage
  BY MessagesAre
<1>3. CASE rpc = "head"
  <2>1. q <= 4
    BY <1>3 DEF Inside
  <2> HIDE DEF r, L
  <2>2. q < r
    BY <1>1, <2>1
  <2> QED
    BY <2>2 DEF r
<1>4. CASE rpc = "length"
  <2> DEFINE n == i_content_length
             l == Len(v_body)
  <2>1. OfLength(g, q, v_body, n)
    BY <1>4 DEF Inside
  <2>2. l < n /\ n \in Nat /\ l \in Nat
    BY <1>4 DEF HttpType
  <2>3. m.mode = "length" /\ n = Len(Body(m)) /\ q = 5 + l
    BY <2>1 DEF OfLength
  <2>4. r = L /\ L = 5 + n
    BY <1>1, <2>3
  <2> HIDE DEF r, L, l, n
  <2>5. q < r
    BY <1>1, <2>2, <2>3, <2>4
  <2> QED
    BY <2>5 DEF r
<1>5. CASE rpc = "line"
  <2>1. OfLine(g, q, v_body, line, i, timed)
    BY <1>5 DEF Inside
  <2>2. m.mode = "chunked"
    BY <2>1 DEF OfLine
  <2>3. PICK c \in 0..Len(m.chunks), x \in 0..4 : q = Pos(m)[c + 1] + x - 2
    BY <2>1 DEF OfLine
  <2> DEFINE p == Pos(m)[c + 1]
             e == Len(ChunkAt(m, c + 1))
  <2>4. c + 1 \in 1..(Len(m.chunks) + 1)
    BY <1>2, DataAreBytes
  <2>5. p \in Nat /\ e \in Nat /\ p + 5 + e <= L
    BY <1>2, <2>2, <2>4, ChunkFits
  <2>6. q = p + x - 2 /\ x <= 4 /\ x \in Nat /\ r + 2 = L
    BY <1>1, <2>2, <2>3
  <2> HIDE DEF r, L, p, e
  <2>7. q < r
    BY <1>1, <2>5, <2>6
  <2> QED
    BY <2>7 DEF r
<1>6. CASE rpc = "chunk"
  <2> DEFINE l == Len(chunckData)
  <2>1. OfChunk(g, q, v_body, iChunckLength, chunckData)
    BY <1>6 DEF Inside
  <2>2. m.mode = "chunked"
    BY <2>1 DEF OfChunk
  <2>3. PICK c \in 1..Len(m.chunks) : /\ iChunckLength = Len(m.chunks[c])
                                      /\ q = Pos(m)[c] + 3 + Len(chunckData)
    BY <2>1 DEF OfChunk
  <2> DEFINE p == Pos(m)[c]
             e == Len(ChunkAt(m, c))
  <2>4. c \in 1..(Len(m.chunks) + 1) /\ c <= Len(m.chunks)
    BY <1>2, DataAreBytes
  <2>5. p \in Nat /\ e \in Nat /\ p + 5 + e <= L
    BY <1>2, <2>2, <2>4, ChunkFits
  <2>6. e = iChunckLength
    BY <2>3, <2>4 DEF ChunkAt
  <2>7. l \in Nat /\ l < iChunckLength
    BY <1>6 DEF HttpType
  <2>8. q = p + 3 + l /\ r + 2 = L /\ l < e
    BY <1>1, <2>2, <2>3, <2>6, <2>7
  <2> HIDE DEF r, L, p, e, l
  <2>9. q < r
    BY <1>1, <2>5, <2>7, <2>8
  <2> QED
    BY <2>9 DEF r
<1> QED
  BY <1>3, <1>4, <1>5, <1>6 DEF Reading

(* A reader that is told of the close has got all that was sent.             *)
LEMMA SteadyZero ==
  ASSUME HttpType, Steady, ReadZero
  PROVE  Steady'
<1>1. /\ Reading /\ ~ broken /\ wire = <<>> /\ peer = "closed"
      /\ rpc' = "closed" /\ UNCHANGED <<got, sent, pipelines, wire, peer, broken>>
  BY DEF ReadZero, Return, conn, history
<1>2. PICK q \in Int : Lies(Len(got), q, wire, sent, peer, pipelines) /\ Inside(Len(got), q)
  BY <1>1, Position DEF Reading
<1>3. /\ Len(got) \in Nat /\ Len(got) \in 0..sent /\ sent \in 0..Len(Messages)
      /\ sent \in Nat /\ Len(Messages) \in Nat /\ wire \in Seq(Byte)
  BY Counts
<1>4. Len(got) = sent
  <2> SUFFICES ASSUME Len(got) < sent PROVE FALSE
    BY <1>3
  <2> DEFINE g == Len(got)
             r == Needed(Messages[g + 1])
  <2>1. g + 1 \in 1..Len(Messages)
    BY <1>3
  <2>2. q < r
    BY <1>1, <1>2, <1>3, <2>1, Short
  <2>3. r <= q + Len(wire)
    BY <1>2, <1>3, LiesWhole
  <2>4. Len(wire) = 0
    BY <1>1
  <2>5. r \in Nat
    BY <2>1, MessagesAre, FrameType
  <2> HIDE DEF r
  <2> QED
    BY <2>2, <2>3, <2>4, <2>5
<1> QED
  BY <1>1, <1>4, StillSteady
-----------------------------------------------------------------------------
(***************************************************************************)
(* read_head()                                                               *)
(***************************************************************************)

(* A byte more of a head.                                                   *)
LEMMA OpensNext ==
  ASSUME NEW g \in Nat, NEW q \in Int, NEW h \in Seq(Byte), Opens(h, g, q),
         NEW b \in Byte, b = Opening(g, q + 1), q + 1 >= 1 => g + 1 \in 1..Len(Messages)
  PROVE  Opens(Append(h, b), g, q + 1)
<1> DEFINE u == Append(h, b)
           l == Len(h)
           k == Len(u)
<1>1. /\ u \in Seq(Byte) /\ k = l + 1 /\ l \in Nat
      /\ \A j \in 1..l : u[j] = h[j]
      /\ u[l + 1] = b
  BY OneMore
<1>2. Begins(g, q - l) /\ \A j \in 1..l : h[j] = Opening(g, (q - l) + j)
  BY DEF Opens
<1> HIDE DEF u, l
<1>3. (q + 1) - k = q - l
  BY <1>1
<1>4. Begins(g, (q + 1) - k)
  BY <1>2, <1>3
<1>5. ASSUME NEW j \in 1..k PROVE u[j] = Opening(g, ((q + 1) - k) + j)
  <2>1. j \in 1..l \/ j = l + 1
    BY <1>1
  <2>2. CASE j \in 1..l
    BY <1>1, <1>2, <1>3, <2>2
  <2>3. CASE j = l + 1
    <3>1. (q - l) + j = q + 1
      BY <1>1, <2>3
    <3> QED
      BY <1>1, <1>3, <2>3, <3>1
  <2> QED
    BY <2>1, <2>2, <2>3
<1>6. Opens(u, g, q + 1)
  BY <1>4, <1>5 DEF Opens
<1> QED
  BY <1>6 DEF u

(* A reader in the line break in front of a head got there from a chunk.     *)
LEMMA OpensFrom ==
  ASSUME NEW g \in Nat, NEW q \in Int, NEW h \in Seq(Byte), Opens(h, g, q), q < 0
  PROVE  Begins(g, q)
<1> DEFINE l == Len(h)
<1>1. l \in Nat /\ q - l \in -2..0 /\ (q - l < 0 => g > 0 /\ Messages[g].mode = "chunked")
  BY DEF Opens, Begins
<1> HIDE DEF l
<1>2. q \in -2..0 /\ q - l < 0
  BY <1>1
<1> QED
  BY <1>1, <1>2 DEF Begins

(* The reader of a head gets its next byte.                                 *)
LEMMA HeadOn ==
  ASSUME HttpType, Steady, ReadHead
  PROVE  \E q \in Int :
           /\ q <= 4
           /\ Lies(Len(got), q, wire, sent, peer, pipelines)
           /\ Lies(Len(got), q + 1, wire', sent', peer', pipelines')
           /\ Len(got) < sent => Lies(Len(got) + 1, (q + 1) - Len(Frame(Messages[Len(got) + 1])),
                                      wire', sent', peer', pipelines')
           /\ Opens(v_head', Len(got), q + 1)
           /\ IsSuffix(CrLf \o CrLf, v_head') <=> q + 1 = 5
           /\ v_head' \in Seq(Byte)
<1> DEFINE g == Len(got)
<1>1. rpc = "head" /\ Receives(1, 1) /\ v_head' = Append(v_head, wire[1])
  BY DEF ReadHead
<1>2. /\ g \in 0..sent /\ g \in Nat /\ sent \in 0..Len(Messages) /\ wire \in Seq(Byte)
      /\ v_head \in Seq(Byte)
  BY Counts DEF HttpType
<1>3. /\ 1 \in 1..Len(wire) /\ wire[1] \in Byte /\ wire' = SubSeq(wire, 1 + 1, Len(wire))
      /\ UNCHANGED <<sent, peer, pipelines>> /\ ~ broken
  BY <1>1, <1>2, Takes
<1>4. PICK q \in Int : Lies(g, q, wire, sent, peer, pipelines) /\ Inside(g, q)
  BY <1>1, <1>3, Position
<1>5. q <= 4 /\ Opens(v_head, g, q)
  BY <1>1, <1>4 DEF Inside
<1> HIDE DEF g
<1>6. wire[1] = Opening(g, q + 1) /\ (q + 1 >= 1 => g + 1 \in 1..Len(Messages))
  <2>1. q < 0 => Begins(g, q)
    BY <1>2, <1>5, OpensFrom
  <2>2. Len(wire) >= 1
    BY <1>2, <1>3
  <2> QED
    BY <1>2, <1>4, <1>5, <2>1, <2>2, LiesOpen
<1>7. Opens(v_head', g, q + 1) /\ v_head' \in Seq(Byte)
  BY <1>1, <1>2, <1>3, <1>5, <1>6, OpensNext, OneMore
<1>8. IsSuffix(CrLf \o CrLf, v_head') <=> q + 1 = 5
  <2>1. q + 1 \in Int /\ q + 1 <= 5
    BY <1>5
  <2> QED
    BY <1>2, <1>7, <2>1, HeadEnds
<1>9. /\ Lies(g, q + 1, wire', sent', peer', pipelines')
      /\ g < sent => Lies(g + 1, (q + 1) - Len(Frame(Messages[g + 1])),
                         wire', sent', peer', pipelines')
  BY <1>2, <1>3, <1>4, LiesOn
<1> QED
  BY <1>4, <1>5, <1>7, <1>8, <1>9 DEF g

(* ReadHead ends a head where it ends, and takes the body for what it is.    *)
LEMMA SteadyReadHead ==
  ASSUME HttpType, Steady, ReadHead
  PROVE  Steady'
<1> DEFINE m == Messages[Len(got) + 1]
<1>1. PICK q \in Int :
           /\ q <= 4
           /\ Lies(Len(got), q, wire, sent, peer, pipelines)
           /\ Lies(Len(got), q + 1, wire', sent', peer', pipelines')
           /\ Len(got) < sent => Lies(Len(got) + 1, (q + 1) - Len(Frame(m)),
                                      wire', sent', peer', pipelines')
           /\ Opens(v_head', Len(got), q + 1)
           /\ IsSuffix(CrLf \o CrLf, v_head') <=> q + 1 = 5
           /\ v_head' \in Seq(Byte)
  BY HeadOn
<1>2. /\ rpc = "head" /\ 1 \in 1..Len(wire) /\ ~ broken
      /\ UNCHANGED <<sent, peer, pipelines, broken, timed>>
  BY Takes DEF ReadHead, HttpType
<1>3. /\ Len(got) \in 0..sent /\ Len(got) \in Nat /\ sent \in 0..Len(Messages)
      /\ sent \in Nat /\ wire \in Seq(Byte)
  BY Counts
<1>4. ASSUME got' = got, Inside(Len(got), q + 1)', rpc' # "closed"
      PROVE  Steady'
  <2>1. Placed(Len(got))'
    BY <1>1, <1>4 DEF Placed
  <2> QED
    BY <1>2, <1>4, <2>1, StillSteady
<1>5. ASSUME got' = got, rpc' = "closed", ret' = "PROTOCOL"
      PROVE  Steady'
  BY <1>2, <1>5, StillSteady
<1>6. CASE ~ IsSuffix(CrLf \o CrLf, v_head')
  <2>1. HeadTurn
    BY <1>6 DEF ReadHead
  <2>2. got' = got /\ ((rpc' = "closed" /\ ret' = "PROTOCOL") \/ rpc' = "head")
    BY <1>2, <2>1 DEF HeadTurn, Return
  <2>3. q + 1 <= 4
    BY <1>1, <1>6
  <2>4. ASSUME rpc' = "head" PROVE Inside(Len(got), q + 1)'
    BY <1>1, <2>2, <2>3, <2>4 DEF Inside
  <2> QED
    BY <1>4, <1>5, <2>2, <2>4
<1>7. CASE IsSuffix(CrLf \o CrLf, v_head') /\ i >= HeadTurns - 1
  <2>1. got' = got /\ rpc' = "closed" /\ ret' = "PROTOCOL"
    BY <1>7 DEF ReadHead, Return
  <2> QED
    BY <1>5, <2>1
<1>8. CASE IsSuffix(CrLf \o CrLf, v_head') /\ ~ (i >= HeadTurns - 1)
  <2>1. ReadInLengthMode(v_head') \/ ReadInChunkMode(v_head') \/ ModeError(v_head')
    BY <1>8 DEF ReadHead
  <2>2. q + 1 = 5 /\ q = 4
    BY <1>1, <1>8
  <2>3. Opens(v_head', Len(got), 5)
    BY <1>1, <2>2
  <2>4. Len(got) + 1 \in 1..Len(Messages)
    BY <1>1, <1>3, <2>3, HeadSays DEF Mode
  <2>5. m \in HttpMessage
    BY <2>4, MessagesAre
  <2>6. CASE ReadInLengthMode(v_head')
    <3> DEFINE n == v_head'[Min(Found(v_head', "length"))][2]
    <3>1. Found(v_head', "length") # {} /\ i_content_length' = n /\ v_body' = <<>>
      BY <2>6 DEF ReadInLengthMode
    <3>2. m.mode = "length" /\ v_head'[Min(Found(v_head', "length"))] = HeadOf(m)[1]
      BY <1>1, <1>3, <2>3, <3>1, HeadSays DEF Mode
    <3>3. n = Len(Body(m)) /\ Body(m) \in Seq(Byte) /\ Len(Body(m)) \in Nat
      BY <2>5, <3>2, HeadParts, BodyType
    <3>4. CASE n = 0
      <4>1. rpc' = "idle" /\ got' = Append(got, <<>>)
        BY <2>6, <3>4 DEF ReadInLengthMode, Return
      <4>2. Len(Body(m)) = 0 /\ Body(m) = <<>>
        <5>1. Len(Body(m)) = 0
          BY <3>3, <3>4
        <5> QED
          BY <3>3, <5>1, EmptySeq
      <4>3. Needed(m) = 5 /\ Len(Frame(m)) = 5
        <5> HIDE DEF m
        <5>1. Len(Frame(m)) = 5 + Len(Body(m)) /\ Needed(m) = Len(Frame(m))
          BY <2>5, <3>2, FrameType
        <5>2. 5 + Len(Body(m)) = 5
          BY <4>2
        <5> QED
          BY <5>1, <5>2
      <4>4. Len(got) < sent
        <5>1. q \in Nat /\ q + 1 >= Needed(m)
          BY <2>2, <4>3
        <5>2. q + 1 >= Needed(Messages[Len(got) + 1]) => Len(got) < sent
          BY <1>1, <1>2, <1>3, <5>1, LiesAhead
        <5> QED
          BY <5>1, <5>2
      <4>5. Lies(Len(got) + 1, 0, wire', sent', peer', pipelines')
        <5>1. (q + 1) - Len(Frame(m)) = 0
          BY <2>2, <4>3
        <5> QED
          BY <1>1, <4>4, <5>1
      <4>6. Begins(Len(got) + 1, 0)
        BY DEF Begins
      <4> DEFINE g == Len(got)
      <4>7. g = Len(got) /\ 0 \in Int
        OBVIOUS
      <4> HIDE DEF g
      <4> QED
        BY <1>2, <1>3, <4>1, <4>2, <4>4, <4>5, <4>6, <4>7, EmptyBytes, NextSteady
    <3>5. CASE n # 0
      <4>1. rpc' = "length" /\ got' = got
        BY <2>6, <3>5 DEF ReadInLengthMode
      <4>2. OfLength(Len(got), 5, <<>>, n)
        <5>1. 5 + Len(<<>>) = 5 /\ \A j \in 1..Len(<<>>) : FALSE
          BY EmptyBytes
        <5> HIDE DEF n
        <5> QED
          BY <2>4, <3>2, <3>3, <5>1 DEF OfLength
      <4>3. Inside(Len(got), 5)'
        BY <3>1, <4>1, <4>2 DEF Inside
      <4>4. Inside(Len(got), q + 1)'
        BY <2>2, <4>3
      <4> QED
        BY <1>4, <4>1, <4>4
    <3> QED
      BY <3>4, <3>5
  <2>7. CASE ReadInChunkMode(v_head')
    <3>1. /\ Found(v_head', "chunked") # {}
          /\ rpc' = "line" /\ i' = 0 /\ line' = <<>> /\ v_body' = <<>> /\ got' = got
      BY <2>7 DEF ReadInChunkMode
    <3>2. m.mode = "chunked"
      BY <1>1, <1>3, <2>3, <3>1, HeadSays DEF Mode
    <3>3. Laid(m, Pos(m), Cat(m))
      BY <2>5, <3>2, Layout
    <3>4. Pos(m)[1] = 5 /\ Cat(m)[0] = <<>>
      BY <3>3 DEF Laid, Sums
    <3>5. OfLine(Len(got), 5, <<>>, <<>>, 0, timed)
      <4>1. 0 \in 0..Len(m.chunks) /\ 2 \in 0..4 /\ 0 + 1 = 1 /\ 5 + 2 - 2 = 5 /\ 2 - 2 = 0 /\ 2 >= 2
        BY <2>5, DataAreBytes
      <4>2. LineTo(Len(ChunkAt(m, 0 + 1)), 2) = <<>>
        BY DEF LineTo
      <4>3. /\ 0 = 0 => 2 >= 2
            /\ <<>> = Cat(m)[0]
            /\ 5 = Pos(m)[0 + 1] + 2 - 2
            /\ <<>> = LineTo(Len(ChunkAt(m, 0 + 1)), 2)
            /\ timed => 0 = IF 0 = 0 THEN 2 - 2 ELSE 2
        BY <3>4, <4>1, <4>2
      <4> QED
        BY <2>4, <3>2, <4>1, <4>3 DEF OfLine
    <3>6. Inside(Len(got), 5)'
      BY <1>2, <3>1, <3>5 DEF Inside
    <3>7. Inside(Len(got), q + 1)'
      BY <2>2, <3>6
    <3> QED
      BY <1>4, <3>1, <3>7
  <2>8. CASE ModeError(v_head')
    <3>1. got' = got /\ rpc' = "closed" /\ ret' = "PROTOCOL"
      BY <2>8 DEF ModeError, Return
    <3> QED
      BY <1>5, <3>1
  <2> QED
    BY <2>1, <2>6, <2>7, <2>8
<1> QED
  BY <1>6, <1>7, <1>8
-----------------------------------------------------------------------------
(***************************************************************************)
(* read_in_length_mode()                                                     *)
(***************************************************************************)

(* A body of length k with the bytes u read, q bytes behind the frame's start. *)
BodyUpTo(g, q, u, k, s) ==
  LET m == Messages[g + 1] IN
  /\ g + 1 \in 1..Len(Messages) /\ m \in HttpMessage /\ m.mode = "length"
  /\ u \in Seq(Byte) /\ Len(u) \in Nat /\ q = 5 + Len(u)
  /\ k \in Nat /\ k = Len(Body(m)) /\ Len(Frame(m)) = 5 + k
  /\ \A j \in 1..Len(u) : j <= k => u[j] = Body(m)[j]
  /\ Len(u) >= k => g < s

(* What is read of a body of known length is the body, as far as it goes.   *)
LEMMA BodyGrows ==
  ASSUME NEW w \in Seq(Byte), NEW s \in 0..Len(Messages), NEW g \in 0..s, NEW pr, NEW pp,
         NEW q \in Int, Lies(g, q, w, s, pr, pp), NEW body \in Seq(Byte), NEW k,
         OfLength(g, q, body, k), NEW n \in 1..Len(w), NEW u, u = body \o SubSeq(w, 1, n)
  PROVE  BodyUpTo(g, q + n, u, k, s)
<1> DEFINE m == Messages[g + 1]
           a == Len(body)
           l == Len(u)
           f == Len(Frame(m))
           v == SubSeq(w, 1, n)
<1>1. /\ g + 1 \in 1..Len(Messages) /\ m.mode = "length"
      /\ k = Len(Body(m)) /\ q = 5 + a
      /\ \A j \in 1..a : body[j] = Body(m)[j]
  BY DEF OfLength
<1>2. m \in HttpMessage
  BY <1>1, MessagesAre
<1>3. v \in Seq(Byte) /\ Len(v) = n /\ \A j \in 1..n : v[j] = w[j]
  BY Taken
<1>4. u \in Seq(Byte) /\ Joins(u, body, v)
  BY <1>3, Joined
<1>5. /\ l = a + n /\ a \in Nat /\ n \in Nat
      /\ \A j \in 1..a : u[j] = body[j]
      /\ \A j \in 1..n : u[a + j] = v[j]
  BY <1>3, <1>4 DEF Joins
<1>6. k \in Nat
  BY <1>1, <1>2, BodyType
<1>7. f = 5 + k /\ Needed(m) = 5 + k
  BY <1>1, <1>2, FrameType
<1>8. \A j \in 1..k : Frame(m)[5 + j] = Body(m)[j]
  <2>1. Joins(Frame(m), HeadOf(m), Body(m)) /\ Len(HeadOf(m)) = 5
    BY <1>1, <1>2, FrameParts, HeadParts
  <2> QED
    BY <1>1, <2>1 DEF Joins
<1>9. q \in Nat
  BY <1>1, <1>5
<1>10. /\ \A j \in 1..n : q + j <= f => w[j] = Frame(m)[q + j]
       /\ q + n >= Needed(m) => g < s
  BY <1>9, LiesAhead
<1> HIDE DEF a, l, f, v, m
<1>11. q + n = 5 + l
  BY <1>1, <1>5
<1>12. ASSUME NEW j \in 1..l, j <= k PROVE u[j] = Body(m)[j]
  <2>1. CASE j <= a
    <3>1. j \in 1..a
      BY <1>5, <2>1
    <3> QED
      BY <1>1, <1>5, <3>1
  <2>2. CASE ~ (j <= a)
    <3> DEFINE x == j - a
    <3>1. x \in 1..n /\ j = a + x /\ q + x = 5 + j /\ q + x <= f /\ j \in 1..k
      BY <1>1, <1>5, <1>6, <1>7, <1>12, <2>2
    <3> HIDE DEF x
    <3>2. u[a + x] = v[x] /\ v[x] = w[x] /\ w[x] = Frame(m)[q + x]
      BY <1>3, <1>5, <1>10, <3>1
    <3>3. Frame(m)[5 + j] = Body(m)[j]
      BY <1>8, <3>1
    <3> QED
      BY <3>1, <3>2, <3>3
  <2> QED
    BY <2>1, <2>2
<1>13. l >= k => g < s
  <2>1. l \in Nat
    BY <1>5
  <2>2. l >= k => q + n >= 5 + k
    BY <1>6, <1>11, <2>1
  <2> QED
    BY <1>7, <1>10, <2>2
<1>14. l \in Nat
  BY <1>5
<1> QED
  BY <1>1, <1>2, <1>4, <1>6, <1>7, <1>11, <1>12, <1>13, <1>14 DEF l, f, m, BodyUpTo

(* ReadLength ends where the body ends, unless the next message follows.     *)
LEMMA SteadyReadLength ==
  ASSUME HttpType, Steady, ReadLength, ~ Garbled'
  PROVE  Steady'
<1> DEFINE g == Len(got)
           m == Messages[g + 1]
           k == i_content_length
           u == v_body'
           l == Len(u)
           f == Len(Frame(m))
<1>1. PICK n \in 1..Len(wire) : Receives(n, Len(wire)) /\ v_body' = v_body \o SubSeq(wire, 1, n)
  BY DEF ReadLength
<1>2. /\ rpc = "length" /\ k' = k
      /\ over' = (over \/ l > k)
      /\ l >= k => rpc' = "idle" /\ got' = Append(got, u)
      /\ ~ (l >= k) => rpc' = rpc /\ got' = got
  BY DEF ReadLength, Return
<1>3. /\ g \in 0..sent /\ g \in Nat /\ sent \in 0..Len(Messages) /\ sent \in Nat
      /\ wire \in Seq(Byte) /\ v_body \in Seq(Byte) /\ pipelines \in BOOLEAN
  BY Counts DEF HttpType
<1>4. /\ wire' = SubSeq(wire, n + 1, Len(wire))
      /\ UNCHANGED <<sent, peer, pipelines, broken>> /\ ~ broken
  BY <1>1, <1>3, Takes
<1>5. PICK q \in Int : Lies(g, q, wire, sent, peer, pipelines) /\ Inside(g, q)
  BY <1>2, <1>4, Position
<1>6. OfLength(g, q, v_body, k)
  BY <1>2, <1>5 DEF Inside
<1>7. /\ g + 1 \in 1..Len(Messages) /\ m \in HttpMessage /\ m.mode = "length"
      /\ u \in Seq(Byte) /\ l \in Nat /\ q + n = 5 + l
      /\ k \in Nat /\ k = Len(Body(m)) /\ f = 5 + k
      /\ \A j \in 1..l : j <= k => u[j] = Body(m)[j]
      /\ l >= k => g < sent
  <2>1. u = v_body \o SubSeq(wire, 1, n)
    BY <1>1
  <2> HIDE DEF u, k, g
  <2>2. BodyUpTo(g, q + n, u, k, sent)
    BY <1>3, <1>5, <1>6, <2>1, BodyGrows
  <2> QED
    BY <2>2 DEF BodyUpTo
<1>8. /\ Lies(g, q + n, wire', sent', peer', pipelines')
      /\ g < sent => Lies(g + 1, (q + n) - f, wire', sent', peer', pipelines')
  BY <1>3, <1>4, <1>5, LiesOn
<1>9. ~ (l > k)
  <2> SUFFICES ASSUME l > k PROVE FALSE
    OBVIOUS
  <2>1. ~ pipelines
    BY <1>2, <1>4 DEF Garbled
  <2>2. sent <= g + 1
    BY <2>1 DEF Steady
  <2>3. q + Len(wire) <= f
    BY <1>3, <1>5, <1>7, <2>1, <2>2, LiesAlone
  <2> DEFINE z == Len(wire)
  <2>4. z \in Nat /\ n <= z
    BY <1>3
  <2> HIDE DEF l, k, f, z
  <2>5. q + z <= f
    BY <2>3 DEF z
  <2> QED
    BY <1>7, <2>4, <2>5
<1>10. CASE l >= k
  <2>1. l = k
    <3> HIDE DEF l, k
    <3> QED
      BY <1>7, <1>9, <1>10
  <2>2. u = Body(m)
    <3>1. \A j \in 1..l : u[j] = Body(m)[j]
      <4> HIDE DEF u, l, k, m
      <4>1. \A j \in 1..l : j <= k
        BY <1>7, <2>1
      <4> QED
        BY <1>7, <4>1
    <3>2. Body(m) \in Seq(Byte)
      BY <1>7, BodyType
    <3> QED
      BY <1>7, <2>1, <3>1, <3>2, SeqEqual
  <2>3. (q + n) - f = 0
    <3> HIDE DEF l, k, f
    <3> QED
      BY <1>7, <2>1
  <2>4. g < sent
    BY <1>7, <1>10
  <2>5. Lies(g + 1, 0, wire', sent', peer', pipelines')
    BY <1>8, <2>3, <2>4
  <2>6. Begins(g + 1, 0)
    BY DEF Begins
  <2>7. rpc' = "idle" /\ got' = Append(got, u)
    BY <1>2, <1>10
  <2>8. g = Len(got) /\ 0 \in Int /\ u \in Seq(Byte) /\ u = Body(Messages[g + 1])
    BY <1>7, <2>2
  <2> HIDE DEF g, u
  <2> QED
    BY <1>4, <2>4, <2>5, <2>6, <2>7, <2>8, NextSteady
<1>11. CASE ~ (l >= k)
  <2>1. rpc' = "length" /\ got' = got
    BY <1>2, <1>11
  <2>2. \A j \in 1..l : u[j] = Body(m)[j]
    <3> HIDE DEF u, l, k, m
    <3>1. \A j \in 1..l : j <= k
      BY <1>7, <1>11
    <3> QED
      BY <1>7, <3>1
  <2>3. OfLength(g, q + n, u, k)
    BY <1>7, <2>2 DEF OfLength
  <2>4. OfLength(g, q + n, v_body', i_content_length')
    BY <1>2, <2>3
  <2>5. Inside(Len(got), q + n)'
    BY <2>1, <2>4 DEF Inside
  <2>6. Placed(Len(got))'
    BY <1>8, <2>1, <2>5 DEF Placed
  <2> QED
    BY <1>4, <2>1, <2>6, StillSteady
<1> QED
  BY <1>10, <1>11
-----------------------------------------------------------------------------
(***************************************************************************)
(* read_in_chunk_mode()                                                      *)
(***************************************************************************)

(* The reader of a size line, x bytes of which it has taken behind the c-th *)
(* chunk, gets the next one.                                                *)
LineAt(g, q, c, x, body, text, turn, tm) ==
  LET m == Messages[g + 1] IN
  /\ g + 1 \in 1..Len(Messages) /\ m \in HttpMessage /\ m.mode = "chunked"
  /\ Len(m.chunks) \in Nat /\ c \in 0..Len(m.chunks) /\ x \in 0..4
  /\ c = 0 => x >= 2
  /\ body = Cat(m)[c] /\ q = Pos(m)[c + 1] + x - 2
  /\ text = LineTo(Len(ChunkAt(m, c + 1)), x)
  /\ tm => turn = IF c = 0 THEN x - 2 ELSE x

(* Such a place is in OfLine ...                                             *)
LEMMA LineIn ==
  ASSUME NEW g, NEW q, NEW body, NEW text, NEW turn, NEW tm, OfLine(g, q, body, text, turn, tm)
  PROVE  \E c \in Nat, x \in 0..4 : LineAt(g, q, c, x, body, text, turn, tm)
<1> DEFINE m == Messages[g + 1]
<1>1. g + 1 \in 1..Len(Messages) /\ m.mode = "chunked"
  BY DEF OfLine
<1>2. m \in HttpMessage
  BY <1>1, MessagesAre
<1>3. Len(m.chunks) \in Nat
  BY <1>2, DataAreBytes
<1>4. PICK c \in 0..Len(m.chunks), x \in 0..4 :
       /\ c = 0 => x >= 2
       /\ body = Cat(m)[c]
       /\ q = Pos(m)[c + 1] + x - 2
       /\ text = LineTo(Len(ChunkAt(m, c + 1)), x)
       /\ tm => turn = IF c = 0 THEN x - 2 ELSE x
  BY DEF OfLine
<1>5. c \in Nat
  BY <1>3
<1>6. LineAt(g, q, c, x, body, text, turn, tm)
  BY <1>1, <1>2, <1>3, <1>4 DEF LineAt
<1> QED
  BY <1>5, <1>6

(* ... and the other way round.                                              *)
LEMMA LineOf ==
  ASSUME NEW g, NEW q, NEW c, NEW x, NEW body, NEW text, NEW turn, NEW tm,
         LineAt(g, q, c, x, body, text, turn, tm)
  PROVE  OfLine(g, q, body, text, turn, tm)
BY DEF LineAt, OfLine

(* The byte it gets.                                                        *)
LEMMA LineAhead ==
  ASSUME NEW w \in Seq(Byte), NEW s \in 0..Len(Messages), NEW g \in 0..s, NEW pr, NEW pp,
         NEW q \in Int, Lies(g, q, w, s, pr, pp), Len(w) >= 1,
         NEW c, NEW x, NEW body, NEW text, NEW turn, NEW tm,
         LineAt(g, q, c, x, body, text, turn, tm)
  PROVE  /\ w[1] = LineByte(Len(ChunkAt(Messages[g + 1], c + 1)), x)
         /\ q + 1 >= Needed(Messages[g + 1]) => g < s
<1> DEFINE m == Messages[g + 1]
           b == LineByte(Len(ChunkAt(m, c + 1)), x)
<1>1. /\ m \in HttpMessage /\ m.mode = "chunked" /\ c \in 0..Len(m.chunks) /\ x \in 0..4
      /\ c = 0 => x >= 2
      /\ q = Pos(m)[c + 1] + x - 2
  BY DEF LineAt
<1> HIDE DEF m
<1>2. q \in Nat /\ q + 1 <= Len(Frame(m)) /\ Frame(m)[q + 1] = b
  <2>1. /\ Pos(m)[c + 1] + x - 2 \in Nat /\ Pos(m)[c + 1] + x - 2 + 1 <= Len(Frame(m))
        /\ Frame(m)[Pos(m)[c + 1] + x - 2 + 1] = b
    BY <1>1, SizeLine
  <2> QED
    BY <1>1, <2>1
<1>3. 1 \in 1..Len(w)
  BY EmptyBytes
<1>4. /\ \A j \in 1..1 : q + j <= Len(Frame(m)) => w[j] = Frame(m)[q + j]
      /\ q + 1 >= Needed(m) => g < s
  BY <1>2, <1>3, LiesAhead DEF m
<1> HIDE DEF b
<1>5. w[1] = Frame(m)[q + 1]
  BY <1>2, <1>4
<1> QED
  BY <1>2, <1>4, <1>5 DEF b, m

(* Behind the last size line is the end of the message as the reader sees it. *)
LEMMA LineLast ==
  ASSUME NEW g, NEW q \in Int, NEW c \in Nat, NEW body, NEW text, NEW turn, NEW tm,
         LineAt(g, q, c, 4, body, text, turn, tm),
         Len(ChunkAt(Messages[g + 1], c + 1)) = 0
  PROVE  LET m == Messages[g + 1] IN
         /\ body = Body(m) /\ Body(m) \in Seq(Byte) /\ m.mode = "chunked"
         /\ q + 1 = Needed(m) /\ (q + 1) - Len(Frame(m)) = 0 - 2
<1> DEFINE m == Messages[g + 1]
           N == Len(m.chunks)
           p == Pos(m)[N + 1]
           L == Len(Frame(m))
           r == Needed(m)
<1>1. /\ m \in HttpMessage /\ m.mode = "chunked" /\ N \in Nat /\ c \in 0..N
      /\ body = Cat(m)[c] /\ q = Pos(m)[c + 1] + 4 - 2
  BY DEF LineAt
<1>2. c = N
  <2> SUFFICES ASSUME c # N PROVE FALSE
    OBVIOUS
  <2>1. c + 1 \in 1..N /\ c + 1 <= N
    BY <1>1
  <2>2. m.chunks[c + 1] \in Seq(Byte) /\ Len(m.chunks[c + 1]) = 0
    BY <1>1, <2>1, DataAreBytes DEF ChunkAt
  <2>3. m.chunks[c + 1] # <<>>
    BY <1>1, <2>1 DEF HttpMessage
  <2> QED
    BY <2>2, <2>3, EmptySeq
<1>3. Laid(m, Pos(m), Cat(m))
  BY <1>1, Layout
<1>4. Cat(m)[N] = Body(m) /\ L = p + 5
  BY <1>3 DEF Laid
<1>5. r + 2 = L /\ L \in Nat /\ r \in Nat
  BY <1>1, FrameType
<1>6. q = p + 4 - 2
  BY <1>1, <1>2
<1>7. p \in Nat
  <2>1. N + 1 \in 1..(N + 1)
    BY <1>1
  <2> QED
    BY <1>1, <2>1, ChunkFits
<1>8. Body(m) \in Seq(Byte)
  BY <1>1, BodyType
<1>9. body = Body(m)
  BY <1>1, <1>2, <1>4
<1> HIDE DEF p, L, r
<1>10. q + 1 = r
  BY <1>4, <1>5, <1>6, <1>7
<1>11. (q + 1) - L = 0 - 2
  BY <1>4, <1>6, <1>7
<1> QED
  BY <1>1, <1>8, <1>9, <1>10, <1>11 DEF L, r

(* ReadLine ends a size line where it ends, and the body with the last.      *)
LEMMA SteadyReadLine ==
  ASSUME HttpType, Steady, ReadLine, ~ Garbled'
  PROVE  Steady'
<1> DEFINE g == Len(got)
           m == Messages[g + 1]
<1>1. rpc = "line" /\ Receives(1, 1) /\ line' = WithoutBreak(Append(line, wire[1]))
  BY DEF ReadLine
<1>2. /\ g \in 0..sent /\ g \in Nat /\ sent \in 0..Len(Messages) /\ sent \in Nat
      /\ wire \in Seq(Byte) /\ Len(wire) \in Nat
  BY Counts
<1>3. /\ 1 \in 1..Len(wire) /\ wire' = SubSeq(wire, 1 + 1, Len(wire)) /\ Len(wire) >= 1
      /\ UNCHANGED <<sent, peer, pipelines, broken, timed>> /\ ~ broken
  <2>1. 1 \in 1..Len(wire) /\ wire' = SubSeq(wire, 1 + 1, Len(wire))
        /\ UNCHANGED <<sent, peer, pipelines, broken, timed>> /\ ~ broken
    BY <1>1, <1>2, Takes
  <2> QED
    BY <1>2, <2>1
<1>4. PICK q \in Int : Lies(g, q, wire, sent, peer, pipelines) /\ Inside(g, q)
  BY <1>1, <1>3, Position
<1>5. OfLine(g, q, v_body, line, i, timed)
  BY <1>1, <1>4 DEF Inside
<1>6. PICK c \in Nat, x \in 0..4 : LineAt(g, q, c, x, v_body, line, i, timed)
  <2> HIDE DEF g
  <2> QED
    BY <1>5, LineIn
<1> DEFINE size == Len(ChunkAt(m, c + 1))
<1>7. /\ Lies(g, q + 1, wire', sent', peer', pipelines')
      /\ g < sent => Lies(g + 1, (q + 1) - Len(Frame(m)), wire', sent', peer', pipelines')
  BY <1>2, <1>3, <1>4, LiesOn
<1>8. /\ g + 1 \in 1..Len(Messages) /\ m \in HttpMessage /\ m.mode = "chunked"
      /\ Len(m.chunks) \in Nat /\ c \in 0..Len(m.chunks)
      /\ c = 0 => x >= 2
      /\ v_body = Cat(m)[c] /\ q = Pos(m)[c + 1] + x - 2
      /\ line = LineTo(size, x)
      /\ timed => i = IF c = 0 THEN x - 2 ELSE x
  BY <1>6 DEF LineAt
<1>9. c + 1 \in 1..(Len(m.chunks) + 1)
  BY <1>8
<1>10. size \in Nat /\ Pos(m)[c + 1] \in Nat
  BY <1>8, <1>9, ChunkFits
<1>11. /\ wire[1] = LineByte(size, x)
       /\ q + 1 >= Needed(m) => g < sent
  <2> HIDE DEF g
  <2> QED
    BY <1>2, <1>3, <1>4, <1>6, LineAhead
<1>12. /\ x < 4 => line' = LineTo(size, x + 1) /\ ~ IsSuffix(CrLf, line')
       /\ x = 4 => IsSuffix(CrLf, line') /\ Number(line') = size
  <2>1. line' = WithoutBreak(Append(LineTo(size, x), wire[1]))
    BY <1>1, <1>8
  <2> HIDE DEF size
  <2> QED
    BY <1>10, <1>11, <2>1, LineNext
<1>13. CASE x < 4
  <2>1. LineTurn
    BY <1>12, <1>13 DEF ReadLine
  <2>2. i + 1 # LineTurns
    <3> SUFFICES ASSUME i + 1 = LineTurns PROVE FALSE
      OBVIOUS
    <3>1. spent'
      BY <2>1 DEF LineTurn
    <3>2. timed
      BY <1>3, <3>1 DEF Garbled
    <3>3. (i = x - 2 \/ i = x) /\ x < 4 /\ x \in Nat
      BY <1>8, <1>13, <3>2
    <3> QED
      BY <3>3, Constants
  <2>3. UNCHANGED <<got, rpc, v_body>> /\ i' = i + 1
    BY <2>1, <2>2 DEF LineTurn
  <2>4. x + 1 \in 0..4 /\ (c = 0 => x + 1 >= 2) /\ q + 1 = Pos(m)[c + 1] + (x + 1) - 2
    <3>1. x + 1 \in 0..4
      BY <1>13
    <3>2. c = 0 => x + 1 >= 2
      BY <1>8
    <3> DEFINE p == Pos(m)[c + 1]
    <3>3. p \in Nat /\ q = p + x - 2
      BY <1>8, <1>10
    <3> HIDE DEF p
    <3>4. q + 1 = p + (x + 1) - 2
      BY <3>3
    <3> QED
      BY <3>1, <3>2, <3>4 DEF p
  <2>5. timed => i + 1 = IF c = 0 THEN (x + 1) - 2 ELSE x + 1
    <3>1. CASE c = 0
      BY <1>8, <3>1
    <3>2. CASE c # 0
      BY <1>8, <3>2
    <3> QED
      BY <3>1, <3>2
  <2>6. LineAt(g, q + 1, c, x + 1, v_body, line', i + 1, timed)
    BY <1>8, <1>12, <1>13, <2>4, <2>5 DEF LineAt
  <2>7. OfLine(g, q + 1, v_body, line', i + 1, timed)
    <3> HIDE DEF g
    <3> QED
      BY <2>6, LineOf
  <2>8. OfLine(g, q + 1, v_body', line', i', timed')
    BY <1>3, <2>3, <2>7
  <2>9. Inside(Len(got), q + 1)'
    BY <1>1, <2>3, <2>8 DEF Inside
  <2>10. Placed(Len(got))'
    BY <1>7, <2>3, <2>9 DEF Placed
  <2> QED
    BY <1>1, <1>3, <2>3, <2>10, StillSteady
<1>14. CASE x = 4
  <2>1. IsSuffix(CrLf, line') /\ Number(line') = size
    BY <1>12, <1>14
  <2>2. CASE size > 0
    <3>1. rpc' = "chunk" /\ iChunckLength' = size /\ chunckData' = <<>>
          /\ UNCHANGED <<got, v_body>>
      <4> HIDE DEF size
      <4> QED
        BY <2>1, <2>2 DEF ReadLine
    <3>2. c + 1 \in 1..Len(m.chunks) /\ ChunkAt(m, c + 1) = m.chunks[c + 1]
      <4>1. c + 1 <= Len(m.chunks)
        <5> SUFFICES ASSUME ~ (c + 1 <= Len(m.chunks)) PROVE FALSE
          OBVIOUS
        <5>1. ChunkAt(m, c + 1) = <<>>
          BY DEF ChunkAt
        <5> QED
          BY <2>2, <5>1
      <4> QED
        BY <1>8, <4>1 DEF ChunkAt
    <3>3. OfChunk(g, q + 1, v_body, size, <<>>)
      <4> DEFINE d == c + 1
                 p == Pos(m)[d]
      <4>1. d \in 1..Len(m.chunks) /\ d - 1 = c /\ size = Len(m.chunks[d])
        BY <1>8, <3>2
      <4>2. q + 1 = p + 3 + Len(<<>>)
        <5>1. p \in Nat /\ q = p + 4 - 2 /\ Len(<<>>) = 0
          BY <1>8, <1>10, <1>14
        <5> HIDE DEF p
        <5> QED
          BY <5>1
      <4>3. v_body = Cat(m)[d - 1]
        BY <1>8, <4>1
      <4>4. \A j \in 1..Len(<<>>) : <<>>[j] = m.chunks[d][j]
        BY EmptyBytes
      <4> HIDE DEF d, size, g
      <4> QED
        BY <1>8, <4>1, <4>2, <4>3, <4>4 DEF OfChunk
    <3>4. OfChunk(g, q + 1, v_body', iChunckLength', chunckData')
      BY <3>1, <3>3
    <3>5. Inside(Len(got), q + 1)'
      BY <3>1, <3>4 DEF Inside
    <3>6. Placed(Len(got))'
      BY <1>7, <3>1, <3>5 DEF Placed
    <3> QED
      BY <1>3, <3>1, <3>6, StillSteady
  <2>3. CASE ~ (size > 0)
    <3>1. rpc' = "idle" /\ got' = Append(got, v_body)
      <4> HIDE DEF size
      <4> QED
        BY <2>1, <2>3 DEF ReadLine, Return
    <3>2. size = 0
      <4> HIDE DEF size
      <4> QED
        BY <1>10, <2>3
    <3>3. /\ v_body = Body(m) /\ Body(m) \in Seq(Byte)
          /\ q + 1 = Needed(m) /\ (q + 1) - Len(Frame(m)) = 0 - 2
      <4>1. LineAt(g, q, c, 4, v_body, line, i, timed)
        BY <1>6, <1>14
      <4> HIDE DEF g
      <4> QED
        BY <3>2, <4>1, LineLast
    <3>4. g < sent
      <4>1. Needed(m) \in Nat
        BY <1>8, FrameType
      <4> QED
        BY <1>11, <3>3, <4>1
    <3>5. Lies(g + 1, 0 - 2, wire', sent', peer', pipelines')
      BY <1>7, <3>3, <3>4
    <3>6. Begins(g + 1, 0 - 2)
      BY <1>2, <1>8 DEF Begins
    <3>7. g = Len(got) /\ 0 - 2 \in Int /\ v_body \in Seq(Byte) /\ v_body = Body(Messages[g + 1])
      BY <3>3
    <3> HIDE DEF g
    <3> QED
      BY <1>3, <3>1, <3>4, <3>5, <3>6, <3>7, NextSteady
  <2> QED
    BY <2>2, <2>3
<1> QED
  BY <1>13, <1>14

(* The data u of the c-th chunk are read, q bytes behind the frame's start. *)
ChunkUpTo(g, q, c, body, k, u) ==
  LET m == Messages[g + 1] IN
  /\ g + 1 \in 1..Len(Messages) /\ m \in HttpMessage /\ m.mode = "chunked"
  /\ c \in 1..Len(m.chunks) /\ body = Cat(m)[c - 1]
  /\ u \in Seq(Byte) /\ Len(u) \in Nat
  /\ k = Len(m.chunks[c]) /\ Len(u) <= k
  /\ q = Pos(m)[c] + 3 + Len(u)
  /\ \A j \in 1..Len(u) : u[j] = m.chunks[c][j]

(* What is read of a chunk is the chunk, as far as it goes.                  *)
LEMMA ChunkGrows ==
  ASSUME NEW w \in Seq(Byte), NEW s \in 0..Len(Messages), NEW g \in 0..s, NEW pr, NEW pp,
         NEW q \in Int, Lies(g, q, w, s, pr, pp), NEW body, NEW k \in Nat, NEW data \in Seq(Byte),
         OfChunk(g, q, body, k, data), NEW n \in 1..Len(w), n <= k - Len(data),
         NEW u, u = data \o SubSeq(w, 1, n)
  PROVE  \E c \in Nat : ChunkUpTo(g, q + n, c, body, k, u)
<1> DEFINE m == Messages[g + 1]
           a == Len(data)
           l == Len(u)
           f == Len(Frame(m))
           v == SubSeq(w, 1, n)
<1>1. g + 1 \in 1..Len(Messages) /\ m.mode = "chunked"
  BY DEF OfChunk
<1>2. m \in HttpMessage
  BY <1>1, MessagesAre
<1>3. PICK c \in 1..Len(m.chunks) :
       /\ body = Cat(m)[c - 1]
       /\ k = Len(m.chunks[c])
       /\ q = Pos(m)[c] + 3 + a
       /\ \A j \in 1..a : data[j] = m.chunks[c][j]
  BY DEF OfChunk
<1> DEFINE e == m.chunks[c]
           p == Pos(m)[c]
<1>4. e \in Seq(Byte) /\ Len(m.chunks) \in Nat
  BY <1>2, <1>3, DataAreBytes
<1>5. c \in Nat /\ c \in 1..(Len(m.chunks) + 1) /\ ChunkAt(m, c) = e
  BY <1>3, <1>4 DEF ChunkAt
<1>6. p \in Nat /\ p + 5 + k <= f
  BY <1>1, <1>2, <1>3, <1>5, ChunkFits
<1>7. \A j \in 1..(5 + k) : Frame(m)[p + j] = Chunk(e)[j]
  <2>1. Laid(m, Pos(m), Cat(m))
    BY <1>1, <1>2, Layout
  <2>2. \A j \in 1..(5 + Len(ChunkAt(m, c))) : Frame(m)[p + j] = Chunk(ChunkAt(m, c))[j]
    BY <1>5, <2>1 DEF Laid
  <2> QED
    BY <1>3, <1>5, <2>2
<1>8. \A j \in 1..k : Chunk(e)[3 + j] = e[j]
  BY <1>3, <1>4, ChunkParts
<1>9. v \in Seq(Byte) /\ Len(v) = n /\ \A j \in 1..n : v[j] = w[j]
  BY Taken
<1>10. u \in Seq(Byte) /\ Joins(u, data, v)
  BY <1>9, Joined
<1>11. /\ l = a + n /\ a \in Nat /\ n \in Nat
       /\ \A j \in 1..a : u[j] = data[j]
       /\ \A j \in 1..n : u[a + j] = v[j]
  BY <1>9, <1>10 DEF Joins
<1>12. f \in Nat
  BY <1>2, FrameType
<1>13. q \in Nat
  <2>1. q = p + 3 + a
    BY <1>3
  <2>2. p \in Nat /\ a \in Nat
    BY <1>6, <1>11
  <2> HIDE DEF p, a
  <2> QED
    BY <2>1, <2>2
<1>14. \A j \in 1..n : q + j <= f => w[j] = Frame(m)[q + j]
  BY <1>13, LiesAhead
<1>15. q = p + 3 + a /\ n <= k - a
  BY <1>3
<1>16. \A j \in 1..a : data[j] = e[j]
  BY <1>3
<1> HIDE DEF a, l, f, v, e, p, m
<1>17. l <= k /\ q + n = p + 3 + l /\ l \in Nat
  BY <1>6, <1>11, <1>15
<1>18. ASSUME NEW j \in 1..l PROVE u[j] = e[j]
  <2>1. CASE j <= a
    <3>1. j \in 1..a
      BY <1>11, <2>1
    <3> QED
      BY <1>11, <1>16, <3>1
  <2>2. CASE ~ (j <= a)
    <3> DEFINE x == j - a
    <3>1. x \in 1..n /\ j = a + x /\ q + x = p + (3 + j) /\ q + x <= f /\ j \in 1..k /\ 3 + j \in 1..(5 + k)
      BY <1>6, <1>11, <1>12, <1>15, <1>17, <2>2
    <3> HIDE DEF x
    <3>2. u[a + x] = v[x] /\ v[x] = w[x] /\ w[x] = Frame(m)[q + x]
      BY <1>9, <1>11, <1>14, <3>1
    <3>3. Frame(m)[p + (3 + j)] = Chunk(e)[3 + j] /\ Chunk(e)[3 + j] = e[j]
      BY <1>7, <1>8, <3>1
    <3> QED
      BY <3>1, <3>2, <3>3
  <2> QED
    BY <2>1, <2>2
<1>19. ChunkUpTo(g, q + n, c, body, k, u)
  BY <1>1, <1>2, <1>3, <1>10, <1>17, <1>18 DEF ChunkUpTo, l, e, p, m
<1> QED
  BY <1>5, <1>19

(* A chunk that is read is followed by its line break, and the next one.    *)
LEMMA ChunkDone ==
  ASSUME NEW g, NEW q, NEW c, NEW body, NEW k \in Nat, NEW u, NEW tm,
         ChunkUpTo(g, q, c, body, k, u), Len(u) >= k
  PROVE  OfLine(g, q, body \o u, <<>>, 0, tm)
<1> DEFINE m == Messages[g + 1]
           e == m.chunks[c]
           l == Len(u)
           p == Pos(m)[c]
           o == Pos(m)[c + 1]
<1>1. /\ g + 1 \in 1..Len(Messages) /\ m \in HttpMessage /\ m.mode = "chunked"
      /\ c \in 1..Len(m.chunks) /\ body = Cat(m)[c - 1]
      /\ u \in Seq(Byte) /\ l \in Nat
      /\ k = Len(e) /\ l <= k
      /\ q = p + 3 + l
      /\ \A j \in 1..l : u[j] = e[j]
  BY DEF ChunkUpTo
<1>2. l = k
  <2> HIDE DEF l
  <2>1. l >= k
    BY DEF l
  <2> QED
    BY <1>1, <2>1
<1>3. Len(m.chunks) \in Nat /\ e \in Seq(Byte)
  BY <1>1, DataAreBytes
<1>4. u = e
  BY <1>1, <1>2, <1>3, SeqEqual
<1>5. Laid(m, Pos(m), Cat(m))
  BY <1>1, Layout
<1>6. Cat(m)[c] = Cat(m)[c - 1] \o e /\ o = p + 5 + k
  BY <1>1, <1>5 DEF Laid, Sums
<1>7. body \o u = Cat(m)[c]
  BY <1>1, <1>4, <1>6
<1>8. c \in 0..Len(m.chunks) /\ c # 0 /\ 0 \in 0..4 /\ c \in 1..(Len(m.chunks) + 1)
  BY <1>1, <1>3
<1>9. p \in Nat
  BY <1>1, <1>8, ChunkFits
<1>10. q = o + 0 - 2
  <2>1. q = p + 3 + l /\ o = p + 5 + k
    BY <1>1, <1>6
  <2> HIDE DEF l, p, o
  <2> QED
    BY <1>2, <1>9, <2>1
<1>11. LineTo(Len(ChunkAt(m, c + 1)), 0) = <<>>
  BY DEF LineTo
<1>12. LineAt(g, q, c, 0, body \o u, <<>>, 0, tm)
  <2>1. tm => 0 = IF c = 0 THEN 0 - 2 ELSE 0
    BY <1>8
  <2> HIDE DEF m
  <2>2. c = 0 => 0 >= 2
    BY <1>8
  <2> QED
    BY <1>1, <1>3, <1>7, <1>8, <1>10, <1>11, <2>1, <2>2 DEF LineAt, m
<1> QED
  BY <1>12, LineOf

(* ReadChunk ends where the chunk ends.                                      *)
LEMMA SteadyReadChunk ==
  ASSUME HttpType, Steady, ReadChunk
  PROVE  Steady'
<1> DEFINE g == Len(got)
           k == iChunckLength
           u == chunckData'
<1>1. PICK n \in 1..Len(wire) : /\ Receives(n, k - Len(chunckData))
                                /\ u = chunckData \o SubSeq(wire, 1, n)
  BY DEF ReadChunk
<1>2. /\ rpc = "chunk" /\ UNCHANGED <<got, ret>>
      /\ Len(u) >= k => /\ v_body' = v_body \o u
                        /\ rpc' = "line" /\ i' = 0 /\ line' = <<>>
      /\ ~ (Len(u) >= k) => UNCHANGED <<rpc, v_body, iChunckLength>>
  BY DEF ReadChunk, history
<1>3. /\ g \in 0..sent /\ g \in Nat /\ sent \in 0..Len(Messages)
      /\ wire \in Seq(Byte) /\ chunckData \in Seq(Byte) /\ k \in Nat
  BY Counts DEF HttpType
<1>4. /\ wire' = SubSeq(wire, n + 1, Len(wire)) /\ n <= k - Len(chunckData)
      /\ UNCHANGED <<sent, peer, pipelines, broken, timed>> /\ ~ broken
  BY <1>1, <1>3, Takes
<1>5. PICK q \in Int : Lies(g, q, wire, sent, peer, pipelines) /\ Inside(g, q)
  BY <1>2, <1>4, Position
<1>6. OfChunk(g, q, v_body, k, chunckData)
  BY <1>2, <1>5 DEF Inside
<1>7. PICK c \in Nat : ChunkUpTo(g, q + n, c, v_body, k, u)
  <2> HIDE DEF g, k, u
  <2> QED
    BY <1>1, <1>3, <1>4, <1>5, <1>6, ChunkGrows
<1>8. Lies(g, q + n, wire', sent', peer', pipelines')
  BY <1>3, <1>4, <1>5, LiesOn
<1>9. Inside(Len(got), q + n)'
  <2>1. CASE Len(u) >= k
    <3>1. OfLine(g, q + n, v_body \o u, <<>>, 0, timed)
      <4> HIDE DEF g, k, u
      <4> QED
        BY <1>3, <1>7, <2>1, ChunkDone
    <3>2. OfLine(g, q + n, v_body', line', i', timed')
      BY <1>2, <1>4, <2>1, <3>1
    <3> QED
      BY <1>2, <2>1, <3>2 DEF Inside
  <2>2. CASE ~ (Len(u) >= k)
    <3>1. OfChunk(g, q + n, v_body, k, u)
      <4> HIDE DEF g, k, u
      <4> QED
        BY <1>7 DEF ChunkUpTo, OfChunk
    <3>2. OfChunk(g, q + n, v_body', iChunckLength', chunckData')
      BY <1>2, <2>2, <3>1
    <3> QED
      BY <1>2, <2>2, <3>2 DEF Inside
  <2> QED
    BY <2>1, <2>2
<1>10. Placed(Len(got))'
  BY <1>2, <1>8, <1>9 DEF Placed
<1>11. rpc' # "closed"
  BY <1>2
<1> QED
  BY <1>2, <1>4, <1>10, <1>11, StillSteady
-----------------------------------------------------------------------------
(***************************************************************************)
(* The theorems                                                              *)
(***************************************************************************)

(* Two numbers whose sum is 0.                                               *)
LEMMA Negative ==
  ASSUME NEW x \in Int, NEW y \in Int, x + y = 0
  PROVE  x = - y
OBVIOUS

(* The invariant holds at first ...                                          *)
LEMMA HttpInitInv ==
  ASSUME Init
  PROVE  HttpInv
<1> USE DEF Init
<1>1. HttpType
  <2>1. 0 \in 0..Len(Messages) /\ <<>> \in Seq(Byte) /\ <<>> \in Seq(Seq(Byte))
    BY Constants, EmptyBytes, EmptySeq
  <2> QED
    BY <2>1 DEF HttpType
<1>2. Lies(0, 0, wire, sent, peer, pipelines)
  <2> DEFINE at == [k \in Int |-> 0]
  <2>1. at \in [Int -> Int] /\ at[0 + 1] = 0 /\ at[1] = 0
    OBVIOUS
  <2> HIDE DEF at
  <2>2. FramesAt(at, <<>>, 0, 0)
    <3>1. \A k \in First(0)..0 : FALSE
      BY DEF First
    <3> QED
      BY <3>1 DEF FramesAt
  <2>3. EndsAt(at[0 + 1], <<>>, 0, 0, "open", pipelines)
    <3>1. Len(<<>>) = 0
      BY EmptyBytes
    <3>2. 0 < Len(Messages) => Len(<<>>) < 0 + Needed(Messages[0 + 1])
      <4> SUFFICES ASSUME 0 < Len(Messages) PROVE Len(<<>>) < 0 + Needed(Messages[0 + 1])
        OBVIOUS
      <4>1. 0 + 1 \in 1..Len(Messages)
        BY Constants
      <4> DEFINE r == Needed(Messages[0 + 1])
      <4>2. r \in Nat /\ 5 <= r
        BY <4>1, MessagesAre, FrameType
      <4> HIDE DEF r
      <4>3. Len(<<>>) < 0 + r
        BY <3>1, <4>2
      <4> QED
        BY <4>3 DEF r
    <3>3. Along(0, <<>>, Frame(Messages[0 + 1]))
      <4>1. \A j \in 1..Len(Frame(Messages[0 + 1])) : ~ (0 + j \in 1..Len(<<>>))
        BY <3>1
      <4> QED
        BY <4>1 DEF Along
    <3> QED
      BY <2>1, <3>1, <3>2, <3>3 DEF EndsAt
  <2>4. Stream(at, <<>>, 0, 0, "open", pipelines)
    BY <2>2, <2>3 DEF Stream
  <2>5. ASSUME NEW x \in 0..0 PROVE Lies(0, x, <<>>, 0, "open", pipelines)
    <3> DEFINE z == at[0 + 1]
    <3>1. z = 0 /\ z \in Int
      BY <2>1
    <3>2. x = 0 /\ x \in Int
      OBVIOUS
    <3> HIDE DEF z
    <3>3. z + x = 0
      BY <3>1, <3>2
    <3>4. z = - x
      BY <3>1, <3>2, <3>3, Negative, Zenon
    <3> QED
      BY <2>1, <2>4, <3>4 DEF Lies, z
  <2> QED
    BY <2>5
<1>3. Inside(0, 0)
  BY DEF Inside, Begins
<1>4. Placed(0)
  BY <1>2, <1>3 DEF Placed
<1>5. Len(got) = 0
  BY EmptyBytes
<1>6. Steady
  <2>1. Placed(Len(got))
    BY <1>4, <1>5
  <2>2. \A k \in 1..Len(got) : got[k] = Body(Messages[k])
    BY <1>5
  <2> QED
    BY <1>5, <2>1, <2>2 DEF Steady
<1> QED
  BY <1>1, <1>6 DEF HttpInv

(* ... every step of a reader that has not gone astray keeps its place ...   *)
LEMMA SteadyStep ==
  ASSUME HttpType, Steady, [Next]_vars, ~ Garbled'
  PROVE  Steady'
<1>1. CASE Send
  BY <1>1, SteadySend
<1>2. CASE PeerCloses
  BY <1>2, SteadyPeerCloses
<1>3. CASE Reset
  BY <1>3, SteadyReset
<1>4. CASE Read
  BY <1>4, SteadyRead
<1>5. CASE ReadError \/ SelectError
  BY <1>5, SteadyError
<1>6. CASE ReadZero
  BY <1>6, SteadyZero
<1>7. CASE ReadHead
  BY <1>7, SteadyReadHead
<1>8. CASE ReadLength
  BY <1>8, SteadyReadLength
<1>9. CASE ReadLine
  BY <1>9, SteadyReadLine
<1>10. CASE ReadChunk
  BY <1>10, SteadyReadChunk
<1>11. CASE SelectTimeout
  BY <1>11, SteadyTimeout
<1>12. CASE Again
  BY <1>12, SteadyAgain
<1>13. CASE UNCHANGED vars
  <2>1. UNCHANGED <<got, sent, pipelines, rpc, ret, peer, broken, wire>>
    BY <1>13 DEF vars, conn, history
  <2>2. ASSUME rpc' # "closed", ~ broken' PROVE Placed(Len(got))'
    <3>1. PICK q \in Int : Lies(Len(got), q, wire, sent, peer, pipelines) /\ Inside(Len(got), q)
      BY <2>1, <2>2, Position
    <3>2. Inside(Len(got), q)'
      BY <1>13, <2>1, <3>1, InsideStays DEF vars
    <3> QED
      BY <2>1, <3>1, <3>2 DEF Placed
  <2> QED
    BY <2>1, <2>2, StillSteady DEF Steady
<1> QED
  BY <1>1, <1>2, <1>3, <1>4, <1>5, <1>6, <1>7, <1>8, <1>9, <1>10, <1>11, <1>12, <1>13
     DEF Next, ReaderStep, ReadData

(* ... and every step keeps the invariant.                                   *)
LEMMA HttpStep ==
  ASSUME HttpInv, [Next]_vars
  PROVE  HttpInv'
<1>1. HttpType'
  BY TypeStep DEF HttpInv
<1>2. ASSUME ~ Garbled' PROVE Steady'
  <2>1. ~ Garbled
    BY <1>2, GarbledStays
  <2> QED
    BY <1>2, <2>1, SteadyStep DEF HttpInv
<1> QED
  BY <1>1, <1>2 DEF HttpInv

(* The inductive invariant: the types, and the reader's place in the stream. *)
THEOREM HttpInvariant == Spec => []HttpInv
BY HttpInitInv, HttpStep, PTL DEF Spec

(* The type invariant of http::read(): the turns of its loops stay below     *)
(* their limits, and what is read of a body below its length.                *)
THEOREM HttpTypes == Spec => []TypeOK
<1>1. HttpInv => TypeOK
  BY DEF HttpInv, HttpType, TypeOK
<1> QED
  BY <1>1, HttpInvariant, PTL

(* What was sent.                                                           *)
LEMMA BodiesAre ==
  ASSUME NEW n \in 0..Len(Messages)
  PROVE  /\ SubSeq(Bodies, 1, n) \in Seq(Seq(Byte)) /\ Len(SubSeq(Bodies, 1, n)) = n
         /\ \A k \in 1..n : SubSeq(Bodies, 1, n)[k] = Body(Messages[k])
         /\ Len(Bodies) = Len(Messages)
<1>1. Len(Messages) \in Nat
  BY Constants
<1>2. \A k \in 1..Len(Messages) : Body(Messages[k]) \in Seq(Byte)
  BY MessagesAre, BodyType
<1> DEFINE S == Seq(Byte)
<1>3. /\ Bodies \in Seq(S) /\ Len(Bodies) = Len(Messages)
      /\ \A k \in 1..Len(Messages) : Bodies[k] = Body(Messages[k])
  <2> HIDE DEF S
  <2>1. \A k \in 1..Len(Messages) : Body(Messages[k]) \in S
    BY <1>2 DEF S
  <2> QED
    BY <1>1, <2>1 DEF Bodies
<1> HIDE DEF S
<1> DEFINE v == SubSeq(Bodies, 1, n)
<1>4. v \in Seq(S) /\ Len(v) = n /\ \A k \in 1..n : v[k] = Bodies[k]
  BY <1>1, <1>3
<1> QED
  BY <1>1, <1>3, <1>4 DEF S

(* The bodies that http::read() returns are those that were sent, whole and  *)
(* in order, however ::read() cuts the stream, unless the reader is garbled. *)
THEOREM HttpInOrder == Spec => []InOrder
<1>1. ASSUME HttpInv PROVE InOrder
  <2> SUFFICES ASSUME ~ Garbled PROVE IsPrefix(got, Bodies)
    BY DEF InOrder
  <2>1. HttpType /\ Steady
    BY <1>1 DEF HttpInv
  <2>2. /\ Len(got) \in Nat /\ Len(got) \in 0..sent /\ sent \in 0..Len(Messages)
        /\ sent \in Nat /\ Len(Messages) \in Nat /\ got \in Seq(Seq(Byte))
    BY <2>1, Counts
  <2>3. Len(got) \in 0..Len(Messages)
    BY <2>2
  <2> DEFINE v == SubSeq(Bodies, 1, Len(got))
  <2>4. /\ v \in Seq(Seq(Byte)) /\ Len(v) = Len(got)
        /\ \A k \in 1..Len(got) : v[k] = Body(Messages[k])
        /\ Len(Bodies) = Len(Messages)
    BY <2>3, BodiesAre
  <2>5. \A k \in 1..Len(got) : got[k] = Body(Messages[k])
    BY <2>1 DEF Steady
  <2>6. got = v
    <3> HIDE DEF v
    <3> QED
      BY <2>2, <2>4, <2>5, SeqEqual
  <2>7. SubSeq(got, 1, Len(got)) = got
    BY <2>2
  <2> QED
    BY <2>2, <2>4, <2>6, <2>7 DEF IsPrefix
<1> QED
  BY <1>1, HttpInvariant, PTL

(* What a step of the reader gives its caller.                              *)
LEMMA Outcome ==
  ASSUME HttpType, HttpType',
         ReadHead \/ ReadLength \/ ReadLine \/ ReadChunk \/ Again
  PROVE  /\ rpc # "closed" /\ UNCHANGED sent
         /\ \/ got' = got /\ rpc' # "closed"
            \/ got' = got /\ rpc' = "closed" /\ ret' = "PROTOCOL"
            \/ rpc' # "closed" /\ \E b \in Seq(Byte) : got' = Append(got, b)
<1>1. v_body \in Seq(Byte) /\ v_body' \in Seq(Byte) /\ <<>> \in Seq(Byte)
  BY EmptyBytes DEF HttpType
<1>2. CASE ReadHead
  <2>1. rpc = "head" /\ UNCHANGED sent
    BY <1>2 DEF ReadHead, Receives
  <2>2. CASE IsSuffix(CrLf \o CrLf, v_head')
    <3>1. CASE i >= HeadTurns - 1
      BY <1>2, <2>1, <2>2, <3>1 DEF ReadHead, Return
    <3>2. CASE ~ (i >= HeadTurns - 1)
      <4>1. ReadInLengthMode(v_head') \/ ReadInChunkMode(v_head') \/ ModeError(v_head')
        BY <1>2, <2>2, <3>2 DEF ReadHead
      <4>2. CASE ReadInLengthMode(v_head')
        <5> DEFINE n == v_head'[Min(Found(v_head', "length"))][2]
        <5>1. IF n = 0 THEN Return("SMOOTH") /\ got' = Append(got, <<>>)
              ELSE rpc' = "length" /\ UNCHANGED <<ret, got>>
          BY <4>2 DEF ReadInLengthMode
        <5> HIDE DEF n
        <5>2. CASE n = 0
          <6>1. rpc' # "closed" /\ got' = Append(got, <<>>)
            BY <5>1, <5>2 DEF Return
          <6> QED
            BY <1>1, <2>1, <6>1
        <5>3. CASE n # 0
          BY <2>1, <5>1, <5>3
        <5> QED
          BY <5>2, <5>3
      <4>3. CASE ReadInChunkMode(v_head')
        BY <2>1, <4>3 DEF ReadInChunkMode
      <4>4. CASE ModeError(v_head')
        BY <2>1, <4>4 DEF ModeError, Return
      <4> QED
        BY <4>1, <4>2, <4>3, <4>4
    <3> QED
      BY <3>1, <3>2
  <2>3. CASE ~ IsSuffix(CrLf \o CrLf, v_head')
    BY <1>2, <2>1, <2>3 DEF ReadHead, HeadTurn, Return
  <2> QED
    BY <2>2, <2>3
<1>3. CASE ReadLength
  BY <1>1, <1>3 DEF ReadLength, Receives, Return
<1>4. CASE ReadLine
  BY <1>1, <1>4 DEF ReadLine, Receives, LineTurn, Return
<1>5. CASE ReadChunk
  BY <1>5 DEF ReadChunk, Receives, history
<1>6. CASE Again
  BY <1>1, <1>6 DEF Again, HeadTurn, LineTurn, Return, conn
<1> QED
  BY <1>2, <1>3, <1>4, <1>5, <1>6

(* Every step of http::read() and of the peer is a step of the channel.      *)
LEMMA HttpChannelStep ==
  ASSUME HttpInv, HttpInv', [Next]_vars
  PROVE  [Channel!ChannelNext]_(Channel!channel)
<1> DEFINE status == IF rpc # "closed" THEN "open" ELSE IF ret = "CLOSE" THEN "closed" ELSE "failed"
           written == SubSeq(Bodies, 1, sent)
<1>1. CASE Garbled'
  BY <1>1 DEF Channel!ChannelNext, Channel!Garbled
<1>2. CASE ~ Garbled'
  <2>1. ~ Garbled /\ Garbled' = Garbled
    BY <1>2, GarbledStays DEF Garbled
  <2>2. HttpType /\ Steady /\ HttpType' /\ Steady'
    BY <1>2, <2>1 DEF HttpInv
  <2>3. /\ Len(got) \in Nat /\ sent \in 0..Len(Messages) /\ sent' \in 0..Len(Messages)
        /\ sent \in Nat /\ got \in Seq(Seq(Byte)) /\ Len(got) <= sent
    BY <2>2, Counts DEF HttpType, Steady
  <2>4. /\ written \in Seq(Seq(Byte)) /\ Len(written) = sent
        /\ \A k \in 1..sent : written[k] = Body(Messages[k])
    BY <2>3, BodiesAre
  <2>5. ASSUME UNCHANGED <<sent, got>>,
               (rpc' = rpc /\ ret' = ret) \/ (rpc # "closed" /\ rpc' # "closed")
        PROVE  UNCHANGED Channel!channel
    <3>1. status' = status
      BY <2>5
    <3>2. written' = written
      BY <2>5 DEF Bodies
    <3> QED
      BY <2>1, <2>5, <3>1, <3>2 DEF Channel!channel
  <2>6. ASSUME UNCHANGED <<sent, got>>, rpc # "closed", rpc' = "closed", ret' \in {"ERROR", "PROTOCOL"}
        PROVE  Channel!GiveUp
    <3>1. written' = written
      BY <2>6 DEF Bodies
    <3> QED
      BY <2>1, <2>6, <3>1 DEF Channel!GiveUp
  <2>7. ASSUME UNCHANGED sent, NEW b \in Seq(Byte), got' = Append(got, b),
               rpc # "closed", rpc' # "closed"
        PROVE  Channel!Return
    <3>1. Len(got') = Len(got) + 1 /\ got'[Len(got) + 1] = b
      BY <2>3, <2>7, Appended
    <3>2. Len(got) < sent
      <4>1. Len(got') <= sent'
        BY <2>2 DEF Steady
      <4> QED
        BY <2>3, <2>7, <3>1, <4>1
    <3>3. b = Body(Messages[Len(got) + 1])
      <4>1. Len(got) + 1 \in 1..Len(got')
        BY <2>3, <3>1
      <4> QED
        BY <2>2, <3>1, <4>1 DEF Steady
    <3>4. Len(got) < Len(written) /\ written[Len(got) + 1] = b
      BY <2>3, <2>4, <3>2, <3>3
    <3>5. written' = written
      BY <2>7 DEF Bodies
    <3> HIDE DEF written
    <3>6. got' = Append(got, written[Len(got) + 1])
      BY <2>7, <3>4
    <3> QED
      BY <2>1, <2>7, <3>4, <3>5, <3>6 DEF Channel!Return, written
  <2>8. ASSUME peer = "open", sent' = sent + 1, UNCHANGED <<got, rpc, ret>>
        PROVE  Channel!Write
    <3>1. status # "closed" /\ status' = status
      BY <2>2, <2>8 DEF Steady
    <3>2. /\ written' \in Seq(Seq(Byte)) /\ Len(written') = sent + 1
          /\ \A k \in 1..(sent + 1) : written'[k] = Body(Messages[k])
      <4>1. sent + 1 \in 0..Len(Messages)
        BY <2>3, <2>8
      <4>2. /\ SubSeq(Bodies, 1, sent + 1) \in Seq(Seq(Byte)) /\ Len(SubSeq(Bodies, 1, sent + 1)) = sent + 1
            /\ \A k \in 1..(sent + 1) : SubSeq(Bodies, 1, sent + 1)[k] = Body(Messages[k])
        BY <4>1, BodiesAre
      <4>3. written' = SubSeq(Bodies, 1, sent + 1)
        BY <2>8 DEF Bodies
      <4> QED
        BY <4>2, <4>3
    <3> DEFINE b == Body(Messages[sent + 1])
    <3>3. sent + 1 \in 1..Len(Messages) /\ b \in Seq(Byte)
      <4>1. sent + 1 \in 1..Len(Messages)
        BY <2>3, <2>8
      <4> QED
        BY <4>1, MessagesAre, BodyType
    <3>4. b \in {Bodies[k] : k \in DOMAIN Messages}
      <4>1. DOMAIN Messages = 1..Len(Messages)
        BY HttpAssumption
      <4>2. Bodies[sent + 1] = b
        BY <3>3 DEF Bodies
      <4> QED
        BY <3>3, <4>1, <4>2
    <3>5. written' = Append(written, b)
      <4> DEFINE u == Append(written, b)
      <4> HIDE DEF written, b
      <4>1. /\ u \in Seq(Seq(Byte)) /\ Len(u) = Len(written) + 1
            /\ \A j \in 1..Len(written) : u[j] = written[j]
            /\ u[Len(written) + 1] = b
        BY <2>4, <3>3, Appended
      <4> HIDE DEF u
      <4>2. ASSUME NEW j \in 1..Len(u) PROVE written'[j] = u[j]
        <5>1. j \in 1..sent \/ j = sent + 1
          BY <2>3, <2>4, <4>1
        <5>2. CASE j \in 1..sent
          BY <2>3, <2>4, <3>2, <4>1, <5>2
        <5>3. CASE j = sent + 1
          <6>1. j \in 1..(sent + 1)
            BY <2>3, <5>3
          <6> QED
            BY <2>4, <3>2, <4>1, <5>3, <6>1 DEF b
        <5> QED
          BY <5>1, <5>2, <5>3
      <4>3. Len(written') = Len(u)
        BY <2>4, <3>2, <4>1
      <4>4. written' = u
        BY <3>2, <4>1, <4>2, <4>3, SeqEqual
      <4> QED
        BY <4>4 DEF u
    <3> HIDE DEF b, written, status
    <3>6. \E m \in {Bodies[k] : k \in DOMAIN Messages} : written' = Append(written, m)
      BY <3>4, <3>5
    <3> QED
      BY <2>1, <2>8, <3>1, <3>6 DEF Channel!Write, written, status
  <2>9. CASE Send
    <3>1. peer = "open" /\ sent' = sent + 1 /\ UNCHANGED <<got, rpc, ret>>
      BY <2>9 DEF Send, PeerMaySend, history
    <3> QED
      BY <2>8, <3>1 DEF Channel!ChannelNext
  <2>10. CASE PeerCloses
    <3>1. peer = "open" /\ UNCHANGED <<got, rpc, ret>> /\ (sent' = sent \/ sent' = sent + 1)
      BY <2>10 DEF PeerCloses, history
    <3> QED
      BY <2>5, <2>8, <3>1 DEF Channel!ChannelNext
  <2>11. CASE Reset \/ Read
    BY <2>5, <2>11 DEF Reset, Read, conn, history
  <2>12. CASE SelectTimeout
    BY <2>5, <2>12 DEF SelectTimeout, Reading, Return, conn
  <2>13. CASE SelectError \/ ReadError
    BY <2>6, <2>13 DEF SelectError, ReadError, Reading, Return, conn, history, Channel!ChannelNext
  <2>14. CASE ReadZero
    <3>1. UNCHANGED <<sent, got>> /\ rpc # "closed" /\ rpc' = "closed" /\ ret' = "CLOSE"
      BY <2>14 DEF ReadZero, Reading, Return, conn, history
    <3>2. Len(got) = sent
      BY <2>2, <3>1 DEF Steady
    <3>3. got = written
      <4>1. \A k \in 1..Len(got) : got[k] = Body(Messages[k])
        BY <2>2 DEF Steady
      <4> HIDE DEF written
      <4> QED
        BY <2>3, <2>4, <3>2, <4>1, SeqEqual
    <3>4. written' = written
      BY <3>1 DEF Bodies
    <3>5. Channel!PeerClosed
      BY <2>1, <3>1, <3>3, <3>4 DEF Channel!PeerClosed
    <3> QED
      BY <3>5 DEF Channel!ChannelNext
  <2>15. CASE ReadHead \/ ReadLength \/ ReadLine \/ ReadChunk \/ Again
    <3>1. /\ rpc # "closed" /\ UNCHANGED sent
          /\ \/ got' = got /\ rpc' # "closed"
             \/ got' = got /\ rpc' = "closed" /\ ret' = "PROTOCOL"
             \/ rpc' # "closed" /\ \E b \in Seq(Byte) : got' = Append(got, b)
      BY <2>2, <2>15, Outcome
    <3>2. CASE got' = got /\ rpc' # "closed"
      BY <2>5, <3>1, <3>2
    <3>3. CASE got' = got /\ rpc' = "closed" /\ ret' = "PROTOCOL"
      BY <2>6, <3>1, <3>3 DEF Channel!ChannelNext
    <3>4. CASE rpc' # "closed" /\ \E b \in Seq(Byte) : got' = Append(got, b)
      BY <2>7, <3>1, <3>4 DEF Channel!ChannelNext
    <3> QED
      BY <3>1, <3>2, <3>3, <3>4
  <2>16. CASE UNCHANGED vars
    BY <2>5, <2>16 DEF vars, conn, history
  <2> QED
    BY <2>9, <2>10, <2>11, <2>12, <2>13, <2>14, <2>15, <2>16 DEF Next, ReaderStep, ReadData
<1> QED
  BY <1>1, <1>2

(* http::read() reads a channel of messages: whole, in order, none before it *)
(* was sent, and all of them when it is told of the peer's close.            *)
THEOREM HttpImplementsChannel == Spec => ImplementsChannel
<1>1. Init => Channel!ChannelInit
  <2> SUFFICES ASSUME Init PROVE Channel!ChannelInit
    OBVIOUS
  <2>1. 0 \in 0..Len(Messages)
    BY Constants
  <2>2. SubSeq(Bodies, 1, 0) \in Seq(Seq(Byte)) /\ Len(SubSeq(Bodies, 1, 0)) = 0
    BY <2>1, BodiesAre
  <2>3. SubSeq(Bodies, 1, 0) = <<>>
    BY <2>2, EmptySeq
  <2> QED
    BY <2>3 DEF Init, Garbled, Channel!ChannelInit
<1> QED
  BY <1>1, HttpInvariant, HttpChannelStep, PTL DEF Spec, ImplementsChannel, Channel!ChannelSpec
=============================================================================
