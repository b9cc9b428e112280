---------------------------- MODULE RepackerProofs ----------------------------
(***************************************************************************)
(* Proofs about the repacker, for any stream of NALs, any chunks that      *)
(* bring it and any pauses between units.  Where the stream is cut does    *)
(* not matter because three bytes look like a start code in it only where  *)
(* one is (PlacesOnly): what was taken determines what the buffer holds    *)
(* once k NALs are handled (Holds), and k determines what is written and   *)
(* pending (Written), up to the last unit, which is written early where    *)
(* no unit is cut.                                                         *)
(***************************************************************************)
EXTENDS Repacker, SequenceLemmas

-----------------------------------------------------------------------------
(* The stream *)

Byte == 0..255
N == Len(Nals)
Piece(n) == Code(Nals[n]) \o Nals[n].bytes

(* A NAL is a sequence of bytes, with no start code in it and no zero at   *)
(* its end.                                                                *)
Sealed(b) ==
  /\ b \in Seq(Byte) /\ Len(b) \in Nat /\ Len(b) >= 1 /\ b[Len(b)] # 0
  /\ ~\E i \in 1..Len(b) : i + 2 <= Len(b) /\ b[i] = 0 /\ b[i + 1] = 0 /\ b[i + 2] = 1

(* A start code, in terms of its three bytes.                              *)
LEMMA StartBytes ==
  ASSUME NEW b \in Seq(Byte), NEW i \in 1..Len(b)
  PROVE  IsStart(b, i) <=> i + 2 <= Len(b) /\ b[i] = 0 /\ b[i + 1] = 0 /\ b[i + 2] = 1
<1> DEFINE L == Len(b)
<1>1. L \in Nat
  BY LenProperties
<1> SUFFICES ASSUME i + 2 <= L
             PROVE  SubSeq(b, i, i + 2) = <<0, 0, 1>> <=> b[i] = 0 /\ b[i + 1] = 0 /\ b[i + 2] = 1
  BY DEF IsStart, StartCode
<1> DEFINE s == SubSeq(b, i, i + 2)
<1>2. s \in Seq(Byte) /\ Len(s) = 3 /\ s[1] = b[i] /\ s[2] = b[i + 1] /\ s[3] = b[i + 2]
  BY <1>1
<1> HIDE DEF s
<1>3. s = <<0, 0, 1>> <=> s[1] = 0 /\ s[2] = 0 /\ s[3] = 1
  <2>1. <<0, 0, 1>> \in Seq(Byte) /\ Len(<<0, 0, 1>>) = 3
    BY DEF Byte
  <2>2. 1..3 = {1, 2, 3}
    OBVIOUS
  <2>3. ASSUME s[1] = 0, s[2] = 0, s[3] = 1 PROVE s = <<0, 0, 1>>
    <3> DEFINE t == <<0, 0, 1>>
    <3>1. t \in Seq(Byte) /\ Len(t) = 3 /\ t[1] = 0 /\ t[2] = 0 /\ t[3] = 1
      BY <2>1
    <3> HIDE DEF t
    <3>2. \A x \in 1..Len(s) : s[x] = t[x]
      BY <1>2, <2>2, <2>3, <3>1
    <3>3. s = t
      BY <1>2, <3>1, <3>2, SeqEqual
    <3> QED  BY <3>3 DEF t
  <2> QED  BY <2>3
<1> QED  BY <1>2, <1>3 DEF s

LEMMA NalFacts ==
  /\ N \in Nat
  /\ \A n \in 1..N : /\ Nals[n].long \in BOOLEAN /\ Sealed(Nals[n].bytes)
                     /\ Code(Nals[n]) \in Seq(Byte) /\ Piece(n) \in Seq(Byte)
<1> DEFINE R == [long : BOOLEAN, bytes : Seq(Byte)]
<1>1. N \in Nat /\ \A n \in 1..N : Nals[n] \in R
  <2>1. Nals \in Seq(R)
    BY NalsAssumption DEF Byte
  <2> HIDE DEF R
  <2> QED  BY <2>1 DEF N
<1>2. ASSUME NEW n \in 1..N
      PROVE  /\ Nals[n].long \in BOOLEAN /\ Sealed(Nals[n].bytes)
             /\ Code(Nals[n]) \in Seq(Byte) /\ Piece(n) \in Seq(Byte)
  <2> DEFINE b == Nals[n].bytes
  <2>1. b \in Seq(Byte) /\ Nals[n].long \in BOOLEAN
    BY <1>1
  <2>2. b # <<>> /\ Last(b) # 0 /\ \A i \in 1..Len(b) : ~IsStart(b, i)
    <3>1. DOMAIN Nals = 1..N /\ DOMAIN b = 1..Len(b)
      BY <2>1, NalsAssumption DEF N
    <3>2. b # <<>> /\ Last(b) # 0 /\ ~\E i \in DOMAIN b : IsStart(b, i)
      <4> HIDE DEF b
      <4>1. \A k \in DOMAIN Nals : LET a == Nals[k].bytes IN
              a # <<>> /\ Last(a) # 0 /\ ~\E i \in DOMAIN a : IsStart(a, i)
        BY NalsAssumption
      <4>2. n \in DOMAIN Nals
        BY <3>1
      <4> QED  BY <4>1, <4>2, Zenon DEF b
    <3> QED  BY <3>1, <3>2
  <2>3. StartCode \in Seq(Byte) /\ <<0>> \in Seq(Byte)
    BY DEF StartCode, Byte
  <2>4. Code(Nals[n]) \in Seq(Byte)
    BY <2>1, <2>3 DEF Code
  <2> HIDE DEF b
  <2>5. Len(b) \in Nat /\ Len(b) >= 1 /\ b[Len(b)] # 0
    BY <2>1, <2>2, EmptySeq DEF Last
  <2>6. Sealed(b)
    BY <2>1, <2>2, <2>5, StartBytes DEF Sealed
  <2>7. Piece(n) \in Seq(Byte)
    BY <2>1, <2>4 DEF Piece, b
  <2> QED  BY <2>1, <2>4, <2>6, <2>7 DEF b
<1> QED  BY <1>1, <1>2

LEMMA BytesTogether ==
  /\ Bytes \in [0..N -> Seq(Byte)]
  /\ Bytes[0] = <<>>
  /\ \A n \in 1..N : Bytes[n] = Bytes[n - 1] \o Piece(n)
<1> DEFINE V == Seq(Byte)
           G == [x \in (1..N) \X V |-> x[2] \o Piece(x[1])]
           D == 0..N
           F(g) == [n \in D |-> IF n = 0 THEN <<>> ELSE g[n - 1] \o Piece(n)]
<1>1. N \in Nat /\ <<>> \in V /\ G \in [(1..N) \X V -> V]
  <2>1. ASSUME NEW x \in (1..N) \X V PROVE x[2] \o Piece(x[1]) \in V
    <3>1. x[1] \in 1..N /\ x[2] \in V
      OBVIOUS
    <3>2. Piece(x[1]) \in V
      BY <3>1, NalFacts
    <3> QED  BY <3>1, <3>2
  <2> QED  BY <2>1, NalFacts
<1>2. PICK f : f \in [0..N -> V] /\ f[0] = <<>> /\ \A i \in 1..N : f[i] = G[<<i, f[i - 1]>>]
  <2> HIDE DEF V, G
  <2>1. \E f : Chain(f, V, <<>>, N, G)
    BY <1>1, OneAfterAnother
  <2> QED  BY <2>1 DEF Chain
<1>3. ASSUME NEW i \in 1..N PROVE i - 1 \in D /\ f[i] = f[i - 1] \o Piece(i)
  <2>1. i - 1 \in 0..N
    BY <1>1
  <2>2. <<i, f[i - 1]>> \in (1..N) \X V
    BY <1>2, <2>1
  <2> QED  BY <1>2, <2>1, <2>2
<1>4. f = F(f)
  <2>1. ASSUME NEW n \in D PROVE f[n] = IF n = 0 THEN <<>> ELSE f[n - 1] \o Piece(n)
    <3>1. CASE n = 0
      BY <1>2, <3>1
    <3>2. CASE n # 0
      <4>1. n \in 1..N
        BY <1>1, <3>2
      <4> QED  BY <1>3, <3>2, <4>1
    <3> QED  BY <3>1, <3>2
  <2> QED  BY <1>2, <2>1
<1>5. Bytes = F(Bytes)
  <2>1. Bytes = CHOOSE g : g = F(g)
    BY Zenon DEF Bytes, N, Piece
  <2> HIDE DEF F
  <2> QED  BY <1>4, <2>1
<1>6. \A n \in D : Bytes[n] = IF n = 0 THEN <<>> ELSE Bytes[n - 1] \o Piece(n)
  <2> DEFINE H(n) == IF n = 0 THEN <<>> ELSE Bytes[n - 1] \o Piece(n)
  <2>1. Bytes = [n \in D |-> H(n)]
    BY <1>5
  <2> HIDE DEF H
  <2>2. \A n \in D : Bytes[n] = H(n)
    BY <2>1
  <2> QED  BY <2>2 DEF H
<1>7. \A n \in 1..N : Bytes[n] = Bytes[n - 1] \o Piece(n) /\ n - 1 \in D
  <2> SUFFICES ASSUME NEW n \in 1..N PROVE Bytes[n] = Bytes[n - 1] \o Piece(n) /\ n - 1 \in D
    OBVIOUS
  <2>1. n \in D /\ n # 0 /\ n - 1 \in D
    BY <1>1
  <2> QED  BY <1>6, <2>1
<1>8. Bytes[0] = <<>> /\ 0 \in D
  BY <1>1, <1>6
<1>9. \A n \in D : Bytes[n] \in V
  <2> DEFINE S == {n \in D : Bytes[n] \in V}
  <2>1. 0 \in S
    <3> HIDE DEF V, D
    <3>1. Bytes[0] \in V
      BY <1>1, <1>8
    <3> QED  BY <1>8, <3>1
  <2>2. ASSUME NEW i \in (0 + 1)..N, i - 1 \in S PROVE i \in S
    <3>1. i \in 1..N /\ i \in D /\ Bytes[i - 1] \in V
      BY <1>1, <2>2
    <3>2. Piece(i) \in Seq(Byte)
      BY <3>1, NalFacts
    <3>3. Bytes[i] \in V
      <4> DEFINE s == Bytes[i - 1]
                 t == Piece(i)
      <4>1. s \in Seq(Byte) /\ t \in Seq(Byte) /\ Bytes[i] = s \o t
        BY <1>7, <3>1, <3>2
      <4> HIDE DEF s, t
      <4> QED  BY <4>1
    <3> QED  BY <3>1, <3>3
  <2> HIDE DEF S
  <2>3. 0..N \subseteq S
    BY <1>1, <2>1, <2>2, Climbs
  <2> QED  BY <2>3 DEF S
<1>10. Bytes \in [D -> V]
  <2>1. Bytes = [n \in D |-> IF n = 0 THEN <<>> ELSE Bytes[n - 1] \o Piece(n)]
    BY <1>5
  <2>2. Bytes = [n \in D |-> Bytes[n]]
    BY <1>6, <2>1
  <2> QED  BY <1>9, <2>2
<1> QED  BY <1>7, <1>8, <1>10

(* Where NAL n ends, and where the three bytes begin that come before it.  *)
End(n) == Len(Bytes[n])
Place(n) == End(n - 1) + (IF Nals[n].long THEN 2 ELSE 1)

(* What is before a NAL in the stream, and the NAL.                        *)
InStream(n) ==
  /\ Stream[Place(n)] = 0 /\ Stream[Place(n) + 1] = 0 /\ Stream[Place(n) + 2] = 1
  /\ Nals[n].long => Stream[Place(n) - 1] = 0
  /\ \A i \in 1..Len(Nals[n].bytes) : Stream[Place(n) + 2 + i] = Nals[n].bytes[i]

LEMMA CodeBytes ==
  ASSUME NEW n \in 1..N
  PROVE  LET c == Code(Nals[n])
             l == IF Nals[n].long THEN 4 ELSE 3
         IN /\ Len(c) = l /\ c[l] = 1 /\ c[l - 1] = 0 /\ c[l - 2] = 0
            /\ Nals[n].long => c[1] = 0
BY NalFacts DEF Code, StartCode

LEMMA PieceOf ==
  ASSUME NEW n \in 1..N
  PROVE  LET l == IF Nals[n].long THEN 4 ELSE 3
             p == Piece(n)
             b == Nals[n].bytes
         IN /\ Len(p) = l + Len(b) /\ p[l] = 1 /\ p[l - 1] = 0 /\ p[l - 2] = 0
            /\ Nals[n].long => p[1] = 0
            /\ \A i \in 1..Len(b) : p[l + i] = b[i]
<1> DEFINE l == IF Nals[n].long THEN 4 ELSE 3
           c == Code(Nals[n])
           b == Nals[n].bytes
<1>1. c \in Seq(Byte) /\ b \in Seq(Byte) /\ Piece(n) = c \o b
  BY NalFacts DEF Piece, Sealed
<1>2. /\ Len(c) = l /\ c[l] = 1 /\ c[l - 1] = 0 /\ c[l - 2] = 0
      /\ Nals[n].long => c[1] = 0
  BY CodeBytes
<1>3. l \in 1..4 /\ l - 1 \in 1..l /\ l - 2 \in 1..l /\ 1 \in 1..l /\ l \in 1..l
  OBVIOUS
<1> HIDE DEF l, c, b
<1>4. /\ Len(c \o b) = Len(c) + Len(b)
      /\ \A x \in 1..Len(c) : (c \o b)[x] = c[x]
      /\ \A x \in 1..Len(b) : (c \o b)[Len(c) + x] = b[x]
  BY <1>1, PlacesOfConcat
<1>5. /\ Len(Piece(n)) = l + Len(b) /\ Piece(n)[l] = 1 /\ Piece(n)[l - 1] = 0 /\ Piece(n)[l - 2] = 0
      /\ Nals[n].long => Piece(n)[1] = 0
      /\ \A i \in 1..Len(b) : Piece(n)[l + i] = b[i]
  BY <1>1, <1>2, <1>3, <1>4
<1> QED  BY <1>5 DEF l, b

LEMMA StreamBegins == Begins(Bytes, N)
<1> DEFINE pieces == [n \in 1..N |-> Piece(n)]
<1>1. pieces \in Seq(Seq(Byte)) /\ Len(pieces) = N
  BY NalFacts
<1>2. Together(pieces, Bytes)
  <2>1. Bytes[0] = <<>> /\ \A i \in 1..N : Bytes[i] = Bytes[i - 1] \o pieces[i]
    BY BytesTogether
  <2> HIDE DEF pieces
  <2> QED  BY <1>1, <2>1 DEF Together
<1> HIDE DEF pieces
<1> QED  BY <1>1, <1>2, BytesTogether, Beginnings

(* The ends of the NALs and the places of their codes.                     *)
LEMMA Ends ==
  /\ Stream \in Seq(Byte) /\ Len(Stream) = End(N) /\ End(0) = 0
  /\ \A n \in 0..N : End(n) \in Nat /\ \A m \in 0..n : End(m) <= End(n)
  /\ \A n \in 1..N : /\ Place(n) \in Nat /\ Place(n) >= End(n - 1) + 1 /\ Place(n) <= End(n - 1) + 2
                     /\ End(n) = Place(n) + 2 + Len(Nals[n].bytes)
<1>1. N \in Nat /\ Stream = Bytes[N] /\ Stream \in Seq(Byte) /\ Len(Stream) = End(N) /\ End(0) = 0
  BY NalFacts, BytesTogether DEF Stream, N, End
<1>2. \A n \in 0..N : End(n) \in Nat /\ \A m \in 0..n : End(m) <= End(n)
  BY BytesTogether, StreamBegins, LenProperties DEF End, Begins
<1>3. ASSUME NEW n \in 1..N
      PROVE  /\ Place(n) \in Nat /\ Place(n) >= End(n - 1) + 1 /\ Place(n) <= End(n - 1) + 2
             /\ End(n) = Place(n) + 2 + Len(Nals[n].bytes)
  <2> DEFINE l == IF Nals[n].long THEN 4 ELSE 3
  <2>1. n - 1 \in 0..N /\ End(n - 1) \in Nat /\ Len(Nals[n].bytes) \in Nat
    BY <1>1, <1>2, NalFacts DEF Sealed
  <2>2. Bytes[n - 1] \in Seq(Byte) /\ Piece(n) \in Seq(Byte) /\ Bytes[n] = Bytes[n - 1] \o Piece(n)
    BY <2>1, BytesTogether, NalFacts
  <2>3. Len(Bytes[n]) = Len(Bytes[n - 1]) + Len(Piece(n))
    BY <2>2, PlacesOfConcat
  <2>4. Len(Piece(n)) = l + Len(Nals[n].bytes)
    BY PieceOf
  <2>5. l \in {3, 4} /\ Place(n) = End(n - 1) + (l - 2)
    BY DEF Place
  <2> HIDE DEF l
  <2>6. End(n) = End(n - 1) + (l + Len(Nals[n].bytes))
    BY <2>3, <2>4 DEF End
  <2> QED  BY <2>1, <2>5, <2>6, SMTT(30)
<1> QED  BY <1>1, <1>2, <1>3

LEMMA AllInStream == \A n \in 1..N : InStream(n)
<1> SUFFICES ASSUME NEW n \in 1..N PROVE InStream(n)
  OBVIOUS
<1> DEFINE l == IF Nals[n].long THEN 4 ELSE 3
           e == End(n - 1)
           b == Nals[n].bytes
<1>1. N \in Nat /\ n - 1 \in 0..N /\ n \in 0..N /\ N \in 0..N /\ e \in Nat
  BY NalFacts, Ends, SMTT(30)
<1>2. Bytes[n - 1] \in Seq(Byte) /\ Piece(n) \in Seq(Byte) /\ Bytes[n] = Bytes[n - 1] \o Piece(n)
  BY <1>1, BytesTogether, NalFacts
<1>3. \A x \in 1..Len(Piece(n)) : Bytes[n][e + x] = Piece(n)[x]
  BY <1>2, PlacesOfConcat DEF End
<1>4. \A x \in 1..End(n) : Stream[x] = Bytes[n][x]
  BY <1>1, StreamBegins DEF Begins, Stream, End, N
<1>5. /\ Len(Piece(n)) = l + Len(b) /\ Piece(n)[l] = 1 /\ Piece(n)[l - 1] = 0 /\ Piece(n)[l - 2] = 0
      /\ Nals[n].long => Piece(n)[1] = 0
      /\ \A i \in 1..Len(b) : Piece(n)[l + i] = b[i]
  BY PieceOf
<1>6. Place(n) = e + (l - 2) /\ l \in {3, 4} /\ (Nals[n].long <=> l = 4) /\ Len(b) \in Nat
  BY NalFacts DEF Place, Sealed
<1>7. End(n) = e + (l + Len(b))
  <2>1. End(n) = Place(n) + 2 + Len(b)
    BY Ends
  <2> HIDE DEF l, e, b
  <2> QED  BY <1>1, <1>6, <2>1
<1> HIDE DEF l, e, b
<1>8. \A x \in 1..(l + Len(b)) : Stream[e + x] = Piece(n)[x]
  <2> SUFFICES ASSUME NEW x \in 1..(l + Len(b)) PROVE Stream[e + x] = Piece(n)[x]
    OBVIOUS
  <2>1. e + x \in 1..End(n)
    BY <1>1, <1>6, <1>7
  <2> QED  BY <1>3, <1>4, <1>5, <2>1
<1>9. /\ Stream[e + (l - 2)] = 0 /\ Stream[e + (l - 1)] = 0 /\ Stream[e + l] = 1
      /\ Nals[n].long => Stream[e + 1] = 0
  <2>1. 1 \in 1..(l + Len(b)) /\ l - 2 \in 1..(l + Len(b)) /\ l - 1 \in 1..(l + Len(b)) /\ l \in 1..(l + Len(b))
    BY <1>6
  <2> QED  BY <1>5, <1>8, <2>1
<1>10. \A i \in 1..Len(b) : Stream[e + (l + i)] = b[i]
  <2> SUFFICES ASSUME NEW i \in 1..Len(b) PROVE Stream[e + (l + i)] = b[i]
    OBVIOUS
  <2>1. l + i \in 1..(l + Len(b))
    BY <1>6
  <2> QED  BY <1>5, <1>8, <2>1
<1>11. /\ Place(n) + 1 = e + (l - 1) /\ Place(n) + 2 = e + l
       /\ Nals[n].long => Place(n) - 1 = e + 1
       /\ \A i \in 1..Len(b) : Place(n) + 2 + i = e + (l + i)
  BY <1>1, <1>6
<1>12. \A i \in 1..Len(b) : Stream[Place(n) + 2 + i] = b[i]
  BY <1>10, <1>11
<1> QED  BY <1>6, <1>9, <1>11, <1>12 DEF InStream, b

(* Three such bytes are nowhere else in the stream.                        *)
LEMMA PlacesOnly ==
  ASSUME NEW p \in Nat, p >= 1, p + 2 <= End(N),
         Stream[p] = 0, Stream[p + 1] = 0, Stream[p + 2] = 1
  PROVE  \E n \in 1..N : p = Place(n)
<1> DEFINE S == {n \in 1..N : p <= End(n)}
<1>1. N \in Nat /\ N \in 0..N /\ S \subseteq Nat /\ S # {}
  <2>1. N \in Nat
    BY NalFacts
  <2>2. N # 0
    BY Ends
  <2>3. N \in S
    BY <2>1, <2>2, Ends
  <2> QED  BY <2>1, <2>3
<1>2. PICK n \in S : \A k \in S : n <= k
  BY <1>1, LeastOf
<1>3. n \in 1..N /\ p <= End(n) /\ n - 1 \in 0..N /\ End(n - 1) < p
  <2>1. n \in 1..N /\ p <= End(n) /\ n - 1 \in 0..N /\ End(n - 1) \in Nat
    BY <1>1, Ends
  <2>2. CASE n = 1
    BY <2>1, <2>2, Ends
  <2>3. CASE n # 1
    <3>1. n - 1 \in 1..N /\ ~(n <= n - 1)
      BY <2>1, <2>3
    <3>2. n - 1 \notin S
      BY <1>2, <3>1
    <3> QED  BY <2>1, <3>1, <3>2
  <2> QED  BY <2>1, <2>2, <2>3
<1> HIDE DEF S
<1> DEFINE b == Nals[n].bytes
           P == Place(n)
<1>4. /\ InStream(n) /\ Sealed(b)
      /\ P = End(n - 1) + (IF Nals[n].long THEN 2 ELSE 1)
      /\ End(n) = P + 2 + Len(b) /\ End(n - 1) \in Nat /\ P \in Nat
  BY <1>3, AllInStream, NalFacts, Ends DEF Place
<1> DEFINE e == End(n - 1)
<1>8. e \in Nat /\ P \in Nat /\ (P = e + 1 \/ P = e + 2) /\ e < p
  BY <1>3, <1>4
<1>9. p <= P + 2 + Len(b) /\ Len(b) \in Nat
  BY <1>3, <1>4 DEF Sealed
<1> SUFFICES ASSUME p # P PROVE FALSE
  BY <1>3
<1> HIDE DEF P, e
<1>5. /\ Stream[P] = 0 /\ Stream[P + 1] = 0 /\ Stream[P + 2] = 1
      /\ \A i \in 1..Len(b) : Stream[P + 2 + i] = b[i]
  BY <1>4 DEF InStream, P
<1>6. CASE p <= P + 2
  <2>1. p = P - 1 \/ p = P + 1 \/ p = P + 2
    BY <1>6, <1>8
  <2> QED  BY <1>5, <1>4, <2>1
<1>7. CASE p > P + 2
  <2> DEFINE i == p - (P + 2)
             L == Len(b)
  <2>1. L \in Nat /\ L >= 1 /\ b[L] # 0
        /\ ~\E x \in 1..L : x + 2 <= L /\ b[x] = 0 /\ b[x + 1] = 0 /\ b[x + 2] = 1
    BY <1>4 DEF Sealed
  <2>2. i \in 1..L /\ p = P + 2 + i /\ p + 1 = P + 2 + (i + 1) /\ p + 2 = P + 2 + (i + 2)
    <3> HIDE DEF L, b
    <3>1. L \in Nat /\ p <= P + 2 + L
      BY <1>9 DEF L
    <3> QED  BY <1>7, <1>8, <3>1
  <2> HIDE DEF i, b
  <2>3. \A x \in 1..L : Stream[P + 2 + x] = b[x]
    BY <1>5 DEF b
  <2> HIDE DEF L
  <2>4. b[i] = 0 /\ i # L
    BY <2>1, <2>2, <2>3
  <2>5. i + 1 \in 1..L
    BY <2>1, <2>2, <2>4
  <2>6. b[i + 1] = 0 /\ i + 1 # L
    BY <2>1, <2>2, <2>3, <2>5
  <2>7. i + 2 \in 1..L /\ i + 2 <= L
    BY <2>1, <2>2, <2>4, <2>5, <2>6
  <2>8. b[i + 2] = 1
    BY <2>2, <2>3, <2>7
  <2> QED  BY <2>1, <2>2, <2>4, <2>6, <2>7, <2>8
<1> QED  BY <1>3, <1>4, <1>6, <1>7

LEMMA PlacesApart ==
  ASSUME NEW m \in 1..N, NEW n \in 1..N, m < n
  PROVE  Place(n) >= End(m) + 1 /\ Place(n) >= Place(m) + 4
<1>1. /\ n - 1 \in 0..N /\ m \in 0..(n - 1) /\ m \in 0..N /\ Len(Nals[m].bytes) \in Nat
      /\ Len(Nals[m].bytes) >= 1
  BY NalFacts DEF Sealed
<1>2. End(n - 1) \in Nat /\ End(m) \in Nat /\ End(m) <= End(n - 1)
  BY <1>1, Ends
<1>3. /\ Place(n) \in Nat /\ Place(n) >= End(n - 1) + 1
      /\ Place(m) \in Nat /\ End(m) = Place(m) + 2 + Len(Nals[m].bytes)
  BY Ends
<1>4. Place(n) >= End(m) + 1 /\ End(m) >= Place(m) + 3
  BY <1>1, <1>2, <1>3, SMTT(30)
<1> QED  BY <1>2, <1>3, <1>4

(* A stretch of the stream, and the start codes that are whole in it.      *)
Stretch(b, p, t) ==
  /\ b \in Seq(Byte) /\ Len(b) = t - p + 1 /\ \A i \in 1..Len(b) : b[i] = Stream[p + i - 1]
StartsWithin(b, p, t) ==
  /\ Starts(b) \subseteq Nat
  /\ \A n \in 1..N : Place(n) >= p /\ Place(n) + 2 <= t => Place(n) - p + 1 \in Starts(b)
  /\ \A i \in Starts(b) : \E n \in 1..N : i = Place(n) - p + 1 /\ Place(n) >= p /\ Place(n) + 2 <= t

LEMMA StretchOf ==
  ASSUME NEW p \in Nat, NEW t \in Nat, p >= 1, p <= t + 1, t <= End(N)
  PROVE  Stretch(SubSeq(Stream, p, t), p, t)
<1> DEFINE b == SubSeq(Stream, p, t)
<1>1. \A i \in p..t : Stream[i] \in Byte
  BY Ends, ElementOfSeq
<1>2. /\ b \in Seq(Byte) /\ Len(b) = (IF p <= t THEN t - p + 1 ELSE 0)
      /\ \A i \in 1..(t - p + 1) : b[i] = Stream[p + i - 1]
  BY <1>1, SubSeqProperties
<1>3. Len(b) = t - p + 1
  BY <1>2
<1> HIDE DEF b
<1>4. Stretch(b, p, t)
  BY <1>2, <1>3 DEF Stretch
<1> QED  BY <1>4 DEF b

LEMMA StretchStarts ==
  ASSUME NEW p \in Nat, NEW t \in Nat, p >= 1, p <= t + 1, t <= End(N), NEW b, Stretch(b, p, t)
  PROVE  StartsWithin(b, p, t)
<1> DEFINE L == Len(b)
<1>1. /\ b \in Seq(Byte) /\ L = t - p + 1 /\ L \in Nat /\ DOMAIN b = 1..L
      /\ \A i \in 1..L : b[i] = Stream[p + i - 1]
  BY DEF Stretch
<1>2. \A i \in 1..L : i \in Starts(b) <=> i + 2 <= L /\ b[i] = 0 /\ b[i + 1] = 0 /\ b[i + 2] = 1
  BY <1>1, StartBytes DEF Starts
<1>3. Starts(b) \subseteq 1..L
  BY <1>1 DEF Starts
<1> HIDE DEF L
<1>4. \A i \in 1..L : i \in Starts(b) <=>
        i + 2 <= L /\ Stream[p + i - 1] = 0 /\ Stream[p + i - 1 + 1] = 0 /\ Stream[p + i - 1 + 2] = 1
  <2> SUFFICES ASSUME NEW i \in 1..L, i + 2 <= L
               PROVE  b[i] = Stream[p + i - 1] /\ b[i + 1] = Stream[p + i - 1 + 1] /\ b[i + 2] = Stream[p + i - 1 + 2]
    BY <1>2
  <2>1. /\ i + 1 \in 1..L /\ i + 2 \in 1..L /\ p + (i + 1) - 1 = p + i - 1 + 1
        /\ p + (i + 2) - 1 = p + i - 1 + 2
    BY <1>1
  <2> QED  BY <1>1, <2>1
<1>5. ASSUME NEW n \in 1..N, Place(n) >= p, Place(n) + 2 <= t PROVE Place(n) - p + 1 \in Starts(b)
  <2> DEFINE i == Place(n) - p + 1
  <2>1. Place(n) \in Nat
    BY Ends
  <2>2. i \in 1..L /\ i + 2 <= L /\ p + i - 1 = Place(n)
    BY <1>1, <1>5, <2>1
  <2>3. Stream[Place(n)] = 0 /\ Stream[Place(n) + 1] = 0 /\ Stream[Place(n) + 2] = 1
    BY AllInStream DEF InStream
  <2> HIDE DEF i
  <2>4. i \in Starts(b)
    BY <1>4, <2>2, <2>3
  <2> QED  BY <2>4 DEF i
<1>6. ASSUME NEW i \in Starts(b)
      PROVE  \E n \in 1..N : i = Place(n) - p + 1 /\ Place(n) >= p /\ Place(n) + 2 <= t
  <2> DEFINE q == p + i - 1
  <2>1. i \in 1..L /\ i + 2 <= L /\ Stream[q] = 0 /\ Stream[q + 1] = 0 /\ Stream[q + 2] = 1
    BY <1>3, <1>4
  <2>2. End(N) \in Nat
    BY Ends, NalFacts
  <2>3. q \in Nat /\ q >= 1 /\ q + 2 <= t /\ q >= p /\ q + 2 <= End(N) /\ i = q - p + 1
    BY <1>1, <2>1, <2>2
  <2> HIDE DEF q
  <2>4. PICK n \in 1..N : q = Place(n)
    BY <2>1, <2>3, PlacesOnly
  <2> QED  BY <2>3, <2>4
<1>7. Starts(b) \subseteq Nat
  BY <1>3
<1> QED  BY <1>5, <1>6, <1>7 DEF StartsWithin

LEMMA StretchEqual ==
  ASSUME NEW b, NEW c, NEW p, NEW t, Stretch(b, p, t), Stretch(c, p, t)
  PROVE  b = c
<1>1. b \in Seq(Byte) /\ c \in Seq(Byte) /\ Len(b) = Len(c) /\ \A i \in 1..Len(b) : b[i] = c[i]
  BY DEF Stretch
<1> QED  BY <1>1, SeqEqual

LEMMA StretchGrows ==
  ASSUME NEW p \in Nat, NEW t \in Nat, NEW u \in Nat, p >= 1, p <= t + 1, t <= u, u <= End(N),
         NEW b, Stretch(b, p, t)
  PROVE  Stretch(b \o SubSeq(Stream, t + 1, u), p, u)
<1> DEFINE c == SubSeq(Stream, t + 1, u)
           k == Len(b)
           l == Len(c)
<1>1. Stretch(c, t + 1, u)
  BY StretchOf
<1> HIDE DEF c
<1>2. /\ b \in Seq(Byte) /\ k = t - p + 1 /\ \A i \in 1..k : b[i] = Stream[p + i - 1]
      /\ c \in Seq(Byte) /\ l = u - (t + 1) + 1 /\ \A i \in 1..l : c[i] = Stream[t + 1 + i - 1]
      /\ k \in Nat /\ l \in Nat
  BY <1>1 DEF Stretch
<1>3. /\ b \o c \in Seq(Byte) /\ Len(b \o c) = k + l
      /\ \A x \in 1..k : (b \o c)[x] = b[x]
      /\ \A x \in 1..l : (b \o c)[k + x] = c[x]
  <2>1. b \in Seq(Byte) /\ c \in Seq(Byte)
    BY <1>2
  <2>2. b \o c \in Seq(Byte)
    BY <2>1
  <2>3. /\ Len(b \o c) = Len(b) + Len(c)
        /\ \A x \in 1..Len(b) : (b \o c)[x] = b[x]
        /\ \A x \in 1..Len(c) : (b \o c)[Len(b) + x] = c[x]
    BY <2>1, PlacesOfConcat
  <2> QED  BY <2>2, <2>3
<1> HIDE DEF k, l
<1> DEFINE v == b \o c
<1>7. k \in Nat /\ l \in Nat /\ k = t - p + 1 /\ l = u - (t + 1) + 1
  BY <1>2
<1> HIDE DEF v
<1>4. ASSUME NEW x \in 1..(k + l) PROVE v[x] = Stream[p + x - 1]
  <2>1. ASSUME x <= k PROVE v[x] = Stream[p + x - 1]
    <3>1. x \in 1..k
      BY <1>7, <2>1
    <3> QED  BY <1>2, <1>3, <3>1 DEF v
  <2>2. ASSUME ~(x <= k) PROVE v[x] = Stream[p + x - 1]
    <3> DEFINE y == x - k
    <3>1. y \in 1..l /\ k + y = x /\ t + 1 + y - 1 = p + x - 1
      BY <1>7, <2>2
    <3> HIDE DEF y
    <3>2. v[k + y] = c[y] /\ c[y] = Stream[t + 1 + y - 1]
      BY <1>2, <1>3, <3>1 DEF v
    <3> QED  BY <3>1, <3>2
  <2> QED  BY <2>1, <2>2
<1>5. k + l = u - p + 1
  BY <1>7
<1>6. Stretch(b \o c, p, u)
  BY <1>3, <1>4, <1>5 DEF Stretch, v
<1> QED  BY <1>6 DEF c

LEMMA StretchCut ==
  ASSUME NEW p \in Nat, NEW t \in Nat, NEW b, Stretch(b, p, t), p >= 1,
         NEW i \in Nat, NEW j \in Nat, i >= 1, i <= j + 1, j <= Len(b),
         NEW q, q = p + i - 1, NEW u, u = p + j - 1
  PROVE  Stretch(SubSeq(b, i, j), q, u)
<1> DEFINE c == SubSeq(b, i, j)
           L == Len(b)
<1>1. b \in Seq(Byte) /\ L \in Nat /\ \A x \in 1..L : b[x] = Stream[p + x - 1]
  BY DEF Stretch
<1>2. \A x \in i..j : b[x] \in Byte
  BY <1>1, ElementOfSeq
<1>3. /\ c \in Seq(Byte) /\ Len(c) = (IF i <= j THEN j - i + 1 ELSE 0)
      /\ \A x \in 1..(j - i + 1) : c[x] = b[i + x - 1]
  BY <1>2, SubSeqProperties
<1> HIDE DEF c
<1>4. Len(c) = j - i + 1 /\ Len(c) = u - q + 1
  BY <1>3
<1>5. ASSUME NEW x \in 1..Len(c) PROVE c[x] = Stream[q + x - 1]
  <2>1. x \in 1..(j - i + 1) /\ i + x - 1 \in 1..L /\ p + (i + x - 1) - 1 = q + x - 1
    BY <1>1, <1>4
  <2> QED  BY <1>1, <1>3, <2>1
<1>6. Stretch(c, q, u)
  BY <1>3, <1>4, <1>5 DEF Stretch
<1> QED  BY <1>6 DEF c

-----------------------------------------------------------------------------
(* What is in the buffer                                                   *)

(* With NAL k handled and the bytes up to t taken, the buffer begins with  *)
(* the code before the next NAL, or that code is not there yet and all     *)
(* that came after NAL k is kept.                                          *)
AtCode(b, t, k) == k < N /\ t >= Place(k + 1) + 2 /\ Stretch(b, Place(k + 1), t)
Between(b, t, k) == /\ k < N => t < Place(k + 1) + 2
                    /\ t >= End(k) /\ Stretch(b, End(k) + 1, t)
Holds(b, t, k) == AtCode(b, t, k) \/ Between(b, t, k)

LEMMA CodeFirst ==
  ASSUME NEW k \in 0..N, NEW t \in Nat, t <= End(N), NEW b, AtCode(b, t, k)
  PROVE  /\ k + 1 \in 1..N /\ Place(k + 1) \in Nat /\ Place(k + 1) >= 1
         /\ StartsWithin(b, Place(k + 1), t)
         /\ 1 \in Starts(b) /\ Min(Starts(b)) = 1 /\ Len(b) = t - Place(k + 1) + 1 /\ Len(b) \in Nat
<1> DEFINE p == Place(k + 1)
<1>1. k + 1 \in 1..N /\ p \in Nat /\ p >= 1 /\ p <= t + 1 /\ p + 2 <= t
  <2>1. N \in Nat /\ k + 1 \in 1..N
    BY NalFacts DEF AtCode
  <2>2. k \in 0..N /\ (k + 1) - 1 = k /\ End(k) \in Nat
    BY <2>1, Ends
  <2>3. p \in Nat /\ p >= End(k) + 1
    BY <2>1, <2>2, Ends
  <2>4. t >= p + 2
    BY DEF AtCode
  <2> HIDE DEF p
  <2> QED  BY <2>1, <2>2, <2>3, <2>4
<1>2. Stretch(b, p, t) /\ Len(b) = t - p + 1
  BY DEF AtCode, Stretch
<1>3. StartsWithin(b, p, t)
  BY <1>1, <1>2, StretchStarts
<1>4. 1 \in Starts(b)
  <2>1. p >= p /\ p + 2 <= t /\ p - p + 1 = 1
    BY <1>1
  <2> QED  BY <1>1, <1>3, <2>1 DEF StartsWithin
<1>5. Starts(b) \subseteq Nat /\ \A i \in Starts(b) : i >= 1
  <2>1. \A n \in 1..N : Place(n) \in Nat
    BY Ends
  <2> HIDE DEF p
  <2> QED  BY <1>1, <1>3, <2>1 DEF StartsWithin
<1>6. Min(Starts(b)) = 1
  <2>1. Min(Starts(b)) \in Starts(b) /\ \A j \in Starts(b) : Min(Starts(b)) <= j
    BY <1>4, <1>5, MinOf
  <2> QED  BY <1>4, <1>5, <2>1
<1> HIDE DEF p
<1>7. Len(b) \in Nat
  BY <1>1, <1>2
<1> QED  BY <1>1, <1>2, <1>3, <1>4, <1>6, <1>7 DEF p

(* Among the places of codes, the next one is the first after a NAL.       *)
LEMMA NextPlace ==
  ASSUME NEW k \in 0..N, NEW n \in 1..N, Place(n) >= End(k) + 1
  PROVE  k < N /\ n >= k + 1 /\ Place(n) >= Place(k + 1) /\ Place(k + 1) >= End(k) + 1
<1>1. N \in Nat /\ End(k) \in Nat /\ Place(n) \in Nat /\ Len(Nals[n].bytes) \in Nat
      /\ Place(n) <= End(n)
  <2>1. End(n) = Place(n) + 2 + Len(Nals[n].bytes) /\ Place(n) \in Nat /\ Len(Nals[n].bytes) \in Nat
    BY Ends, NalFacts DEF Sealed
  <2>2. N \in Nat /\ End(k) \in Nat
    BY Ends, NalFacts
  <2> QED  BY <2>1, <2>2
<1>2. n >= k + 1
  <2>1. ASSUME n <= k PROVE FALSE
    <3>1. n \in 0..k
      BY <1>1, <2>1
    <3>2. End(n) <= End(k) /\ End(n) \in Nat
      BY <3>1, Ends, <1>1
    <3> QED  BY <1>1, <3>2
  <2> QED  BY <1>1, <2>1
<1>3. k + 1 \in 1..N /\ (k + 1) - 1 = k
  BY <1>1, <1>2
<1>4. Place(k + 1) >= End(k) + 1 /\ Place(k + 1) \in Nat
  BY <1>3, Ends
<1>5. CASE n = k + 1
  BY <1>1, <1>2, <1>4, <1>5
<1>6. CASE n # k + 1
  <2>1. k + 1 < n
    BY <1>1, <1>2, <1>6
  <2>2. Place(n) >= Place(k + 1) + 4
    BY <1>3, <2>1, PlacesApart
  <2> QED  BY <1>1, <1>2, <1>4, <2>2
<1> QED  BY <1>5, <1>6

LEMMA NoneBetween ==
  ASSUME NEW k \in 0..N, NEW t \in Nat, t <= End(N), NEW b, Between(b, t, k)
  PROVE  /\ Starts(b) = {} /\ Len(b) \in 0..3 /\ Len(b) = t - End(k) /\ b \in Seq(Byte)
         /\ t = End(k) => b = <<>>
<1>1. N \in Nat /\ End(k) \in Nat /\ t >= End(k) /\ Stretch(b, End(k) + 1, t)
  BY NalFacts, Ends DEF Between
<1>2. StartsWithin(b, End(k) + 1, t)
  BY <1>1, StretchStarts
<1>3. ASSUME NEW n \in 1..N, Place(n) >= End(k) + 1, Place(n) + 2 <= t PROVE FALSE
  <2>1. k < N /\ Place(n) >= Place(k + 1)
    BY <1>3, NextPlace
  <2>2. k + 1 \in 1..N
    BY <1>1, <2>1
  <2>3. Place(k + 1) \in Nat /\ Place(n) \in Nat
    BY <2>2, Ends
  <2>4. t < Place(k + 1) + 2
    BY <2>1 DEF Between
  <2> QED  BY <1>3, <2>1, <2>3, <2>4
<1>4. Starts(b) = {}
  BY <1>2, <1>3 DEF StartsWithin
<1>5. Len(b) = t - (End(k) + 1) + 1 /\ b \in Seq(Byte)
  BY <1>1 DEF Stretch
<1>6. t <= End(k) + 3
  <2>1. CASE k < N
    <3>1. k + 1 \in 1..N /\ (k + 1) - 1 = k
      BY <1>1, <2>1
    <3>2. Place(k + 1) <= End(k) + 2 /\ Place(k + 1) \in Nat
      BY <3>1, Ends
    <3>3. t < Place(k + 1) + 2
      BY <2>1 DEF Between
    <3> QED  BY <1>1, <3>2, <3>3
  <2>2. CASE ~(k < N)
    <3>1. k = N
      BY <1>1, <2>2
    <3> QED  BY <1>1, <3>1
  <2> QED  BY <2>1, <2>2
<1>7. Len(b) = t - End(k) /\ Len(b) \in 0..3
  BY <1>1, <1>5, <1>6
<1>8. t = End(k) => b = <<>>
  BY <1>1, <1>5, <1>7, EmptySeq
<1> QED  BY <1>4, <1>5, <1>7, <1>8

(* A chunk more, and what does not belong to a NAL dropped.                *)
LEMMA ResyncHolds ==
  ASSUME NEW k \in 0..N, NEW t \in Nat, NEW u \in Nat, t <= u, u <= End(N), NEW b, Holds(b, t, k)
  PROVE  Holds(Resync(b \o SubSeq(Stream, t + 1, u)), u, k)
<1> DEFINE c == b \o SubSeq(Stream, t + 1, u)
           L == Len(c)
<1>0. N \in Nat /\ End(k) \in Nat /\ End(N) \in Nat
  BY NalFacts, Ends
<1>1. CASE AtCode(b, t, k)
  <2> DEFINE p == Place(k + 1)
  <2>1. t <= End(N)
    BY <1>0
  <2>2. p \in Nat /\ p >= 1 /\ k < N /\ t >= p + 2 /\ Stretch(b, p, t)
    BY <1>1, <2>1, CodeFirst DEF AtCode
  <2> HIDE DEF p
  <2>3. p <= t + 1
    BY <2>2
  <2>4. Stretch(c, p, u)
    BY <2>2, <2>3, StretchGrows
  <2>5. u >= p + 2
    BY <2>2
  <2> HIDE DEF c
  <2>6. AtCode(c, u, k)
    BY <2>2, <2>4, <2>5 DEF AtCode, p
  <2>7. 1 \in Starts(c) /\ Min(Starts(c)) = 1
    BY <2>6, CodeFirst
  <2>8. Resync(c) = SubSeq(c, 1, Len(c)) /\ c \in Seq(Byte)
    BY <2>4, <2>7 DEF Resync, Stretch
  <2>9. Resync(c) = c
    BY <2>8, SubSeqFull
  <2> QED  BY <2>6, <2>9 DEF Holds, c
<1>2. CASE Between(b, t, k)
  <2>1. t >= End(k) /\ Stretch(b, End(k) + 1, t)
    BY <1>2 DEF Between
  <2>2. Stretch(c, End(k) + 1, u) /\ u >= End(k)
    BY <1>0, <2>1, StretchGrows
  <2> HIDE DEF c
  <2>3. CASE k < N => u < Place(k + 1) + 2
    <3>1. Between(c, u, k)
      BY <2>2, <2>3 DEF Between
    <3>2. Starts(c) = {} /\ L \in 0..3 /\ c \in Seq(Byte)
      BY <3>1, NoneBetween
    <3>3. Resync(c) = SubSeq(c, 1, Len(c))
      <4>1. \A x \in 0..3 : ~(x > 3)
        OBVIOUS
      <4>2. Len(c) \in 0..3
        BY <3>2
      <4>3. ~(Len(c) > 3) /\ Starts(c) = {}
        BY <3>2, <4>1, <4>2, Zenon
      <4> QED  BY <4>3, Zenon DEF Resync
    <3>4. Resync(c) = c
      BY <3>2, <3>3, SubSeqFull
    <3> QED  BY <3>1, <3>4 DEF Holds, c
  <2>4. CASE k < N /\ ~(u < Place(k + 1) + 2)
    <3> DEFINE p == Place(k + 1)
               i == p - (End(k) + 1) + 1
    <3>1. k + 1 \in 1..N /\ (k + 1) - 1 = k
      BY <1>0, <2>4
    <3>2. p \in Nat /\ p >= End(k) + 1 /\ u >= p + 2
      BY <2>4, <3>1, Ends
    <3>3. StartsWithin(c, End(k) + 1, u)
      <4>1. End(k) + 1 \in Nat /\ End(k) + 1 >= 1 /\ End(k) + 1 <= u + 1
        BY <1>0, <2>2
      <4> QED  BY <2>2, <4>1, StretchStarts
    <3>4. i \in Starts(c)
      BY <3>1, <3>2, <3>3 DEF StartsWithin
    <3>5. ASSUME NEW j \in Starts(c) PROVE i <= j
      <4>1. PICK n \in 1..N : j = Place(n) - (End(k) + 1) + 1 /\ Place(n) >= End(k) + 1
        BY <3>3 DEF StartsWithin
      <4>2. Place(n) >= p /\ Place(n) \in Nat
        BY <4>1, NextPlace, Ends
      <4> HIDE DEF p
      <4> QED  BY <1>0, <3>2, <4>1, <4>2
    <3>6. Min(Starts(c)) = i /\ i \in Nat /\ i >= 1
      <4>1. Starts(c) \subseteq Nat
        BY <3>3 DEF StartsWithin
      <4>2. Min(Starts(c)) \in Starts(c) /\ \A j \in Starts(c) : Min(Starts(c)) <= j
        BY <3>4, <4>1, MinOf
      <4>3. Min(Starts(c)) <= i /\ i <= Min(Starts(c)) /\ Min(Starts(c)) \in Nat /\ i \in Nat
        BY <3>4, <3>5, <4>1, <4>2
      <4> HIDE DEF p
      <4> QED  BY <1>0, <3>2, <4>3
    <3>7. Resync(c) = SubSeq(c, i, L)
      BY <3>4, <3>6 DEF Resync
    <3>8. L = u - (End(k) + 1) + 1
      BY <2>2 DEF Stretch
    <3> HIDE DEF p
    <3>9. L \in Nat /\ i <= L + 1 /\ p = (End(k) + 1) + i - 1 /\ u = (End(k) + 1) + L - 1
      BY <1>0, <2>2, <3>2, <3>8, SMTT(30)
    <3>10. End(k) + 1 \in Nat /\ End(k) + 1 >= 1
      BY <1>0
    <3> HIDE DEF i
    <3>11. Stretch(SubSeq(c, i, L), p, u)
      BY <2>2, <3>6, <3>9, <3>10, StretchCut
    <3>12. AtCode(Resync(c), u, k)
      BY <2>4, <3>2, <3>7, <3>11 DEF AtCode, p
    <3> QED  BY <3>12 DEF Holds, c
  <2> QED  BY <2>3, <2>4
<1> QED  BY <1>1, <1>2 DEF Holds

(* The first NAL of the buffer is the next of the stream.                  *)
LEMMA SplitHolds ==
  ASSUME NEW k \in 0..N, NEW t \in Nat, t <= End(N), NEW b, Holds(b, t, k), HasNAL(b)
  PROVE  /\ k + 1 \in 1..N /\ FirstNAL(b) = Nals[k + 1].bytes
         /\ Holds(SubSeq(b, Second(b), Len(b)), t, k + 1)
<1> DEFINE p == Place(k + 1)
           q == Place(k + 2)
           L == Len(b)
           S == Starts(b)
<1>1. AtCode(b, t, k)
  <2>1. S # {}
    BY DEF HasNAL
  <2> QED  BY <2>1, NoneBetween DEF Holds
<1>2. /\ k + 1 \in 1..N /\ p \in Nat /\ p >= 1 /\ StartsWithin(b, p, t)
      /\ Min(S) = 1 /\ 1 \in S /\ L = t - p + 1 /\ L \in Nat
  BY <1>1, CodeFirst
<1>3. Stretch(b, p, t) /\ N \in Nat
  BY <1>1, NalFacts DEF AtCode
<1>4. S \subseteq Nat /\ \E j \in S : j > 1
  <2>1. S \subseteq Nat
    BY <1>2 DEF StartsWithin
  <2>2. PICK i \in S, j \in S : i < j
    BY DEF HasNAL
  <2>3. 1 <= i
    BY <1>2, <2>1, MinOf
  <2> QED  BY <2>1, <2>2, <2>3
<1>5. PICK j \in S : j > 1
  BY <1>4
<1>6. PICK n \in 1..N : j = Place(n) - p + 1 /\ Place(n) >= p /\ Place(n) + 2 <= t
  BY <1>2 DEF StartsWithin
<1>7. ASSUME NEW m \in 1..N, Place(m) > p PROVE m >= k + 2 /\ k + 2 \in 1..N
  <2>1. Place(m) \in Nat
    BY Ends
  <2>2. ASSUME m < k + 1 PROVE FALSE
    <3>1. p >= Place(m) + 4
      BY <1>2, <2>2, PlacesApart
    <3> HIDE DEF p
    <3> QED  BY <1>2, <1>7, <2>1, <3>1
  <2>3. m # k + 1
    <3>1. ~(p > p)
      BY <1>2
    <3> QED  BY <1>7, <3>1
  <2> HIDE DEF p
  <2>4. m \in Nat /\ k \in Nat
    BY <1>3
  <2> QED  BY <1>3, <2>2, <2>3, <2>4
<1>8. ASSUME NEW m \in 1..N, Place(m) > p PROVE Place(m) >= q
  <2>1. m >= k + 2 /\ k + 2 \in 1..N
    BY <1>7, <1>8
  <2>2. Place(m) \in Nat /\ q \in Nat
    BY <2>1, Ends
  <2>3. CASE m = k + 2
    BY <2>2, <2>3
  <2>4. CASE m # k + 2
    <3>1. k + 2 < m
      BY <2>1, <2>4
    <3>2. Place(m) >= q + 4
      BY <2>1, <3>1, PlacesApart
    <3> HIDE DEF q
    <3> QED  BY <2>2, <3>2
  <2> QED  BY <2>3, <2>4
<1> DEFINE z == q - p + 1
<1>9. Place(n) \in Nat /\ Place(n) > p
  <2>1. Place(n) \in Nat
    BY Ends
  <2> HIDE DEF p
  <2> QED  BY <1>2, <1>5, <1>6, <2>1
<1>10. k + 2 \in 1..N /\ q \in Nat /\ q >= p + 4 /\ q + 2 <= t /\ q >= End(k + 1) + 1
       /\ Place(n) >= q
  <2>1. k + 2 \in 1..N /\ Place(n) >= q
    BY <1>7, <1>8, <1>9
  <2>2. k + 1 < k + 2
    BY <1>3
  <2>3. q \in Nat /\ q >= p + 4 /\ q >= End(k + 1) + 1
    BY <1>2, <2>1, <2>2, PlacesApart, Ends
  <2> HIDE DEF p, q
  <2> QED  BY <1>2, <1>6, <1>9, <2>1, <2>3
<1>11. z \in S /\ z \in Nat /\ z >= 5
  <2>1. q >= p
    <3> HIDE DEF p, q
    <3> QED  BY <1>2, <1>10
  <2>2. z \in S
    BY <1>2, <1>10, <2>1 DEF StartsWithin
  <2> HIDE DEF p, q
  <2> QED  BY <1>2, <1>10, <2>2
<1>12. Second(b) = z
  <2> DEFINE R == S \ {Min(S)}
  <2>1. R \subseteq Nat /\ z \in R
    BY <1>2, <1>4, <1>11
  <2>2. ASSUME NEW i \in R PROVE z <= i
    <3>1. i \in S /\ i # 1
      BY <1>2
    <3>2. PICK m \in 1..N : i = Place(m) - p + 1 /\ Place(m) >= p
      BY <1>2, <3>1 DEF StartsWithin
    <3>3. Place(m) \in Nat
      BY Ends
    <3>4. Place(m) > p
      <4> HIDE DEF p
      <4> QED  BY <1>2, <3>1, <3>2, <3>3
    <3>5. Place(m) >= q
      BY <1>8, <3>4
    <3> HIDE DEF p, q
    <3> QED  BY <1>2, <1>10, <3>2, <3>3, <3>5, SMTT(30)
  <2>3. Min(R) \in R /\ \A i \in R : Min(R) <= i
    BY <2>1, MinOf
  <2>4. Min(R) <= z /\ z <= Min(R) /\ Min(R) \in Nat /\ z \in Nat
    BY <2>1, <2>2, <2>3
  <2> HIDE DEF R, z
  <2>5. Min(R) = z
    BY <2>4
  <2> QED  BY <2>5 DEF Second, R
<1>13. FirstNAL(b) = Nals[k + 1].bytes
  <2> DEFINE nal == Nals[k + 1].bytes
             e == End(k + 1)
  <2>1. Sealed(nal) /\ InStream(k + 1) /\ e = p + 2 + Len(nal)
    BY <1>2, NalFacts, AllInStream, Ends
  <2>2. /\ nal \in Seq(Byte) /\ Len(nal) \in Nat /\ Len(nal) >= 1 /\ nal[Len(nal)] # 0
        /\ \A i \in 1..Len(nal) : Stream[p + 2 + i] = nal[i]
    BY <2>1 DEF Sealed, InStream
  <2>3. q = e + (IF Nals[k + 2].long THEN 2 ELSE 1) /\ (Nals[k + 2].long => Stream[q - 1] = 0)
    <3>1. (k + 2) - 1 = k + 1
      BY <1>3
    <3>2. InStream(k + 2)
      BY <1>10, AllInStream
    <3> QED  BY <3>1, <3>2 DEF Place, InStream
  <2> HIDE DEF nal, e
  <2>4. e \in Nat /\ Len(nal) \in 1..Len(nal) /\ e = p + 2 + Len(nal) /\ q >= e + 1
    BY <1>2, <1>10, <2>1, <2>2, SMTT(30) DEF e
  <2>5. Stream[e] # 0
    BY <2>2, <2>4
  <2>6. z - 1 \in 1..L /\ b[z - 1] = Stream[q - 1]
    <3>1. z - 1 \in 1..L /\ p + (z - 1) - 1 = q - 1
      <4> HIDE DEF p, q
      <4> QED  BY <1>2, <1>10, <1>11
    <3>2. \A i \in 1..L : b[i] = Stream[p + i - 1]
      BY <1>3 DEF Stretch
    <3> QED  BY <3>1, <3>2
  <2> DEFINE last == IF b[z - 1] = 0 THEN z - 2 ELSE z - 1
  <2>7. last = e - p + 1
    <3> HIDE DEF p, q
    <3>1. CASE Nals[k + 2].long
      BY <1>2, <1>10, <2>3, <2>4, <2>6, <3>1, SMTT(30)
    <3>2. CASE ~Nals[k + 2].long
      <4>1. q - 1 = e
        BY <2>3, <2>4, <3>2
      <4> QED  BY <1>2, <1>10, <2>4, <2>5, <2>6, <4>1
    <3> QED  BY <3>1, <3>2
  <2>8. FirstNAL(b) = SubSeq(b, 4, last)
    BY <1>2, <1>12 DEF FirstNAL
  <2> HIDE DEF last, p, q, z
  <2>9. last \in Nat /\ 4 <= last + 1 /\ last <= L /\ e = p + last - 1 /\ p + 3 = p + 4 - 1
    <3>1. p \in Nat /\ q \in Nat /\ e \in Nat /\ L \in Nat /\ L = t - p + 1 /\ q + 2 <= t
      BY <1>2, <1>10, <2>4
    <3>2. e >= p + 3 /\ q >= e + 1
      BY <2>2, <2>4, <3>1
    <3> HIDE DEF L
    <3> QED  BY <2>7, <3>1, <3>2
  <2>10. Stretch(SubSeq(b, 4, last), p + 3, e)
    BY <1>2, <1>3, <2>9, StretchCut
  <2>11. Stretch(nal, p + 3, e)
    <3>1. ASSUME NEW i \in 1..Len(nal) PROVE nal[i] = Stream[p + 3 + i - 1]
      <4>1. p + 3 + i - 1 = p + 2 + i
        BY <1>2
      <4> QED  BY <2>2, <4>1
    <3>2. Len(nal) = e - (p + 3) + 1
      BY <1>2, <2>2, <2>4
    <3> QED  BY <2>2, <3>1, <3>2 DEF Stretch
  <2> QED  BY <2>8, <2>10, <2>11, StretchEqual DEF nal
<1>14. Holds(SubSeq(b, Second(b), Len(b)), t, k + 1)
  <2>1. Stretch(SubSeq(b, z, L), q, t)
    <3> HIDE DEF p, q
    <3>1. z <= L + 1 /\ q = p + z - 1 /\ t = p + L - 1 /\ z >= 1 /\ L <= L
      BY <1>2, <1>10, <1>11
    <3> HIDE DEF z, L
    <3>2. L = Len(b)
      BY DEF L
    <3> QED  BY <1>2, <1>3, <1>11, <3>1, <3>2, StretchCut
  <2>2. k + 1 < N /\ t >= q + 2 /\ (k + 1) + 1 = k + 2
    <3>1. k + 1 < N /\ (k + 1) + 1 = k + 2
      BY <1>3, <1>10
    <3> HIDE DEF q
    <3> QED  BY <1>10, <3>1
  <2>3. AtCode(SubSeq(b, z, L), t, k + 1)
    BY <2>1, <2>2 DEF AtCode
  <2> HIDE DEF z
  <2> QED  BY <1>12, <2>3 DEF Holds
<1> QED  BY <1>2, <1>13, <1>14

LEMMA EndsApart ==
  ASSUME NEW m \in 0..N, NEW n \in 0..N, m < n
  PROVE  m + 1 \in 1..N /\ Place(m + 1) >= End(m) + 1 /\ End(n) >= Place(m + 1) + 3
<1>1. N \in Nat /\ m + 1 \in 1..N /\ m + 1 \in 0..N /\ (m + 1) - 1 = m /\ m + 1 \in 0..n
  BY NalFacts
<1>2. Place(m + 1) \in Nat /\ Place(m + 1) >= End(m) + 1
      /\ End(m + 1) = Place(m + 1) + 2 + Len(Nals[m + 1].bytes)
  BY <1>1, Ends
<1>3. Len(Nals[m + 1].bytes) \in Nat /\ Len(Nals[m + 1].bytes) >= 1
  BY <1>1, NalFacts DEF Sealed
<1>4. End(m + 1) <= End(n) /\ End(n) \in Nat /\ End(m + 1) \in Nat
  BY <1>1, Ends
<1> QED  BY <1>1, <1>2, <1>3, <1>4

LEMMA EmptyHolds == ASSUME NEW e \in 0..N PROVE Holds(<<>>, End(e), e)
<1>1. N \in Nat /\ End(e) \in Nat
  BY NalFacts, Ends
<1>2. Stretch(<<>>, End(e) + 1, End(e))
  <2> DEFINE b == <<>>
  <2>1. b \in Seq(Byte) /\ Len(b) = 0 /\ 1..Len(b) = {}
    OBVIOUS
  <2> HIDE DEF b
  <2>2. Len(b) = End(e) - (End(e) + 1) + 1
    BY <1>1, <2>1
  <2>3. Stretch(b, End(e) + 1, End(e))
    BY <2>1, <2>2 DEF Stretch
  <2> QED  BY <2>3 DEF b
<1>3. ASSUME e < N PROVE End(e) < Place(e + 1) + 2
  <2>1. e + 1 \in 1..N /\ (e + 1) - 1 = e
    BY <1>1, <1>3
  <2>2. Place(e + 1) \in Nat /\ Place(e + 1) >= End(e) + 1
    BY <2>1, Ends
  <2> QED  BY <1>1, <2>2
<1>4. End(e) >= End(e)
  BY <1>1
<1> QED  BY <1>2, <1>3, <1>4 DEF Holds, Between

(* Where NAL e ends and nothing more was taken, the buffer is empty or is  *)
(* the code and NAL e.                                                     *)
LEMMA TailHolds ==
  ASSUME NEW k \in 0..N, NEW e \in 0..N, NEW b, Holds(b, End(e), k), ~HasNAL(b)
  PROVE  \/ HasTail(b) /\ k + 1 \in 1..N /\ e = k + 1 /\ SubSeq(b, 4, Len(b)) = Nals[k + 1].bytes
         \/ ~HasTail(b) /\ e = k /\ b = <<>>
<1> DEFINE t == End(e)
           p == Place(k + 1)
           L == Len(b)
<1>1. N \in Nat /\ t \in Nat /\ t <= End(N) /\ End(k) \in Nat /\ Holds(b, t, k)
  <2>1. N \in Nat /\ N \in 0..N /\ e \in 0..N
    BY NalFacts
  <2> QED  BY <2>1, Ends
<1> HIDE DEF t
<1>2. CASE AtCode(b, t, k)
  <2>1. /\ k + 1 \in 1..N /\ p \in Nat /\ p >= 1 /\ StartsWithin(b, p, t)
        /\ 1 \in Starts(b) /\ L = t - p + 1 /\ L \in Nat
    BY <1>1, <1>2, CodeFirst
  <2>2. t >= p + 2 /\ p >= End(k) + 1 /\ Stretch(b, p, t)
    <3>1. (k + 1) - 1 = k
      BY <1>1
    <3> QED  BY <1>2, <2>1, <3>1, Ends DEF AtCode
  <2>3. ~(e <= k)
    <3> SUFFICES ASSUME e <= k PROVE FALSE
      OBVIOUS
    <3>1. e \in 0..k
      BY <1>1
    <3>2. t <= End(k)
      BY <3>1, Ends DEF t
    <3> HIDE DEF p
    <3> QED  BY <1>1, <2>1, <2>2, <3>2
  <2>4. ~(k + 1 < e)
    <3> SUFFICES ASSUME k + 1 < e PROVE FALSE
      OBVIOUS
    <3> DEFINE q == Place(k + 2)
    <3>1. k + 1 \in 0..N /\ (k + 1) + 1 = k + 2
      BY <1>1, <2>1
    <3>2. k + 2 \in 1..N /\ t >= q + 3
      BY <3>1, EndsApart DEF t
    <3>3. q \in Nat /\ q >= p + 4
      <4>1. k + 1 < k + 2
        BY <1>1
      <4> QED  BY <2>1, <3>2, <4>1, PlacesApart, Ends
    <3>4. q >= p /\ q + 2 <= t
      <4> HIDE DEF p, q
      <4> QED  BY <1>1, <2>1, <3>2, <3>3
    <3>5. q - p + 1 \in Starts(b)
      BY <2>1, <3>2, <3>4 DEF StartsWithin
    <3>6. 1 < q - p + 1
      <4> HIDE DEF p, q
      <4> QED  BY <2>1, <3>3
    <3> QED  BY <2>1, <3>5, <3>6 DEF HasNAL
  <2>5. e = k + 1
    BY <1>1, <2>1, <2>3, <2>4
  <2> DEFINE nal == Nals[k + 1].bytes
  <2>6. /\ nal \in Seq(Byte) /\ Len(nal) \in Nat /\ Len(nal) >= 1
        /\ \A i \in 1..Len(nal) : Stream[p + 2 + i] = nal[i]
    BY <2>1, NalFacts, AllInStream DEF Sealed, InStream
  <2>7. t = p + 2 + Len(nal)
    BY <2>1, <2>5, Ends DEF t
  <2> HIDE DEF nal, p
  <2>8. L = 3 + Len(nal)
    BY <1>1, <2>1, <2>6, <2>7
  <2>9. HasTail(b)
    <3>1. L > 3
      BY <2>6, <2>8
    <3>2. IsStart(b, 1)
      BY <2>1 DEF Starts
    <3> QED  BY <3>1, <3>2 DEF HasTail
  <2>10. Stretch(SubSeq(b, 4, L), p + 3, t)
    <3>1. /\ 4 <= L + 1 /\ p + 3 = p + 4 - 1 /\ t = p + L - 1 /\ L <= Len(b)
          /\ 4 \in Nat /\ 4 >= 1
      BY <1>1, <2>1, <2>6, <2>8
    <3>2. t \in Nat /\ L \in Nat /\ p \in Nat /\ p >= 1 /\ Stretch(b, p, t)
      BY <1>1, <2>1, <2>2
    <3> HIDE DEF L
    <3> QED  BY <3>1, <3>2, StretchCut
  <2>11. Stretch(nal, p + 3, t)
    <3>1. ASSUME NEW i \in 1..Len(nal) PROVE nal[i] = Stream[p + 3 + i - 1]
      <4>1. p + 3 + i - 1 = p + 2 + i
        BY <2>1
      <4> QED  BY <2>6, <4>1
    <3>2. Len(nal) = t - (p + 3) + 1
      BY <2>1, <2>6, <2>7
    <3> QED  BY <2>6, <3>1, <3>2 DEF Stretch
  <2>12. SubSeq(b, 4, L) = nal
    BY <2>10, <2>11, StretchEqual
  <2> QED  BY <2>1, <2>5, <2>9, <2>12 DEF nal
<1>3. CASE Between(b, t, k)
  <2>1. t >= End(k) /\ (k < N => t < p + 2)
    BY <1>3 DEF Between
  <2>2. ~(e < k)
    <3> SUFFICES ASSUME e < k PROVE FALSE
      OBVIOUS
    <3>1. e + 1 \in 1..N /\ Place(e + 1) >= t + 1 /\ End(k) >= Place(e + 1) + 3
      BY EndsApart DEF t
    <3>2. Place(e + 1) \in Nat
      BY <3>1, Ends
    <3> QED  BY <1>1, <2>1, <3>1, <3>2
  <2>3. ~(k < e)
    <3> SUFFICES ASSUME k < e PROVE FALSE
      OBVIOUS
    <3>1. k + 1 \in 1..N /\ t >= p + 3
      BY EndsApart DEF t
    <3>2. p \in Nat /\ k < N
      BY <1>1, <3>1, Ends
    <3> HIDE DEF p
    <3> QED  BY <1>1, <2>1, <3>1, <3>2
  <2>4. e = k
    BY <1>1, <2>2, <2>3
  <2>5. b = <<>>
    BY <1>1, <1>3, <2>4, NoneBetween DEF t
  <2>6. ~HasTail(b)
    BY <2>5 DEF HasTail
  <2> QED  BY <2>4, <2>5, <2>6
<1> QED  BY <1>1, <1>2, <1>3 DEF Holds

-----------------------------------------------------------------------------
(* The access units                                                        *)

Slices == Seq(Seq(Byte)) \ {<<>>}
Added(us, nal) ==
  IF ~IsSlice(nal) THEN us
  ELSE IF us = <<>> \/ Opens(nal) THEN Append(us, <<nal>>)
  ELSE Append(Front(us), Append(Last(us), nal))

(* All but the last of a sequence, and the last.                           *)
LEMMA FrontLast ==
  ASSUME NEW S, NEW s \in Seq(S), s # <<>>
  PROVE  /\ Len(s) \in Nat /\ Len(s) >= 1 /\ Last(s) = s[Len(s)] /\ Last(s) \in S
         /\ Front(s) \in Seq(S) /\ Len(Front(s)) = Len(s) - 1
         /\ \A i \in 1..(Len(s) - 1) : Front(s)[i] = s[i]
<1> DEFINE k == Len(s)
<1>1. k \in Nat /\ k >= 1 /\ \A i \in 1..k : s[i] \in S
  BY LenProperties, EmptySeq, ElementOfSeq
<1> HIDE DEF k
<1>2. Front(s) = SubSeq(s, 1, k - 1) /\ Last(s) = s[k]
  BY DEF Front, Last, k
<1>3. \A i \in 1..(k - 1) : s[i] \in S
  BY <1>1
<1>4. /\ SubSeq(s, 1, k - 1) \in Seq(S)
      /\ Len(SubSeq(s, 1, k - 1)) = (IF 1 <= k - 1 THEN k - 1 - 1 + 1 ELSE 0)
      /\ \A i \in 1..(k - 1 - 1 + 1) : SubSeq(s, 1, k - 1)[i] = s[1 + i - 1]
  <2>1. 1 \in Int /\ k - 1 \in Int
    BY <1>1
  <2> QED  BY <1>3, <2>1, SubSeqProperties
<1>5. \A i \in 1..(k - 1) : Front(s)[i] = s[i]
  <2> SUFFICES ASSUME NEW i \in 1..(k - 1) PROVE Front(s)[i] = s[i]
    OBVIOUS
  <2>1. i \in 1..(k - 1 - 1 + 1) /\ 1 + i - 1 = i
    BY <1>1
  <2> QED  BY <1>2, <1>4, <2>1
<1>6. Len(Front(s)) = k - 1
  BY <1>1, <1>2, <1>4
<1>7. s[k] \in S
  BY <1>1
<1> QED  BY <1>1, <1>2, <1>4, <1>5, <1>6, <1>7 DEF k

(* What a NAL adds to the units before it: nothing, a unit of its own, or  *)
(* a slice to the last.                                                    *)
LEMMA AddedIs ==
  ASSUME NEW us \in Seq(Slices), NEW nal \in Seq(Byte)
  PROVE  /\ Added(us, nal) \in Seq(Slices)
         /\ ~IsSlice(nal) => Added(us, nal) = us
         /\ IsSlice(nal) /\ (us = <<>> \/ Opens(nal)) =>
              /\ Len(Added(us, nal)) = Len(us) + 1
              /\ \A i \in 1..Len(us) : Added(us, nal)[i] = us[i]
              /\ Added(us, nal)[Len(us) + 1] = <<nal>>
         /\ IsSlice(nal) /\ ~(us = <<>> \/ Opens(nal)) =>
              /\ Len(us) >= 1 /\ Len(Added(us, nal)) = Len(us)
              /\ \A i \in 1..(Len(us) - 1) : Added(us, nal)[i] = us[i]
              /\ Added(us, nal)[Len(us)] = Append(us[Len(us)], nal)
<1> DEFINE v == Added(us, nal)
           l == Len(us)
<1>0. l \in Nat
  BY LenProperties
<1>1. CASE ~IsSlice(nal)
  BY <1>1 DEF Added
<1>2. CASE IsSlice(nal) /\ (us = <<>> \/ Opens(nal))
  <2>1. v = Append(us, <<nal>>)
    BY <1>2 DEF Added
  <2>2. <<nal>> \in Slices
    BY DEF Slices
  <2>3. Append(us, <<nal>>) \in Seq(Slices)
    BY <2>2
  <2> QED  BY <1>2, <2>1, <2>2, <2>3, AppendProperties
<1>3. CASE IsSlice(nal) /\ ~(us = <<>> \/ Opens(nal))
  <2> DEFINE f == Front(us)
             x == Append(Last(us), nal)
  <2>1. v = Append(f, x)
    BY <1>3 DEF Added
  <2>2. /\ l >= 1 /\ Last(us) = us[l] /\ Last(us) \in Slices
        /\ f \in Seq(Slices) /\ Len(f) = l - 1 /\ \A i \in 1..(l - 1) : f[i] = us[i]
    BY <1>3, FrontLast
  <2>3. x \in Slices
    <3>1. Last(us) \in Seq(Seq(Byte))
      BY <2>2 DEF Slices
    <3>2. Append(Last(us), nal) \in Seq(Seq(Byte)) /\ Append(Last(us), nal) # <<>>
      BY <3>1, AppendProperties
    <3> QED  BY <3>2 DEF Slices
  <2> HIDE DEF f, x, v, l
  <2>4. /\ v \in Seq(Slices) /\ Len(v) = Len(f) + 1
        /\ \A i \in 1..Len(f) : v[i] = f[i]
        /\ v[Len(f) + 1] = x
    BY <2>1, <2>2, <2>3, AppendProperties
  <2>5. Len(f) + 1 = l /\ Len(f) = l - 1
    BY <1>0, <2>2
  <2>6. /\ v \in Seq(Slices) /\ Len(v) = l /\ v[l] = x
        /\ \A i \in 1..(l - 1) : v[i] = us[i]
    BY <2>2, <2>4, <2>5
  <2> QED  BY <1>3, <2>2, <2>6 DEF v, l, x
<1> QED  BY <1>1, <1>2, <1>3

LEMMA UnitsAre ==
  /\ Units[0] = <<>>
  /\ \A n \in 1..N : Units[n] = Added(Units[n - 1], Nals[n].bytes)
  /\ \A n \in 0..N : Units[n] \in Seq(Slices)
<1> DEFINE V == Seq(Slices)
           G == [x \in (1..N) \X V |-> Added(x[2], Nals[x[1]].bytes)]
           D == 0..N
           F(g) == [n \in D |-> IF n = 0 THEN <<>> ELSE Added(g[n - 1], Nals[n].bytes)]
<1>1. N \in Nat /\ <<>> \in V /\ G \in [(1..N) \X V -> V]
  <2>1. ASSUME NEW x \in (1..N) \X V PROVE Added(x[2], Nals[x[1]].bytes) \in V
    <3>1. x[1] \in 1..N /\ x[2] \in V
      OBVIOUS
    <3>2. Nals[x[1]].bytes \in Seq(Byte)
      BY <3>1, NalFacts DEF Sealed
    <3> QED  BY <3>1, <3>2, AddedIs
  <2> QED  BY <2>1, NalFacts
<1>2. PICK f : f \in [0..N -> V] /\ f[0] = <<>> /\ \A i \in 1..N : f[i] = G[<<i, f[i - 1]>>]
  <2> HIDE DEF V, G
  <2>1. \E f : Chain(f, V, <<>>, N, G)
    BY <1>1, OneAfterAnother
  <2> QED  BY <2>1 DEF Chain
<1>3. ASSUME NEW i \in 1..N PROVE i - 1 \in D /\ f[i] = Added(f[i - 1], Nals[i].bytes)
  <2>1. i - 1 \in 0..N
    BY <1>1
  <2>2. <<i, f[i - 1]>> \in (1..N) \X V
    BY <1>2, <2>1
  <2> QED  BY <1>2, <2>1, <2>2
<1>4. f = F(f)
  <2>1. ASSUME NEW n \in D PROVE f[n] = IF n = 0 THEN <<>> ELSE Added(f[n - 1], Nals[n].bytes)
    <3>1. CASE n = 0
      BY <1>2, <3>1
    <3>2. CASE n # 0
      <4>1. n \in 1..N
        BY <1>1, <3>2
      <4> QED  BY <1>3, <3>2, <4>1
    <3> QED  BY <3>1, <3>2
  <2> QED  BY <1>2, <2>1
<1>5. Units = F(Units)
  <2>1. Units = CHOOSE g : g = F(g)
    BY Zenon DEF Units, N, Added
  <2> HIDE DEF F
  <2> QED  BY <1>4, <2>1
<1>6. \A n \in D : Units[n] = IF n = 0 THEN <<>> ELSE Added(Units[n - 1], Nals[n].bytes)
  <2> DEFINE H(n) == IF n = 0 THEN <<>> ELSE Added(Units[n - 1], Nals[n].bytes)
  <2>1. Units = [n \in D |-> H(n)]
    BY <1>5
  <2> HIDE DEF H
  <2>2. \A n \in D : Units[n] = H(n)
    BY <2>1
  <2> QED  BY <2>2 DEF H
<1>7. ASSUME NEW n \in 1..N PROVE Units[n] = Added(Units[n - 1], Nals[n].bytes)
  <2>1. n \in D /\ n # 0
    BY <1>1
  <2> QED  BY <1>6, <2>1
<1>8. Units[0] = <<>>
  <2>1. 0 \in D
    BY <1>1
  <2> QED  BY <1>6, <2>1
<1>9. \A n \in D : Units[n] \in V
  <2> DEFINE S == {n \in D : Units[n] \in V}
  <2>1. 0 \in S
    <3>1. 0 \in D
      BY <1>1
    <3> HIDE DEF V, D
    <3>2. Units[0] \in V
      BY <1>1, <1>8
    <3> QED  BY <3>1, <3>2
  <2>2. ASSUME NEW i \in (0 + 1)..N, i - 1 \in S PROVE i \in S
    <3>1. i \in 1..N /\ i \in D /\ Units[i - 1] \in V
      BY <1>1, <2>2
    <3>2. Nals[i].bytes \in Seq(Byte)
      BY <3>1, NalFacts DEF Sealed
    <3>3. Units[i] \in V
      BY <1>7, <3>1, <3>2, AddedIs
    <3> QED  BY <3>1, <3>3
  <2> HIDE DEF S
  <2>3. 0..N \subseteq S
    BY <1>1, <2>1, <2>2, Climbs
  <2> QED  BY <2>3 DEF S
<1> QED  BY <1>7, <1>8, <1>9

LEMMA NalOf ==
  ASSUME NEW n \in 1..N
  PROVE  Nals[n].bytes \in Seq(Byte) /\ n - 1 \in 0..N /\ n \in 0..N /\ n \in Nat
         /\ Units[n] = Added(Units[n - 1], Nals[n].bytes) /\ Units[n - 1] \in Seq(Slices)
<1>1. N \in Nat /\ Nals[n].bytes \in Seq(Byte)
  BY NalFacts DEF Sealed
<1>2. n - 1 \in 0..N /\ n \in 0..N /\ n \in Nat
  BY <1>1
<1> QED  BY <1>1, <1>2, UnitsAre

(* There are units once there is a slice.                                  *)
LEMMA UnitsOfSlices ==
  \A n \in 0..N : Units[n] = <<>> <=> \A i \in 1..n : ~IsSlice(Nals[i].bytes)
<1> DEFINE S == {n \in 0..N : Units[n] = <<>> <=> \A i \in 1..n : ~IsSlice(Nals[i].bytes)}
<1>1. 0 \in S /\ N \in Nat
  BY UnitsAre, NalFacts
<1>2. ASSUME NEW n \in (0 + 1)..N, n - 1 \in S PROVE n \in S
  <2> DEFINE us == Units[n - 1]
             nal == Nals[n].bytes
             v == Units[n]
  <2>1. n \in 1..N
    BY <1>1
  <2>2. nal \in Seq(Byte) /\ n \in 0..N /\ n \in Nat /\ v = Added(us, nal) /\ us \in Seq(Slices)
    BY <2>1, NalOf
  <2>3. us = <<>> <=> \A i \in 1..(n - 1) : ~IsSlice(Nals[i].bytes)
    BY <1>2
  <2>4. \A i \in 1..n : i \in 1..(n - 1) \/ i = n
    BY <2>2
  <2>5. \A i \in 1..(n - 1) : i \in 1..n
    BY <2>2
  <2>6. v = <<>> <=> us = <<>> /\ ~IsSlice(nal)
    <3> HIDE DEF us, nal, v
    <3>1. CASE ~IsSlice(nal)
      BY <2>2, <3>1, AddedIs
    <3>2. CASE IsSlice(nal)
      <4>1. Len(us) \in Nat /\ v \in Seq(Slices)
        BY <2>2, AddedIs, LenProperties
      <4>2. Len(v) >= 1
        <5>1. CASE us = <<>> \/ Opens(nal)
          <6>1. Len(v) = Len(us) + 1
            BY <2>2, <3>2, <5>1, AddedIs
          <6> QED  BY <4>1, <6>1
        <5>2. CASE ~(us = <<>> \/ Opens(nal))
          BY <2>2, <3>2, <5>2, AddedIs
        <5> QED  BY <5>1, <5>2
      <4> QED  BY <3>2, <4>2
    <3> QED  BY <3>1, <3>2
  <2>7. v = <<>> <=> \A i \in 1..n : ~IsSlice(Nals[i].bytes)
    <3>1. n \in 1..n
      BY <2>1, <2>2
    <3> HIDE DEF us, v
    <3> QED  BY <2>3, <2>4, <2>5, <2>6, <3>1
  <2> QED  BY <2>2, <2>7
<1> HIDE DEF S
<1>3. 0..N \subseteq S
  BY <1>1, <1>2, Climbs
<1> QED  BY <1>3 DEF S

(* Units grow at their end: all but the last of the units of some NALs are *)
(* units of more, and where no unit is cut so is the last.                 *)
LEMMA UnitsGrow ==
  ASSUME NEW k \in 0..N, NEW m \in k..N
  PROVE  /\ Len(Units[k]) \in Nat /\ Len(Units[m]) \in Nat /\ Len(Units[k]) <= Len(Units[m])
         /\ \A i \in 1..(Len(Units[k]) - 1) : Units[m][i] = Units[k][i]
<1> DEFINE us == Units[k]
           l == Len(us)
           S == {n \in k..N : l <= Len(Units[n]) /\ \A i \in 1..(l - 1) : Units[n][i] = us[i]}
<1>1. N \in Nat /\ k \in Nat /\ l \in Nat /\ k \in k..N
  BY NalFacts, UnitsAre, LenProperties
<1>2. k \in S
  BY <1>1
<1>3. ASSUME NEW n \in (k + 1)..N, n - 1 \in S PROVE n \in S
  <2> DEFINE vs == Units[n - 1]
             nal == Nals[n].bytes
             v == Units[n]
             j == Len(vs)
  <2>1. n \in 1..N /\ n \in k..N
    BY <1>1
  <2>2. nal \in Seq(Byte) /\ v = Added(vs, nal) /\ vs \in Seq(Slices) /\ j \in Nat
    BY <2>1, NalOf, LenProperties
  <2>3. l <= j /\ \A i \in 1..(l - 1) : vs[i] = us[i]
    BY <1>3
  <2> HIDE DEF us, l, nal, vs, v
  <2>4. j <= Len(v) /\ \A i \in 1..(j - 1) : v[i] = vs[i]
    <3>1. CASE ~IsSlice(nal)
      BY <2>2, <3>1, AddedIs
    <3>2. CASE IsSlice(nal) /\ (vs = <<>> \/ Opens(nal))
      <4>1. Len(v) = j + 1 /\ \A i \in 1..j : v[i] = vs[i]
        BY <2>2, <3>2, AddedIs
      <4> QED  BY <2>2, <4>1
    <3>3. CASE IsSlice(nal) /\ ~(vs = <<>> \/ Opens(nal))
      <4>1. Len(v) = j /\ \A i \in 1..(j - 1) : v[i] = vs[i]
        BY <2>2, <3>3, AddedIs
      <4> QED  BY <2>2, <4>1
    <3> QED  BY <3>1, <3>2, <3>3
  <2>5. Len(v) \in Nat
    BY <2>2, AddedIs, LenProperties
  <2> HIDE DEF j
  <2>6. l <= Len(v) /\ \A i \in 1..(l - 1) : v[i] = us[i]
    <3>1. \A i \in 1..(l - 1) : i \in 1..(j - 1)
      BY <1>1, <2>2, <2>3
    <3> QED  BY <1>1, <2>2, <2>3, <2>4, <2>5, <3>1
  <2> QED  BY <2>1, <2>6 DEF v
<1> HIDE DEF S
<1>4. k..N \subseteq S
  BY <1>1, <1>2, <1>3, Climbs
<1>5. Len(Units[m]) \in Nat
  <2>1. m \in 0..N
    BY <1>1
  <2> QED  BY <2>1, UnitsAre, LenProperties
<1> QED  BY <1>1, <1>4, <1>5 DEF S

LEMMA WholeUnitsStay ==
  ASSUME NEW k \in UnitEnds, NEW m \in k..N
  PROVE  Len(Units[k]) <= Len(Units[m]) /\ \A i \in 1..Len(Units[k]) : Units[m][i] = Units[k][i]
<1> DEFINE us == Units[k]
           l == Len(us)
           None(n) == Units[n] = us /\ \A j \in (k + 1)..n : ~IsSlice(Nals[j].bytes)
           More(n) == Len(Units[n]) > l /\ \A i \in 1..l : Units[n][i] = us[i]
           S == {n \in k..N : None(n) \/ More(n)}
<1>1. N \in Nat /\ k \in Nat /\ k \in 0..N /\ l \in Nat /\ k \in k..N
  <2>1. N \in Nat /\ k \in 0..N
    BY NalFacts DEF UnitEnds, N
  <2> QED  BY <2>1, UnitsAre, LenProperties
<1>2. k \in S
  BY <1>1
<1>3. ASSUME NEW n \in (k + 1)..N, n - 1 \in S PROVE n \in S
  <2> DEFINE vs == Units[n - 1]
             nal == Nals[n].bytes
             v == Units[n]
             j == Len(vs)
  <2>1. n \in 1..N /\ n \in k..N /\ n \in Nat
    BY <1>1
  <2>2. nal \in Seq(Byte) /\ v = Added(vs, nal) /\ vs \in Seq(Slices) /\ j \in Nat
    BY <2>1, NalOf, LenProperties
  <2>3. CASE None(n - 1)
    <3>1. vs = us /\ \A i \in (k + 1)..(n - 1) : ~IsSlice(Nals[i].bytes)
      BY <2>3
    <3>2. CASE ~IsSlice(nal)
      <4>1. v = us
        BY <2>2, <3>1, <3>2, AddedIs
      <4>2. \A i \in (k + 1)..n : i \in (k + 1)..(n - 1) \/ i = n
        BY <1>1, <2>1
      <4>3. None(n)
        BY <3>1, <3>2, <4>1, <4>2
      <4> QED  BY <2>1, <4>3
    <3>3. CASE IsSlice(nal)
      <4>1. Opens(nal)
        BY <3>1, <3>3 DEF UnitEnds, N
      <4> HIDE DEF us, vs, nal, v
      <4>2. Len(v) = l + 1 /\ \A i \in 1..l : v[i] = us[i]
        BY <2>2, <3>1, <3>3, <4>1, AddedIs
      <4>3. More(n)
        BY <1>1, <4>2 DEF v
      <4> QED  BY <2>1, <4>3
    <3> QED  BY <3>2, <3>3
  <2>4. CASE More(n - 1)
    <3>1. j > l /\ \A i \in 1..l : vs[i] = us[i]
      BY <2>4
    <3> HIDE DEF us, vs, nal, v
    <3>2. j <= Len(v) /\ \A i \in 1..(j - 1) : v[i] = vs[i]
      <4>1. CASE ~IsSlice(nal)
        BY <2>2, <4>1, AddedIs
      <4>2. CASE IsSlice(nal) /\ (vs = <<>> \/ Opens(nal))
        <5>1. Len(v) = j + 1 /\ \A i \in 1..j : v[i] = vs[i]
          BY <2>2, <4>2, AddedIs
        <5> QED  BY <2>2, <5>1
      <4>3. CASE IsSlice(nal) /\ ~(vs = <<>> \/ Opens(nal))
        <5>1. Len(v) = j /\ \A i \in 1..(j - 1) : v[i] = vs[i]
          BY <2>2, <4>3, AddedIs
        <5> QED  BY <2>2, <5>1
      <4> QED  BY <4>1, <4>2, <4>3
    <3>3. Len(v) \in Nat
      BY <2>2, AddedIs, LenProperties
    <3> HIDE DEF j, l
    <3>4. Len(v) > l /\ \A i \in 1..l : v[i] = us[i]
      <4>1. \A i \in 1..l : i \in 1..(j - 1)
        BY <1>1, <2>2, <3>1
      <4> QED  BY <1>1, <2>2, <3>1, <3>2, <3>3, <4>1
    <3>5. More(n)
      BY <3>4 DEF v, l
    <3> QED  BY <2>1, <3>5
  <2> QED  BY <1>3, <2>3, <2>4
<1> HIDE DEF S
<1>4. k..N \subseteq S
  BY <1>1, <1>2, <1>3, Climbs
<1>5. CASE None(m)
  BY <1>1, <1>5
<1>6. CASE More(m)
  <2>1. Len(Units[m]) \in Nat
    BY <1>1, UnitsAre, LenProperties
  <2> QED  BY <1>1, <1>6, <2>1
<1> QED  BY <1>4, <1>5, <1>6 DEF S

-----------------------------------------------------------------------------
(* The parameter sets and what describes the stream                        *)

TypeOf(n) == NalType(Nals[n].bytes)

LEMMA ParamIs ==
  ASSUME NEW t, NEW n \in 1..N
  PROVE  Param(t, n) = IF TypeOf(n) = t THEN Nals[n].bytes ELSE Param(t, n - 1)
<1> DEFINE S(m) == {k \in 1..m : TypeOf(k) = t}
<1>1. N \in Nat /\ n \in Nat /\ n - 1 \in Nat
  BY NalFacts
<1>2. \A m \in Nat : Param(t, m) = IF S(m) = {} THEN <<>> ELSE Nals[Max(S(m))].bytes
  BY DEF Param, TypeOf
<1>3. CASE TypeOf(n) = t
  <2>1. n \in S(n) /\ S(n) \subseteq 1..n
    BY <1>1, <1>3
  <2>2. Max(S(n)) \in S(n) /\ Max(S(n)) >= n
    <3> HIDE DEF S
    <3> QED  BY <1>1, <2>1, MaxOf
  <2>3. Max(S(n)) = n
    BY <1>1, <2>1, <2>2
  <2> HIDE DEF S
  <2>4. S(n) # {} /\ n \in Nat
    BY <1>1, <2>1
  <2> QED  BY <1>2, <1>3, <2>3, <2>4
<1>4. CASE TypeOf(n) # t
  <2>1. S(n) = S(n - 1)
    <3>1. \A k : k \in 1..n <=> k \in 1..(n - 1) \/ k = n
      BY <1>1
    <3> QED  BY <1>4, <3>1
  <2> HIDE DEF S
  <2> QED  BY <1>1, <1>2, <1>4, <2>1
<1> QED  BY <1>3, <1>4

LEMMA ParamTyped == ASSUME NEW t, NEW n \in 0..N PROVE Param(t, n) \in Seq(Byte)
<1> DEFINE S == {k \in 1..n : TypeOf(k) = t}
<1>1. N \in Nat /\ n \in Nat /\ S \subseteq 1..n /\ Param(t, n) = IF S = {} THEN <<>> ELSE Nals[Max(S)].bytes
  BY NalFacts DEF Param, TypeOf
<1> HIDE DEF S
<1>2. CASE S = {}
  BY <1>1, <1>2
<1>3. CASE S # {}
  <2>1. Max(S) \in 1..N
    <3>1. Max(S) \in 1..n
      BY <1>1, <1>3, MaxOf
    <3> QED  BY <1>1, <3>1
  <2>2. Nals[Max(S)].bytes \in Seq(Byte)
    BY <2>1, NalOf
  <2> QED  BY <1>1, <1>3, <2>2
<1> QED  BY <1>2, <1>3

LEMMA FirstSliceIs ==
  ASSUME NEW n \in 1..N, IsSlice(Nals[n].bytes), \A i \in 1..(n - 1) : ~IsSlice(Nals[i].bytes)
  PROVE  FirstSlice = n
<1> DEFINE S == {i \in DOMAIN Nals : IsSlice(Nals[i].bytes)}
<1>1. N \in Nat /\ DOMAIN Nals = 1..N
  BY NalFacts, NalsAssumption DEF N
<1>2. S \subseteq Nat /\ n \in S
  BY <1>1
<1>3. ASSUME NEW i \in S PROVE n <= i
  <2>1. i \in 1..N /\ i \notin 1..(n - 1)
    BY <1>1
  <2> QED  BY <1>1, <2>1
<1>4. Min(S) \in S /\ \A j \in S : Min(S) <= j
  BY <1>2, MinOf
<1>5. Min(S) <= n /\ n <= Min(S) /\ Min(S) \in Nat /\ n \in Nat
  BY <1>2, <1>3, <1>4
<1> HIDE DEF S
<1>6. Min(S) = n
  BY <1>5
<1> QED  BY <1>6 DEF FirstSlice, S

Frame == [kind : {"description", "keyframe", "delta"}, slices : Seq(Seq(Byte))]

LEMMA FrameTyped == ASSUME NEW s \in Seq(Seq(Byte)) PROVE FrameOf(s) \in Frame
<1>1. FrameOf(s).kind \in {"description", "keyframe", "delta"}
  BY DEF FrameOf
<1> QED  BY <1>1 DEF FrameOf, Frame

LEMMA AvccTyped == ASSUME Units[N] # <<>> PROVE Avcc \in Frame
<1>1. N \in Nat /\ N \in 0..N
  BY NalFacts
<1>2. PICK n \in 1..N : IsSlice(Nals[n].bytes)
  BY <1>1, UnitsOfSlices
<1> DEFINE S == {i \in DOMAIN Nals : IsSlice(Nals[i].bytes)}
<1>3. DOMAIN Nals = 1..N
  BY NalsAssumption DEF N
<1>4. S \subseteq Nat /\ S # {}
  BY <1>1, <1>2, <1>3
<1>5. Min(S) \in S
  BY <1>4, MinOf
<1>6. FirstSlice \in 0..N
  BY <1>1, <1>3, <1>5 DEF FirstSlice
<1>7. Param(SPS, FirstSlice) \in Seq(Byte) /\ Param(PPS, FirstSlice) \in Seq(Byte)
  BY <1>6, ParamTyped
<1>8. <<Param(SPS, FirstSlice), Param(PPS, FirstSlice)>> \in Seq(Seq(Byte))
  BY <1>7
<1> QED  BY <1>8 DEF Avcc, Frame

-----------------------------------------------------------------------------
(* What the repacker wrote                                                 *)

(* The description and the first l of the units.                           *)
Wrote(out, us, l) ==
  Len(out) = l + 1 /\ out[1] = Avcc /\ \A i \in 1..l : out[i + 1] = FrameOf(us[i])

(* With NAL k handled, the parameter sets seen are those before it, and    *)
(* all its units are written but the last, which is pending; or that one   *)
(* too, where no unit is cut.                                              *)
Written(st, k) ==
  LET us == Units[k]
  IN /\ st \in [param : [{SPS, PPS} -> Seq(Byte)], au : Seq(Seq(Byte)), out : Seq(Frame)]
     /\ st.param[SPS] = Param(SPS, k) /\ st.param[PPS] = Param(PPS, k)
     /\ \/ us = <<>> /\ st.au = <<>> /\ st.out = <<>>
        \/ us # <<>> /\ st.au = us[Len(us)] /\ Wrote(st.out, us, Len(us) - 1)
        \/ us # <<>> /\ st.au = <<>> /\ k \in UnitEnds /\ Wrote(st.out, us, Len(us))

LEMMA WroteOneMore ==
  ASSUME NEW out \in Seq(Frame), NEW us, NEW l \in Nat, Wrote(out, us, l),
         NEW x \in Frame, x = FrameOf(us[l + 1])
  PROVE  Append(out, x) \in Seq(Frame) /\ Wrote(Append(out, x), us, l + 1)
<1> DEFINE v == Append(out, x)
<1>1. /\ v \in Seq(Frame) /\ Len(v) = Len(out) + 1 /\ \A i \in 1..Len(out) : v[i] = out[i]
      /\ v[Len(out) + 1] = x
  BY AppendProperties
<1>2. Len(out) = l + 1 /\ out[1] = Avcc /\ \A i \in 1..l : out[i + 1] = FrameOf(us[i])
  BY DEF Wrote
<1> HIDE DEF v
<1>3. Len(v) = (l + 1) + 1 /\ v[1] = Avcc
  BY <1>1, <1>2
<1>4. ASSUME NEW i \in 1..(l + 1) PROVE v[i + 1] = FrameOf(us[i])
  <2>1. CASE i = l + 1
    BY <1>1, <1>2, <2>1
  <2>2. CASE i # l + 1
    <3>1. i \in 1..l /\ i + 1 \in 1..(l + 1)
      BY <2>2
    <3> QED  BY <1>1, <1>2, <3>1
  <2> QED  BY <2>1, <2>2
<1>5. Wrote(v, us, l + 1)
  BY <1>3, <1>4 DEF Wrote
<1> QED  BY <1>1, <1>5 DEF v

(* Units that begin alike are written alike.                               *)
LEMMA WroteAlike ==
  ASSUME NEW out, NEW us, NEW vs, NEW l \in Nat, Wrote(out, us, l),
         \A i \in 1..l : vs[i] = us[i]
  PROVE  Wrote(out, vs, l)
BY DEF Wrote

LEMMA LastUnit ==
  ASSUME NEW k \in 0..N, Units[k] # <<>>
  PROVE  LET l == Len(Units[k]) IN
         l \in Nat /\ l >= 1 /\ Units[k][l] \in Seq(Seq(Byte)) /\ Units[k][l] # <<>>
<1> DEFINE us == Units[k]
<1>1. us \in Seq(Slices)
  BY UnitsAre
<1> HIDE DEF us
<1>2. us # <<>> => Len(us) \in Nat /\ Len(us) >= 1 /\ us[Len(us)] \in Slices
  BY <1>1, FrontLast
<1> QED  BY <1>2 DEF us, Slices

LEMMA FlushWritten ==
  ASSUME NEW k \in UnitEnds, NEW st, Written(st, k)
  PROVE  Written(FlushUnit(st), k) /\ FlushUnit(st).au = <<>>
<1> DEFINE us == Units[k]
           l == Len(us)
           f == FlushUnit(st)
<1>0. k \in 0..N
  BY DEF UnitEnds, N
<1>1. CASE st.au = <<>>
  <2>1. f = st
    BY <1>1 DEF FlushUnit
  <2> QED  BY <1>1, <2>1
<1>2. CASE st.au # <<>>
  <2>1. /\ st \in [param : [{SPS, PPS} -> Seq(Byte)], au : Seq(Seq(Byte)), out : Seq(Frame)]
        /\ st.param[SPS] = Param(SPS, k) /\ st.param[PPS] = Param(PPS, k)
        /\ us # <<>> /\ st.au = us[l] /\ Wrote(st.out, us, l - 1)
    BY <1>2 DEF Written
  <2>2. l \in Nat /\ l >= 1 /\ us[l] \in Seq(Seq(Byte))
    BY <1>0, <2>1, LastUnit
  <2> DEFINE x == FrameOf(st.au)
             out == Append(st.out, x)
  <2>3. x \in Frame /\ x = FrameOf(us[(l - 1) + 1]) /\ l - 1 \in Nat /\ (l - 1) + 1 = l
    <3>1. st.au \in Seq(Seq(Byte))
      BY <2>1
    <3>2. x \in Frame
      BY <3>1, FrameTyped
    <3> HIDE DEF l
    <3>3. l - 1 \in Nat /\ (l - 1) + 1 = l
      BY <2>2
    <3> QED  BY <2>1, <3>2, <3>3
  <2>4. f = [st EXCEPT !.au = <<>>, !.out = out]
    BY <1>2 DEF FlushUnit
  <2> HIDE DEF x, us, l
  <2>5. out \in Seq(Frame) /\ Wrote(out, us, l)
    <3>1. st.out \in Seq(Frame)
      BY <2>1
    <3> QED  BY <2>1, <2>3, <3>1, WroteOneMore, SMTT(30)
  <2> HIDE DEF out, f
  <2>6. /\ f \in [param : [{SPS, PPS} -> Seq(Byte)], au : Seq(Seq(Byte)), out : Seq(Frame)]
        /\ f.param = st.param /\ f.au = <<>> /\ f.out = out
    <3> DEFINE A == [{SPS, PPS} -> Seq(Byte)]
               B == Seq(Seq(Byte))
               C == Seq(Frame)
    <3>1. st \in [param : A, au : B, out : C] /\ <<>> \in B /\ out \in C
      BY <2>1, <2>5
    <3> HIDE DEF A, B, C
    <3>2. f \in [param : A, au : B, out : C] /\ f.param = st.param /\ f.au = <<>> /\ f.out = out
      BY <2>4, <3>1
    <3> QED  BY <3>2 DEF A, B, C
  <2>7. Written(f, k)
    BY <2>1, <2>5, <2>6 DEF Written, us, l
  <2> QED  BY <2>6, <2>7 DEF f
<1> QED  BY <1>1, <1>2

(* The next NAL, handled.                                                  *)
LEMMA HandleWritten ==
  ASSUME NEW k \in 0..N, k + 1 \in 1..N, NEW st, Written(st, k)
  PROVE  Written(HandleNAL(st, Nals[k + 1].bytes), k + 1)
<1> DEFINE n == k + 1
           nal == Nals[n].bytes
           us == Units[k]
           vs == Units[n]
           l == Len(us)
           A == [{SPS, PPS} -> Seq(Byte)]
           B == Seq(Seq(Byte))
           C == Seq(Frame)
           h == HandleNAL(st, nal)
<1>1. /\ st \in [param : A, au : B, out : C] /\ nal \in Seq(Byte)
      /\ st.param[SPS] = Param(SPS, k) /\ st.param[PPS] = Param(PPS, k)
      /\ n \in 0..N /\ n \in 1..N /\ n - 1 = k /\ us \in Seq(Slices) /\ vs = Added(us, nal)
      /\ N \in Nat /\ k \in Nat
  <2>1. n \in 1..N /\ n - 1 = k /\ N \in Nat /\ k \in Nat /\ n \in 0..N
    BY NalFacts
  <2>2. nal \in Seq(Byte) /\ us \in Seq(Slices) /\ vs = Added(us, nal)
    BY <2>1, NalOf
  <2>3. /\ st \in [param : A, au : B, out : C]
        /\ st.param[SPS] = Param(SPS, k) /\ st.param[PPS] = Param(PPS, k)
    BY DEF Written
  <2> HIDE DEF n, nal, us, vs, A, B, C
  <2> QED  BY <2>1, <2>2, <2>3
<1>2. \A t : Param(t, n) = IF NalType(nal) = t THEN nal ELSE Param(t, k)
  BY <1>1, ParamIs DEF TypeOf
<1>3. CASE ~IsSlice(nal)
  <2>1. h.au = st.au /\ h.out = st.out /\ h \in [param : A, au : B, out : C]
        /\ h.param[SPS] = Param(SPS, n) /\ h.param[PPS] = Param(PPS, n)
    <3> HIDE DEF n, nal, B, C
    <3>1. CASE NalType(nal) \in {SPS, PPS}
      <4>1. h = [st EXCEPT !.param[NalType(nal)] = nal]
        BY <3>1 DEF HandleNAL
      <4> DEFINE p == [st.param EXCEPT ![NalType(nal)] = nal]
      <4>2. /\ p \in A
            /\ p[SPS] = (IF NalType(nal) = SPS THEN nal ELSE st.param[SPS])
            /\ p[PPS] = (IF NalType(nal) = PPS THEN nal ELSE st.param[PPS])
        BY <1>1, <3>1 DEF SPS, PPS
      <4>3. h = [st EXCEPT !.param = p]
        BY <1>1, <4>1
      <4> HIDE DEF p, A, h
      <4>4. h.param = p /\ h.au = st.au /\ h.out = st.out /\ h \in [param : A, au : B, out : C]
        BY <1>1, <4>2, <4>3
      <4> QED  BY <1>1, <1>2, <4>2, <4>4
    <3>2. CASE NalType(nal) \notin {SPS, PPS}
      <4>1. h = st
        BY <1>3, <3>2 DEF HandleNAL
      <4> QED  BY <1>1, <1>2, <3>2, <4>1
    <3> QED  BY <3>1, <3>2
  <2>2. vs = us
    BY <1>1, <1>3, AddedIs
  <2>3. k \in UnitEnds => n \in UnitEnds
    <3> SUFFICES ASSUME k \in UnitEnds, NEW i \in (n + 1)..N, IsSlice(Nals[i].bytes),
                        \A j \in (n + 1)..(i - 1) : ~IsSlice(Nals[j].bytes)
                 PROVE  Opens(Nals[i].bytes)
      BY <1>1 DEF UnitEnds, N
    <3>1. i \in (k + 1)..N /\ \A j \in (k + 1)..(i - 1) : j = n \/ j \in (n + 1)..(i - 1)
      BY <1>1
    <3>2. \A j \in (k + 1)..(i - 1) : ~IsSlice(Nals[j].bytes)
      BY <1>3, <3>1
    <3>3. \A x \in (k + 1)..N : IsSlice(Nals[x].bytes) /\ (\A j \in (k + 1)..(x - 1) : ~IsSlice(Nals[j].bytes))
                                => Opens(Nals[x].bytes)
      BY DEF UnitEnds, N
    <3> HIDE DEF n, nal
    <3> QED  BY <3>1, <3>2, <3>3
  <2>4. \/ us = <<>> /\ st.au = <<>> /\ st.out = <<>>
        \/ us # <<>> /\ st.au = us[Len(us)] /\ Wrote(st.out, us, Len(us) - 1)
        \/ us # <<>> /\ st.au = <<>> /\ k \in UnitEnds /\ Wrote(st.out, us, Len(us))
    BY DEF Written
  <2>5. \/ vs = <<>> /\ h.au = <<>> /\ h.out = <<>>
        \/ vs # <<>> /\ h.au = vs[Len(vs)] /\ Wrote(h.out, vs, Len(vs) - 1)
        \/ vs # <<>> /\ h.au = <<>> /\ n \in UnitEnds /\ Wrote(h.out, vs, Len(vs))
    <3> HIDE DEF us, vs, h, n
    <3> QED  BY <2>1, <2>2, <2>3, <2>4
  <2> HIDE DEF h, n
  <2>6. Written(h, n)
    BY <2>1, <2>5 DEF Written
  <2> QED  BY <2>6 DEF h, n
<1>4. CASE IsSlice(nal)
  <2>1. NalType(nal) \notin {SPS, PPS} /\ Param(SPS, n) = Param(SPS, k) /\ Param(PPS, n) = Param(PPS, k)
    <3>1. NalType(nal) \notin {SPS, PPS}
      BY <1>4 DEF IsSlice, SPS, PPS, IDR, NonIDR
    <3> QED  BY <1>2, <3>1
  <2> DEFINE d == Describe(st)
             f == IF Opens(nal) THEN FlushUnit(d) ELSE d
  <2>2. h = [f EXCEPT !.au = Append(@, nal)]
    BY <1>4, <2>1 DEF HandleNAL
  <2>3. CASE us = <<>>
    <3>1. st.au = <<>> /\ st.out = <<>>
      BY <2>3 DEF Written
    <3> DEFINE a == [kind |-> "description", slices |-> <<st.param[SPS], st.param[PPS]>>]
    <3>2. d = [st EXCEPT !.out = <<a>>]
      BY <3>1 DEF Describe
    <3>3. a = Avcc /\ a \in Frame
      <4>1. \A i \in 1..(n - 1) : ~IsSlice(Nals[i].bytes)
        BY <1>1, <2>3, UnitsOfSlices
      <4>2. FirstSlice = n
        BY <1>1, <1>4, <4>1, FirstSliceIs
      <4> HIDE DEF n
      <4>3. a = Avcc
        BY <1>1, <2>1, <4>2 DEF Avcc
      <4>4. st.param[SPS] \in Seq(Byte) /\ st.param[PPS] \in Seq(Byte)
        BY <1>1
      <4>5. <<st.param[SPS], st.param[PPS]>> \in Seq(Seq(Byte))
        BY <4>4
      <4> QED  BY <4>3, <4>5 DEF Frame
    <3> HIDE DEF a, B, C, A, d
    <3>4. d.param = st.param /\ d.au = <<>> /\ d.out = <<a>> /\ d \in [param : A, au : B, out : C]
      <4>1. <<a>> \in C
        BY <3>3 DEF C
      <4> QED  BY <1>1, <3>1, <3>2, <4>1
    <3>5. f = d
      BY <3>4 DEF FlushUnit
    <3> HIDE DEF f, h, nal, n
    <3>6. h = [d EXCEPT !.au = <<nal>>] /\ <<nal>> \in B
      <4>1. Append(<<>>, nal) = <<nal>>
        OBVIOUS
      <4>2. <<nal>> \in B
        BY <1>1 DEF B
      <4> QED  BY <2>2, <3>4, <3>5, <4>1, <4>2
    <3>7. h.param = st.param /\ h.au = <<nal>> /\ h.out = <<a>> /\ h \in [param : A, au : B, out : C]
      BY <3>4, <3>6
    <3>8. vs # <<>> /\ Len(vs) = 1 /\ vs[1] = <<nal>>
      <4>1. Len(us) = 0 /\ Len(vs) = Len(us) + 1 /\ vs[Len(us) + 1] = <<nal>>
        <5> HIDE DEF us, vs
        <5>1. Len(us) = 0
          BY <2>3
        <5> QED  BY <1>1, <1>4, <2>3, <5>1, AddedIs
      <4> HIDE DEF us, vs
      <4> QED  BY <4>1
    <3>9. Wrote(h.out, vs, Len(vs) - 1)
      <4>1. Len(h.out) = 0 + 1 /\ h.out[1] = Avcc
        BY <3>3, <3>7
      <4>2. Len(vs) - 1 = 0 /\ 1..0 = {}
        BY <3>8
      <4>3. Wrote(h.out, vs, 0)
        BY <4>1, <4>2 DEF Wrote
      <4> HIDE DEF vs
      <4> QED  BY <4>2, <4>3
    <3>10. h.param[SPS] = Param(SPS, n) /\ h.param[PPS] = Param(PPS, n)
      BY <1>1, <2>1, <3>7
    <3>11. Written(h, n)
      BY <3>7, <3>8, <3>9, <3>10 DEF Written, A, B, C
    <3> QED  BY <3>11 DEF h, n, nal
  <2>4. CASE us # <<>>
    <3>1. \/ st.au = us[l] /\ Wrote(st.out, us, l - 1)
          \/ st.au = <<>> /\ k \in UnitEnds /\ Wrote(st.out, us, l)
      BY <2>4 DEF Written
    <3>2. l \in Nat /\ l >= 1 /\ us[l] \in B /\ us[l] # <<>>
      BY <2>4, LastUnit
    <3> HIDE DEF us, l
    <3>3. d = st
      <4>1. st.out # <<>>
        <5>1. Len(st.out) # 0
          BY <3>1, <3>2 DEF Wrote
        <5> QED  BY <5>1
      <4> QED  BY <4>1 DEF Describe
    <3>4. CASE Opens(nal)
      <4>1. f = FlushUnit(st)
        BY <3>3, <3>4
      <4> HIDE DEF A, B, C, f, h, nal, n
      <4>2. f.au = <<>> /\ f.param = st.param /\ Wrote(f.out, us, l) /\ f \in [param : A, au : B, out : C]
        <5>1. CASE st.au = <<>>
          <6>1. f = st
            BY <4>1, <5>1 DEF FlushUnit
          <6> QED  BY <1>1, <3>1, <3>2, <5>1, <6>1
        <5>2. CASE st.au # <<>>
          <6> DEFINE x == FrameOf(st.au)
                     out == Append(st.out, x)
          <6>1. st.au = us[l] /\ Wrote(st.out, us, l - 1)
            BY <3>1, <5>2
          <6>2. x \in Frame /\ x = FrameOf(us[l]) /\ l - 1 \in Nat /\ (l - 1) + 1 = l
            BY <3>2, <6>1, FrameTyped DEF B
          <6>3. f = [st EXCEPT !.au = <<>>, !.out = out]
            BY <4>1, <5>2 DEF FlushUnit
          <6> HIDE DEF x
          <6>4. out \in Seq(Frame) /\ Wrote(out, us, l)
            <7>1. st.out \in Seq(Frame)
              BY <1>1 DEF C
            <7> QED  BY <6>1, <6>2, <7>1, WroteOneMore
          <6>5. <<>> \in B /\ out \in C
            BY <6>4 DEF B, C
          <6> HIDE DEF out
          <6> QED  BY <1>1, <6>3, <6>4, <6>5
        <5> QED  BY <5>1, <5>2
      <4>3. h.param = st.param /\ h.au = <<nal>> /\ h.out = f.out /\ h \in [param : A, au : B, out : C]
        <5>1. Append(<<>>, nal) = <<nal>>
          OBVIOUS
        <5>2. <<nal>> \in B
          BY <1>1 DEF B
        <5> QED  BY <2>2, <4>2, <5>1, <5>2
      <4>4. Len(vs) = l + 1 /\ vs[l + 1] = <<nal>> /\ \A i \in 1..l : vs[i] = us[i]
        <5> HIDE DEF vs
        <5> QED  BY <1>1, <1>4, <3>4, AddedIs DEF l
      <4>5. vs # <<>> /\ h.au = vs[Len(vs)] /\ Len(vs) - 1 = l
        <5> HIDE DEF vs
        <5> QED  BY <3>2, <4>3, <4>4
      <4>6. Wrote(h.out, vs, Len(vs) - 1)
        <5> HIDE DEF vs
        <5> QED  BY <3>2, <4>2, <4>3, <4>4, <4>5, WroteAlike
      <4>7. h.param[SPS] = Param(SPS, n) /\ h.param[PPS] = Param(PPS, n)
        BY <1>1, <2>1, <4>3
      <4>8. Written(h, n)
        BY <4>3, <4>5, <4>6, <4>7 DEF Written, A, B, C
      <4> QED  BY <4>8 DEF h, n, nal
    <3>5. CASE ~Opens(nal)
      <4>1. f = st
        BY <3>3, <3>5
      <4>2. k \notin UnitEnds
        <5>1. n \in (k + 1)..N /\ \A j \in (k + 1)..(n - 1) : ~IsSlice(Nals[j].bytes)
          BY <1>1
        <5> HIDE DEF n
        <5> QED  BY <1>4, <3>5, <5>1 DEF UnitEnds, N
      <4>3. st.au = us[l] /\ Wrote(st.out, us, l - 1)
        BY <3>1, <4>2
      <4> HIDE DEF A, B, C, f, h, nal, n
      <4> DEFINE x == Append(st.au, nal)
      <4>4. x \in B
        BY <1>1, <3>2, <4>3 DEF B
      <4>5. h = [st EXCEPT !.au = x]
        BY <2>2, <4>1
      <4>6. h.param = st.param /\ h.au = x /\ h.out = st.out /\ h \in [param : A, au : B, out : C]
        BY <1>1, <4>4, <4>5
      <4>7. Len(vs) = l /\ vs[l] = Append(us[l], nal) /\ \A i \in 1..(l - 1) : vs[i] = us[i]
        <5> HIDE DEF vs
        <5> QED  BY <1>1, <1>4, <2>4, <3>5, AddedIs DEF l
      <4>8. vs # <<>> /\ h.au = vs[Len(vs)] /\ Len(vs) - 1 = l - 1
        <5> HIDE DEF vs
        <5> QED  BY <3>2, <4>3, <4>6, <4>7
      <4>9. Wrote(h.out, vs, Len(vs) - 1)
        <5> HIDE DEF vs
        <5>1. l - 1 \in Nat
          BY <3>2
        <5> QED  BY <4>3, <4>6, <4>7, <4>8, <5>1, WroteAlike
      <4>10. h.param[SPS] = Param(SPS, n) /\ h.param[PPS] = Param(PPS, n)
        BY <1>1, <2>1, <4>6
      <4>11. Written(h, n)
        BY <4>6, <4>8, <4>9, <4>10 DEF Written, A, B, C
      <4> QED  BY <4>11 DEF h, n, nal
    <3> QED  BY <3>4, <3>5
  <2> QED  BY <2>3, <2>4
<1> QED  BY <1>3, <1>4

(* What is written is where all the units begin, and with the last NAL     *)
(* handled and nothing pending it is all of them.                          *)
LEMMA WholeWrote ==
  ASSUME Units[N] # <<>>
  PROVE  Whole \in Seq(Frame) /\ Wrote(Whole, Units[N], Len(Units[N]))
<1> DEFINE us == Units[N]
           l == Len(us)
           fs == [i \in 1..l |-> FrameOf(us[i])]
<1>1. N \in 0..N /\ us \in Seq(Slices)
  BY NalFacts, UnitsAre
<1>2. l \in Nat /\ DOMAIN us = 1..l /\ \A i \in 1..l : us[i] \in Seq(Seq(Byte))
  <2> HIDE DEF us
  <2>1. l \in Nat /\ DOMAIN us = 1..l /\ \A i \in 1..l : us[i] \in Slices
    BY <1>1, ElementOfSeq
  <2> QED  BY <2>1 DEF Slices
<1>3. Whole = <<Avcc>> \o fs
  BY <1>2 DEF Whole, Messages, FramesOf, N
<1>4. fs \in Seq(Frame) /\ Len(fs) = l /\ \A i \in 1..l : fs[i] = FrameOf(us[i])
  <2> HIDE DEF us, l
  <2> QED  BY <1>2, FrameTyped
<1>5. <<Avcc>> \in Seq(Frame) /\ Len(<<Avcc>>) = 1 /\ <<Avcc>>[1] = Avcc
  BY AvccTyped
<1> DEFINE a == <<Avcc>>
<1> HIDE DEF fs, us, l, a
<1>6. /\ Len(a \o fs) = Len(a) + Len(fs)
      /\ \A x \in 1..Len(a) : (a \o fs)[x] = a[x]
      /\ \A x \in 1..Len(fs) : (a \o fs)[Len(a) + x] = fs[x]
      /\ a \o fs \in Seq(Frame)
  <2>1. a \in Seq(Frame)
    BY <1>5 DEF a
  <2>2. a \o fs \in Seq(Frame)
    BY <1>4, <2>1
  <2>3. fs \in Seq(Frame)
    BY <1>4
  <2>4. /\ Len(a \o fs) = Len(a) + Len(fs)
        /\ \A x \in 1..Len(a) : (a \o fs)[x] = a[x]
        /\ \A x \in 1..Len(fs) : (a \o fs)[Len(a) + x] = fs[x]
    BY <2>1, <2>3, PlacesOfConcat
  <2> QED  BY <2>2, <2>4
<1>7. Whole = a \o fs /\ Len(a) = 1 /\ a[1] = Avcc
  BY <1>3, <1>5 DEF a
<1>8. Len(Whole) = l + 1 /\ Whole[1] = Avcc /\ \A i \in 1..l : Whole[i + 1] = FrameOf(us[i])
  <2>1. 1 \in 1..1 /\ \A i \in 1..l : 1 + i = i + 1
    BY <1>2
  <2> QED  BY <1>2, <1>4, <1>6, <1>7, <2>1
<1>9. Wrote(Whole, us, l)
  BY <1>8 DEF Wrote
<1>10. Whole \in Seq(Frame)
  BY <1>6, <1>7
<1> QED  BY <1>9, <1>10 DEF us, l

LEMMA WroteBeginning ==
  ASSUME NEW out \in Seq(Frame), NEW whole \in Seq(Frame), NEW us, NEW l \in Nat, NEW m \in Nat,
         l <= m, Wrote(out, us, l), Wrote(whole, us, m)
  PROVE  IsPrefix(out, whole) /\ (l = m => out = whole)
<1>1. /\ Len(out) = l + 1 /\ out[1] = Avcc /\ \A i \in 1..l : out[i + 1] = FrameOf(us[i])
      /\ Len(whole) = m + 1 /\ whole[1] = Avcc /\ \A i \in 1..m : whole[i + 1] = FrameOf(us[i])
  BY DEF Wrote
<1>2. ASSUME NEW x \in 1..(l + 1) PROVE out[x] = whole[x]
  <2>1. CASE x = 1
    BY <1>1, <2>1
  <2>2. CASE x # 1
    <3>1. x - 1 \in 1..l /\ x - 1 \in 1..m /\ (x - 1) + 1 = x
      BY <2>2
    <3> QED  BY <1>1, <3>1
  <2> QED  BY <2>1, <2>2
<1>3. SubSeq(out, 1, Len(out)) = out
  BY SubSeqFull
<1> DEFINE p == SubSeq(whole, 1, l + 1)
<1>4. p = out
  <2>1. \A i \in 1..(l + 1) : whole[i] \in Frame
    BY <1>1, ElementOfSeq
  <2>2. /\ p \in Seq(Frame) /\ Len(p) = (IF 1 <= l + 1 THEN l + 1 - 1 + 1 ELSE 0)
        /\ \A i \in 1..(l + 1 - 1 + 1) : p[i] = whole[1 + i - 1]
    <3>1. 1 \in Int /\ l + 1 \in Int
      OBVIOUS
    <3> QED  BY <2>1, <3>1, SubSeqProperties
  <2>3. Len(p) = l + 1
    BY <2>2
  <2>4. \A i \in 1..(l + 1) : p[i] = out[i]
    <3> SUFFICES ASSUME NEW i \in 1..(l + 1) PROVE p[i] = out[i]
      OBVIOUS
    <3>1. i \in 1..(l + 1 - 1 + 1) /\ 1 + i - 1 = i
      OBVIOUS
    <3> QED  BY <1>2, <2>2, <3>1
  <2> HIDE DEF p
  <2> QED  BY <1>1, <2>2, <2>3, <2>4, SeqEqual
<1>5. IsPrefix(out, whole)
  BY <1>1, <1>3, <1>4 DEF IsPrefix
<1>6. ASSUME l = m PROVE out = whole
  <2>1. p = whole
    BY <1>1, <1>6, SubSeqFull
  <2> QED  BY <1>4, <2>1
<1> QED  BY <1>5, <1>6

LEMMA WrittenIsPrefix ==
  ASSUME NEW k \in 0..N, NEW st, Written(st, k)
  PROVE  IsPrefix(st.out, Whole) /\ (k = N /\ st.au = <<>> => st.out = Whole)
<1> DEFINE us == Units[k]
           ws == Units[N]
           l == Len(us)
           m == Len(ws)
<1>1. N \in Nat /\ N \in 0..N /\ N \in k..N /\ k \in k..N /\ k \in 0..N
  BY NalFacts
<1>2. l \in Nat /\ m \in Nat /\ l <= m /\ \A i \in 1..(l - 1) : ws[i] = us[i]
  BY <1>1, UnitsGrow
<1>3. st.out \in Seq(Frame)
  BY DEF Written
<1>4. CASE us = <<>>
  <2>1. st.out = <<>>
    BY <1>4, <1>1, LastUnit DEF Written
  <2>2. k = N => Whole = <<>>
    BY <1>4 DEF Whole, Messages, N
  <2>3. IsPrefix(<<>>, Whole)
    <3>1. Len(Whole) \in Nat
      <4>1. CASE ws = <<>>
        <5>1. Whole = <<>>
          BY <4>1 DEF Whole, Messages, N
        <5> QED  BY <5>1
      <4>2. CASE ws # <<>>
        BY <4>2, WholeWrote, LenProperties
      <4> QED  BY <4>1, <4>2
    <3>2. SubSeq(Whole, 1, 0) = <<>> /\ SubSeq(<<>>, 1, 0) = <<>>
      BY SubSeqEmpty
    <3> QED  BY <3>1, <3>2 DEF IsPrefix
  <2> QED  BY <2>1, <2>2, <2>3
<1>5. CASE us # <<>>
  <2>1. l >= 1 /\ us[l] # <<>>
    BY <1>5, LastUnit
  <2>2. ws # <<>>
    <3>1. m # 0
      <4> HIDE DEF l, m
      <4> QED  BY <1>2, <2>1
    <3> QED  BY <3>1
  <2>3. Whole \in Seq(Frame) /\ Wrote(Whole, ws, m)
    BY <2>2, WholeWrote
  <2>4. CASE st.au = us[l] /\ Wrote(st.out, us, l - 1)
    <3> HIDE DEF l, m, us, ws
    <3>1. l - 1 \in Nat /\ l - 1 <= m
      BY <1>2, <2>1
    <3>2. Wrote(st.out, ws, l - 1)
      BY <1>2, <2>4, <3>1, WroteAlike
    <3>3. IsPrefix(st.out, Whole)
      BY <1>2, <1>3, <2>3, <3>1, <3>2, WroteBeginning
    <3>4. st.au # <<>>
      BY <2>1, <2>4
    <3> QED  BY <3>3, <3>4
  <2>5. CASE k \in UnitEnds /\ Wrote(st.out, us, l)
    <3>1. \A i \in 1..l : ws[i] = us[i]
      BY <1>1, <2>5, WholeUnitsStay
    <3>2. k = N => l = m
      OBVIOUS
    <3> HIDE DEF l, m, us, ws
    <3>3. Wrote(st.out, ws, l)
      BY <1>2, <2>5, <3>1, WroteAlike
    <3>4. IsPrefix(st.out, Whole) /\ (l = m => st.out = Whole)
      BY <1>2, <1>3, <2>3, <3>3, WroteBeginning
    <3> QED  BY <3>2, <3>4
  <2>6. \/ us = <<>> /\ st.au = <<>> /\ st.out = <<>>
        \/ us # <<>> /\ st.au = us[l] /\ Wrote(st.out, us, l - 1)
        \/ us # <<>> /\ st.au = <<>> /\ k \in UnitEnds /\ Wrote(st.out, us, l)
    BY DEF Written
  <2> QED  BY <1>5, <2>4, <2>5, <2>6
<1> QED  BY <1>4, <1>5

-----------------------------------------------------------------------------
(* The repacker's steps                                                    *)

(* The chunks in the channel follow one another up to what was read, and   *)
(* the end comes after all of them.                                        *)
Fed ==
  /\ got \in 0..End(N) /\ taken \in 0..got /\ chunks \in Seq(Nat)
  /\ \A i \in 1..Len(chunks) : taken <= chunks[i] /\ chunks[i] <= got
  /\ \A i, j \in 1..Len(chunks) : i <= j => chunks[i] <= chunks[j]
  /\ got = IF chunks = <<>> THEN taken ELSE chunks[Len(chunks)]
  /\ over # "no" => got = End(N)

Handled == \E k \in 0..N : Holds(buf, taken, k) /\ Written(rp, k)

RepIInv == Fed /\ Handled /\ (over = "done" => buf = <<>> /\ rp.out = Whole)

LEMMA RepInitInv == RepInit => RepIInv
<1> SUFFICES ASSUME RepInit PROVE RepIInv
  OBVIOUS
<1>1. N \in Nat /\ 0 \in 0..N /\ End(0) = 0 /\ End(N) \in Nat
  BY NalFacts, Ends
<1>2. Holds(buf, taken, 0)
  BY <1>1, EmptyHolds DEF RepInit
<1>3. Written(rp, 0)
  <2>1. Units[0] = <<>>
    BY UnitsAre
  <2>2. Param(SPS, 0) = <<>> /\ Param(PPS, 0) = <<>>
    BY DEF Param
  <2>3. /\ rp \in [param : [{SPS, PPS} -> Seq(Byte)], au : Seq(Seq(Byte)), out : Seq(Frame)]
        /\ rp.param[SPS] = <<>> /\ rp.param[PPS] = <<>> /\ rp.au = <<>> /\ rp.out = <<>>
    BY DEF RepInit
  <2> QED  BY <2>1, <2>2, <2>3 DEF Written
<1>4. Fed
  <2>1. got = 0 /\ taken = 0 /\ chunks = <<>> /\ over = "no" /\ Len(chunks) = 0 /\ 1..0 = {}
    BY DEF RepInit
  <2>2. chunks \in Seq(Nat)
    BY <2>1
  <2> QED  BY <1>1, <2>1, <2>2 DEF Fed
<1>5. over # "done"
  BY DEF RepInit
<1> QED  BY <1>1, <1>2, <1>3, <1>4, <1>5 DEF RepIInv, Handled

(* More of the stream is read.                                             *)
LEMMA ReadsFed == ASSUME Fed, NEW n \in Sizes, Reads(n) PROVE Fed'
<1> DEFINE g == got + n
           l == Len(chunks)
           cs == Append(chunks, g)
<1>1. n \in Nat /\ End(N) \in Nat /\ g \in Nat /\ g >= got /\ g <= End(N) /\ got \in Nat /\ taken \in 0..g
  <2>1. n \in Nat /\ N \in 0..N
    BY SizesAssumption, NalFacts
  <2>2. End(N) \in Nat /\ Len(Stream) = End(N) /\ got + n <= Len(Stream)
    BY <2>1, Ends DEF Reads
  <2> QED  BY <2>1, <2>2 DEF Fed
<1>2. /\ got' = g /\ chunks' = cs /\ taken' = taken /\ over = "no" /\ over' = over
      /\ chunks \in Seq(Nat) /\ l \in Nat
  BY LenProperties DEF Reads, Fed
<1> HIDE DEF g
<1>3. /\ cs \in Seq(Nat) /\ Len(cs) = l + 1 /\ cs[l + 1] = g /\ cs # <<>>
      /\ \A i \in 1..l : cs[i] = chunks[i]
  BY <1>1, <1>2, AppendProperties
<1>4. /\ \A i \in 1..l : chunks[i] \in Nat /\ taken <= chunks[i] /\ chunks[i] <= got
      /\ \A i, j \in 1..l : i <= j => chunks[i] <= chunks[j]
  BY <1>2, ElementOfSeq DEF Fed
<1> HIDE DEF cs, l
<1>5. \A i \in 1..(l + 1) : i \in 1..l \/ i = l + 1
  BY <1>2
<1>6. \A i \in 1..(l + 1) : taken <= cs[i] /\ cs[i] <= g
  BY <1>1, <1>3, <1>4, <1>5
<1>7. ASSUME NEW i \in 1..(l + 1), NEW j \in 1..(l + 1), i <= j PROVE cs[i] <= cs[j]
  <2>1. CASE j = l + 1
    BY <1>3, <1>6, <2>1
  <2>2. CASE j # l + 1
    <3>1. i \in 1..l /\ j \in 1..l
      BY <1>2, <1>7, <2>2
    <3> QED  BY <1>3, <1>4, <1>7, <3>1
  <2> QED  BY <2>1, <2>2
<1>8. End(N)' = End(N) /\ g \in 0..End(N)
  BY <1>1 DEF End
<1> QED  BY <1>1, <1>2, <1>3, <1>6, <1>7, <1>8 DEF Fed

(* A chunk is taken.                                                       *)
LEMMA ConsumeFed ==
  ASSUME Fed, Consume
  PROVE  Fed' /\ taken \in Nat /\ taken' \in Nat /\ taken <= taken' /\ taken' <= End(N)
<1> DEFINE l == Len(chunks)
           cs == Tail(chunks)
<1>1. /\ chunks \in Seq(Nat) /\ chunks # <<>> /\ taken' = Head(chunks) /\ chunks' = cs
      /\ got' = got /\ over' = over
  BY DEF Fed, Consume
<1>2. l \in Nat /\ l >= 1 /\ Head(chunks) = chunks[1] /\ 1 \in 1..l
  BY <1>1, LenProperties, EmptySeq
<1>3. cs \in Seq(Nat) /\ Len(cs) = l - 1 /\ \A i \in 1..(l - 1) : cs[i] = chunks[i + 1]
  BY <1>1, <1>2, HeadTailProperties
<1>4. /\ \A i \in 1..l : chunks[i] \in Nat /\ taken <= chunks[i] /\ chunks[i] <= got
      /\ \A i, j \in 1..l : i <= j => chunks[i] <= chunks[j]
      /\ got = chunks[l]
  BY <1>1, ElementOfSeq DEF Fed
<1>5. got \in Nat /\ End(N) \in Nat /\ got <= End(N) /\ taken \in Nat /\ End(N)' = End(N)
  <2>1. N \in 0..N
    BY NalFacts
  <2>2. End(N) \in Nat
    BY <2>1, Ends
  <2> QED  BY <2>2 DEF Fed, End
<1> HIDE DEF cs, l
<1>6. \A i \in 1..(l - 1) : i + 1 \in 1..l
  BY <1>2
<1>7. taken' \in Nat /\ taken <= taken' /\ taken' <= got
  BY <1>1, <1>2, <1>4
<1>8. \A i \in 1..(l - 1) : taken' <= cs[i] /\ cs[i] <= got
  <2> SUFFICES ASSUME NEW i \in 1..(l - 1) PROVE taken' <= cs[i] /\ cs[i] <= got
    OBVIOUS
  <2>1. i + 1 \in 1..l /\ 1 <= i + 1
    BY <1>2
  <2> QED  BY <1>1, <1>2, <1>3, <1>4, <2>1
<1>9. ASSUME NEW i \in 1..(l - 1), NEW j \in 1..(l - 1), i <= j PROVE cs[i] <= cs[j]
  <2>1. i + 1 \in 1..l /\ j + 1 \in 1..l /\ i + 1 <= j + 1
    BY <1>2, <1>9
  <2> QED  BY <1>3, <1>4, <2>1
<1>10. got = IF cs = <<>> THEN taken' ELSE cs[Len(cs)]
  <2>1. CASE cs = <<>>
    <3>1. Len(cs) = 0
      BY <2>1
    <3>2. l = 1
      BY <1>2, <1>3, <3>1
    <3> QED  BY <1>1, <1>2, <1>4, <2>1, <3>2
  <2>2. CASE cs # <<>>
    <3>1. Len(cs) # 0
      BY <1>3, <2>2, EmptySeq
    <3>2. l - 1 \in 1..(l - 1) /\ (l - 1) + 1 = l
      BY <1>2, <1>3, <3>1
    <3> QED  BY <1>3, <1>4, <2>2, <3>2
  <2> QED  BY <2>1, <2>2
<1>11. over # "no" => got = End(N)
  BY DEF Fed
<1>12. Fed'
  BY <1>1, <1>3, <1>5, <1>7, <1>8, <1>9, <1>10, <1>11 DEF Fed
<1> QED  BY <1>5, <1>7, <1>12

(* What is taken for a NAL where NAL e ends is NAL e, if it was not        *)
(* handled yet, and then no unit is pending.                               *)
LEMMA PendingWritten ==
  ASSUME NEW k \in 0..N, NEW e \in UnitEnds, Holds(buf, End(e), k), ~HasNAL(buf), Written(rp, k)
  PROVE  /\ Written(Pending(rp, buf), e) /\ Pending(rp, buf).au = <<>>
         /\ HasTail(buf) \/ buf = <<>>
<1> DEFINE st == IF HasTail(buf) THEN HandleNAL(rp, SubSeq(buf, 4, Len(buf))) ELSE rp
<1>1. e \in 0..N
  BY DEF UnitEnds, N
<1>2. \/ HasTail(buf) /\ k + 1 \in 1..N /\ e = k + 1 /\ SubSeq(buf, 4, Len(buf)) = Nals[k + 1].bytes
      \/ ~HasTail(buf) /\ e = k /\ buf = <<>>
  BY <1>1, TailHolds
<1>3. Written(st, e)
  <2>1. CASE HasTail(buf)
    <3>1. k + 1 \in 1..N /\ e = k + 1 /\ st = HandleNAL(rp, Nals[k + 1].bytes)
      BY <1>2, <2>1
    <3>2. Written(HandleNAL(rp, Nals[k + 1].bytes), k + 1)
      BY <3>1, HandleWritten
    <3> QED  BY <3>1, <3>2
  <2>2. CASE ~HasTail(buf)
    BY <1>2, <2>2
  <2> QED  BY <2>1, <2>2
<1> HIDE DEF st
<1>4. Written(FlushUnit(st), e) /\ FlushUnit(st).au = <<>>
  BY <1>3, FlushWritten
<1>5. Pending(rp, buf) = FlushUnit(st)
  BY DEF Pending, st
<1> QED  BY <1>2, <1>4, <1>5

LEMMA RepStep == ASSUME RepIInv, [RepNext]_repVars PROVE RepIInv'
<1>0. Fed /\ (\E k \in 0..N : Holds(buf, taken, k) /\ Written(rp, k)) /\ (over = "done" => buf = <<>> /\ rp.out = Whole)
      /\ N \in Nat /\ End(N) \in Nat /\ taken \in Nat /\ taken <= End(N) /\ N \in 0..N
  <2>1. N \in Nat /\ N \in 0..N
    BY NalFacts
  <2>2. End(N) \in Nat
    BY <2>1, Ends
  <2> QED  BY <2>1, <2>2 DEF RepIInv, Handled, Fed
<1>1. PICK k \in 0..N : Holds(buf, taken, k) /\ Written(rp, k)
  BY <1>0
<1>a. ASSUME NEW j \in 0..N, Holds(buf', taken', j), Written(rp', j) PROVE Handled'
  <2>1. Holds(buf, taken, j)' /\ Written(rp, j)'
    BY <1>a DEF Holds, AtCode, Between, Stretch, Place, End, Written, Wrote
  <2>2. (0..N)' = 0..N
    OBVIOUS
  <2> QED  BY <2>1, <2>2 DEF Handled
<1>b. ASSUME got' = got, chunks' = chunks, taken' = taken, over' = over \/ got = End(N) PROVE Fed'
  <2>1. End(N)' = End(N)
    BY DEF End
  <2> QED  BY <1>0, <1>b, <2>1 DEF Fed
<1>c. Whole' = Whole
  BY DEF Whole, Messages, FramesOf, Avcc, FrameOf
<1>2. CASE UNCHANGED repVars
  <2>1. /\ got' = got /\ chunks' = chunks /\ taken' = taken /\ over' = over /\ buf' = buf /\ rp' = rp
    BY <1>2 DEF repVars
  <2>2. Fed' /\ Handled'
    BY <1>1, <1>a, <1>b, <2>1
  <2> QED  BY <1>0, <1>c, <2>1, <2>2 DEF RepIInv
<1>3. ASSUME NEW n \in Sizes, Reads(n) PROVE RepIInv'
  <2>1. Fed'
    BY <1>0, <1>3, ReadsFed
  <2>2. taken' = taken /\ buf' = buf /\ rp' = rp /\ over' = over
    BY <1>3 DEF Reads
  <2>3. Handled'
    BY <1>1, <1>a, <2>2
  <2> QED  BY <1>0, <1>c, <2>1, <2>2, <2>3 DEF RepIInv
<1>4. CASE ReadsEnd
  <2>1. /\ got' = got /\ chunks' = chunks /\ taken' = taken /\ buf' = buf /\ rp' = rp
        /\ over' = "sent" /\ got = End(N)
    BY <1>4, Ends DEF ReadsEnd
  <2>2. Fed' /\ Handled' /\ over' # "done"
    BY <1>1, <1>a, <1>b, <2>1
  <2> QED  BY <2>2 DEF RepIInv
<1>5. CASE Consume
  <2>1. Fed' /\ taken' \in Nat /\ taken <= taken' /\ taken' <= End(N)
    BY <1>0, <1>5, ConsumeFed
  <2>2. /\ buf' = Resync(buf \o SubSeq(Stream, taken + 1, taken')) /\ rp' = rp
        /\ over' = over /\ over # "done"
    BY <1>5 DEF Consume
  <2> DEFINE u == taken'
             c == Resync(buf \o SubSeq(Stream, taken + 1, u))
  <2>3. Holds(c, u, k)
    <3> HIDE DEF u
    <3> QED  BY <1>0, <1>1, <2>1, ResyncHolds DEF u
  <2>4. Handled'
    BY <1>1, <1>a, <2>2, <2>3
  <2> QED  BY <2>1, <2>2, <2>4 DEF RepIInv
<1>6. CASE Split
  <2>1. /\ got' = got /\ chunks' = chunks /\ taken' = taken /\ over' = over
        /\ HasNAL(buf) /\ rp' = HandleNAL(rp, FirstNAL(buf)) /\ buf' = SubSeq(buf, Second(buf), Len(buf))
    BY <1>6 DEF Split
  <2>2. /\ k + 1 \in 1..N /\ FirstNAL(buf) = Nals[k + 1].bytes
        /\ Holds(SubSeq(buf, Second(buf), Len(buf)), taken, k + 1)
    BY <1>0, <1>1, <2>1, SplitHolds
  <2>3. Written(HandleNAL(rp, Nals[k + 1].bytes), k + 1)
    BY <1>1, <2>2, HandleWritten
  <2>4. k + 1 \in 0..N
    BY <1>0, <2>2
  <2>5. Handled'
    BY <1>a, <2>1, <2>2, <2>3, <2>4
  <2>6. Fed'
    BY <1>b, <2>1
  <2>7. over # "done"
    <3>1. ~HasNAL(<<>>)
      BY DEF HasNAL, Starts
    <3> QED  BY <1>0, <2>1, <3>1
  <2> QED  BY <2>1, <2>5, <2>6, <2>7 DEF RepIInv
<1>7. CASE FirstTick
  <2>1. /\ got' = got /\ chunks' = chunks /\ taken' = taken /\ over' = over /\ buf' = buf /\ rp' = rp
    BY <1>7 DEF FirstTick
  <2>2. Fed' /\ Handled'
    BY <1>1, <1>a, <1>b, <2>1
  <2> QED  BY <1>0, <1>c, <2>1, <2>2 DEF RepIInv
<1>8. CASE SecondTick
  <2>1. /\ got' = got /\ chunks' = chunks /\ taken' = taken /\ over' = over /\ over = "no"
        /\ ~HasNAL(buf) /\ rp' = Pending(rp, buf)
        /\ buf' = (IF HasTail(buf) THEN <<>> ELSE buf)
    BY <1>8 DEF SecondTick
  <2>2. PICK e \in UnitEnds : taken = End(e)
    BY <1>8 DEF SecondTick, End
  <2>3. Written(rp', e) /\ buf' = <<>>
    BY <1>1, <2>1, <2>2, PendingWritten
  <2>4. e \in 0..N
    BY DEF UnitEnds, N
  <2>5. Holds(buf', taken', e)
    BY <2>1, <2>2, <2>3, <2>4, EmptyHolds
  <2>6. Fed' /\ Handled'
    BY <1>a, <1>b, <2>1, <2>3, <2>4, <2>5
  <2> QED  BY <2>1, <2>6 DEF RepIInv
<1>9. CASE SeesEnd
  <2>1. /\ got' = got /\ chunks' = chunks /\ taken' = taken /\ buf' = buf /\ rp' = rp
        /\ over' = "seen" /\ got = End(N)
    BY <1>0, <1>9 DEF SeesEnd, Fed
  <2>2. Fed' /\ Handled' /\ over' # "done"
    BY <1>1, <1>a, <1>b, <2>1
  <2> QED  BY <2>2 DEF RepIInv
<1>10. CASE Finish
  <2>1. /\ got' = got /\ chunks' = chunks /\ taken' = taken /\ over' = "done" /\ got = End(N)
        /\ taken = got /\ ~HasNAL(buf) /\ rp' = Pending(rp, buf) /\ buf' = <<>>
    BY <1>0, <1>10 DEF Finish, Fed
  <2>2. N \in UnitEnds
    <3>1. (N + 1)..N = {}
      BY <1>0
    <3> QED  BY <1>0, <3>1 DEF UnitEnds, N
  <2>3. Written(rp', N) /\ rp'.au = <<>>
    BY <1>1, <2>1, <2>2, PendingWritten
  <2>4. rp'.out = Whole
    BY <1>0, <2>3, WrittenIsPrefix
  <2>5. Holds(buf', taken', N)
    BY <1>0, <2>1, EmptyHolds
  <2>6. Fed' /\ Handled'
    BY <1>0, <1>a, <1>b, <2>1, <2>3, <2>5
  <2> QED  BY <1>c, <2>1, <2>4, <2>6 DEF RepIInv
<1> QED  BY <1>2, <1>3, <1>4, <1>5, <1>6, <1>7, <1>8, <1>9, <1>10 DEF RepNext

(* RepackAnnexB, for any NALs, any chunks that bring them and any pauses   *)
(* between units: each access unit is written once, whole, in order and    *)
(* rightly typed, after what decodes them, and all of them at the end.     *)
THEOREM WritesUnitsWhole == RepSpec => []UnitsWhole
<1>1. RepIInv => UnitsWhole
  <2> SUFFICES ASSUME RepIInv PROVE UnitsWhole
    OBVIOUS
  <2>1. PICK k \in 0..N : Written(rp, k)
    BY DEF RepIInv, Handled
  <2>2. IsPrefix(rp.out, Whole)
    BY <2>1, WrittenIsPrefix
  <2> QED  BY <2>2 DEF RepIInv, UnitsWhole
<1>2. RepIInv /\ [RepNext]_repVars => RepIInv'
  BY RepStep
<1> QED  BY RepInitInv, <1>1, <1>2, PTL DEF RepSpec
==============================================================================
