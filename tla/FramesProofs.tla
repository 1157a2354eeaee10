---------------------------- MODULE FramesProofs ----------------------------
(***************************************************************************)
(* Proof, for all sizes of headers, payloads and messages, that ReadFrame  *)
(* returns the frames that were written.  The bytes that have been written *)
(* form one stream; every piece of it that is under way or kept somewhere  *)
(* has its place in the stream.                                            *)
(***************************************************************************)
EXTENDS Frames, SequenceTheorems, TLAPS

Byte == [frame: Nat, at: Nat]

Types ==
    /\ ours \in BOOLEAN /\ broken \in BOOLEAN /\ sent \in Seq(Nat)
    /\ plain \in Seq(Byte) /\ wire \in Seq(Seq(Byte)) /\ readBuf \in Seq(Byte)
    /\ part \in Seq(Byte) /\ received \in Seq(Seq(Byte))
    /\ reader \in {"header", "payload", "failed"}

\* The frame that ReadFrame is at.
Current == Len(received) + 1

\* off[f] is where frame f begins in the stream, if the frames have the lengths
\* sn; the last value is where the stream ends.
Offsets(sn, off) ==
    /\ off \in [1 .. Len(sn) + 1 -> Nat]
    /\ \A f \in 1 .. Len(sn) : off[f + 1] = off[f] + HeaderSize + sn[f]
    /\ \A f \in 1 .. Len(sn), g \in 1 .. Len(sn) + 1 : f < g => off[f] + HeaderSize + sn[f] <= off[g]

\* The bytes s are the ones of the stream that follow position p.
Piece(sn, off, s, p) ==
    \A i \in 1 .. Len(s) :
        /\ s[i].frame \in 1 .. Len(sn) /\ s[i].at \in 1 .. HeaderSize + sn[s[i].frame]
        /\ off[s[i].frame] + s[i].at = p + i

\* mark[i] is where message i on the wire w begins; the last value is where what
\* follows the wire begins.
Marks(sn, off, w, mark) ==
    /\ mark \in [1 .. Len(w) + 1 -> Nat]
    /\ \A i \in 1 .. Len(w) : Piece(sn, off, w[i], mark[i]) /\ mark[i + 1] = mark[i] + Len(w[i])

\* part, the read buffer, the wire and what is still to be sent are one after the
\* other in the stream.
Layout(off, mark) ==
    /\ Offsets(sent, off) /\ Marks(sent, off, wire, mark)
    /\ Piece(sent, off, readBuf, off[Current] + Len(part))
    /\ mark[1] = off[Current] + Len(part) + Len(readBuf)
    /\ Piece(sent, off, plain, mark[Len(wire) + 1])
    /\ off[Len(sent) + 1] = mark[Len(wire) + 1] + Len(plain)

\* What has been returned, and what ReadFull has of the next frame.
Done == Len(received) <= Len(sent) /\ \A f \in 1 .. Len(received) : received[f] = Bytes(f, sent[f])

Partial ==
    /\ \A i \in 1 .. Len(part) : part[i] = [frame |-> Current, at |-> i]
    /\ part # << >> => Current <= Len(sent)
    /\ reader = "header" => Len(part) <= HeaderSize
    /\ reader = "payload" => Len(part) >= HeaderSize /\ Len(part) <= HeaderSize + sent[Current]

Inv ==
    /\ Types /\ Done /\ Partial
    /\ ours => plain = << >>
    /\ \E off, mark : Layout(off, mark)

-----------------------------------------------------------------------------
(* Offsets and pieces.                                                      *)

LEMMA Sizes == HeaderSize \in Nat \ {0} /\ MaxPayload \in Nat /\ TagSize \in Nat
  BY FramesAssumption

\* Bytes that follow the first l ones of frame c, up to the end of that frame,
\* are its next ones; and there is such a frame.
LEMMA NextBytes ==
  ASSUME NEW sn \in Seq(Nat), NEW off, Offsets(sn, off), NEW c \in 1 .. Len(sn) + 1, NEW l \in Nat,
         NEW s \in Seq(Byte), Piece(sn, off, s, off[c] + l), NEW n \in Nat, n <= Len(s),
         c <= Len(sn) => l + n <= HeaderSize + sn[c], NEW i \in 1 .. n
  PROVE  c <= Len(sn) /\ s[i] = [frame |-> c, at |-> l + i]
  <1> DEFINE g == s[i].frame
             a == s[i].at
  <1>1. i \in 1 .. Len(s) /\ Len(sn) \in Nat /\ s[i] \in Byte
    OBVIOUS
  <1>2. g \in 1 .. Len(sn) /\ a \in 1 .. HeaderSize + sn[g] /\ off[g] + a = off[c] + l + i
    <2>1. off[c] \in Nat
      BY DEF Offsets
    <2>2. off[g] + a = (off[c] + l) + i /\ g \in 1 .. Len(sn) /\ a \in 1 .. HeaderSize + sn[g]
      BY <1>1 DEF Piece
    <2>3. QED
      BY <2>1, <2>2
  <1>3. s[i] = [frame |-> g, at |-> a]
    BY <1>1 DEF Byte
  <1> HIDE DEF g, a
  <1> DEFINE og == off[g]
             oc == off[c]
             sg == sn[g]
             sc == sn[c]
  <1>4. og \in Nat /\ oc \in Nat /\ sg \in Nat /\ HeaderSize \in Nat
    <2>1. g \in 1 .. Len(sn) + 1
      BY <1>1, <1>2
    <2>2. og \in Nat /\ oc \in Nat
      BY <2>1 DEF Offsets
    <2>3. sg \in Nat
      BY <1>2
    <2>4. QED
      BY <2>2, <2>3, Sizes
  <1>5. a \in Nat /\ 1 <= a /\ a <= HeaderSize + sg /\ og + a = oc + l + i
    BY <1>2, <1>4
  <1>6. /\ g < c => og + HeaderSize + sg <= oc
        /\ c <= Len(sn) /\ c < g => oc + HeaderSize + sc <= og
    <2>1. g < c => og + HeaderSize + sg <= oc
      BY <1>2 DEF Offsets
    <2>2. c <= Len(sn) => c \in 1 .. Len(sn)
      BY <1>1
    <2>3. g \in 1 .. Len(sn) + 1
      BY <1>1, <1>2
    <2>4. c <= Len(sn) /\ c < g => oc + HeaderSize + sc <= og
      BY <2>2, <2>3 DEF Offsets
    <2>5. QED
      BY <2>1, <2>4
  <1>7. c <= Len(sn) => sc \in Nat /\ l + n <= HeaderSize + sc
    BY <1>1
  <1> HIDE DEF og, oc, sg, sc
  <1>8. ~(g < c)
    BY <1>4, <1>5, <1>6
  <1>9. c <= Len(sn) /\ g \in Int
    BY <1>1, <1>2, <1>8
  <1>10. ~(c < g)
    BY <1>4, <1>5, <1>6, <1>7, <1>9
  <1>11. g = c
    BY <1>8, <1>9, <1>10
  <1>12. a = l + i
    BY <1>4, <1>5, <1>11 DEF og, oc
  <1>13. QED
    BY <1>3, <1>9, <1>11, <1>12

\* A piece cut in two.
LEMMA Cut ==
  ASSUME NEW s \in Seq(Byte), NEW k \in Nat, k <= Len(s)
  PROVE  /\ SubSeq(s, 1, k) \in Seq(Byte) /\ Len(SubSeq(s, 1, k)) = k
         /\ \A i \in 1 .. k : SubSeq(s, 1, k)[i] = s[i]
         /\ SubSeq(s, k + 1, Len(s)) \in Seq(Byte) /\ Len(SubSeq(s, k + 1, Len(s))) = Len(s) - k
         /\ \A i \in 1 .. Len(s) - k : SubSeq(s, k + 1, Len(s))[i] = s[k + i]
  <1>1. Len(s) \in Nat /\ \A i \in 1 .. Len(s) : s[i] \in Byte
    OBVIOUS
  <1>2. \A i \in 1 .. k : s[i] \in Byte
    BY <1>1
  <1>3. \A i \in k + 1 .. Len(s) : s[i] \in Byte
    BY <1>1
  <1>4. /\ SubSeq(s, 1, k) \in Seq(Byte) /\ Len(SubSeq(s, 1, k)) = (IF 1 <= k THEN k - 1 + 1 ELSE 0)
        /\ \A i \in 1 .. k - 1 + 1 : SubSeq(s, 1, k)[i] = s[1 + i - 1]
    BY <1>2, SubSeqProperties
  <1>5. /\ SubSeq(s, k + 1, Len(s)) \in Seq(Byte)
        /\ Len(SubSeq(s, k + 1, Len(s))) = (IF k + 1 <= Len(s) THEN Len(s) - (k + 1) + 1 ELSE 0)
        /\ \A i \in 1 .. Len(s) - (k + 1) + 1 : SubSeq(s, k + 1, Len(s))[i] = s[k + 1 + i - 1]
    BY <1>1, <1>3, SubSeqProperties
  <1>6. QED
    BY <1>1, <1>4, <1>5

LEMMA CutPiece ==
  ASSUME NEW sn, NEW off, NEW s \in Seq(Byte), NEW p \in Nat, Piece(sn, off, s, p), NEW k \in Nat, k <= Len(s)
  PROVE  Piece(sn, off, SubSeq(s, 1, k), p) /\ Piece(sn, off, SubSeq(s, k + 1, Len(s)), p + k)
  <1> DEFINE u == SubSeq(s, 1, k)
             v == SubSeq(s, k + 1, Len(s))
  <1>1. /\ Len(u) = k /\ Len(v) = Len(s) - k /\ Len(s) \in Nat
        /\ \A i \in 1 .. k : u[i] = s[i]
        /\ \A i \in 1 .. Len(s) - k : v[i] = s[k + i]
    BY Cut
  <1> HIDE DEF u, v
  <1>2. Piece(sn, off, u, p)
    BY <1>1 DEF Piece
  <1>3. ASSUME NEW i \in 1 .. Len(v)
        PROVE  /\ v[i].frame \in 1 .. Len(sn) /\ v[i].at \in 1 .. HeaderSize + sn[v[i].frame]
               /\ off[v[i].frame] + v[i].at = (p + k) + i
    <2>1. k + i \in 1 .. Len(s) /\ v[i] = s[k + i] /\ p + (k + i) = (p + k) + i
      BY <1>1
    <2>2. QED
      BY <2>1 DEF Piece
  <1>4. QED
    BY <1>2, <1>3 DEF Piece, u, v

\* Two pieces, one after the other.
LEMMA JoinPiece ==
  ASSUME NEW sn, NEW off, NEW s \in Seq(Byte), NEW t \in Seq(Byte), NEW p \in Nat,
         Piece(sn, off, s, p), Piece(sn, off, t, p + Len(s))
  PROVE  Piece(sn, off, s \o t, p)
  <1> DEFINE u == s \o t
  <1>1. /\ Len(u) = Len(s) + Len(t) /\ Len(s) \in Nat /\ Len(t) \in Nat
        /\ \A i \in 1 .. Len(s) + Len(t) : u[i] = IF i <= Len(s) THEN s[i] ELSE t[i - Len(s)]
    BY ConcatProperties
  <1> HIDE DEF u
  <1>2. ASSUME NEW i \in 1 .. Len(u)
        PROVE  /\ u[i].frame \in 1 .. Len(sn) /\ u[i].at \in 1 .. HeaderSize + sn[u[i].frame]
               /\ off[u[i].frame] + u[i].at = p + i
    <2>1. CASE i <= Len(s)
      <3>1. i \in 1 .. Len(s) /\ u[i] = s[i]
        BY <1>1, <2>1
      <3>2. QED
        BY <3>1 DEF Piece
    <2>2. CASE ~(i <= Len(s))
      <3>1. i - Len(s) \in 1 .. Len(t) /\ u[i] = t[i - Len(s)] /\ (p + Len(s)) + (i - Len(s)) = p + i
        BY <1>1, <2>2
      <3>2. QED
        BY <3>1 DEF Piece
    <2>3. QED
      BY <2>1, <2>2
  <1>3. QED
    BY <1>2 DEF Piece, u

LEMMA BytesType ==
  ASSUME NEW f \in Nat, NEW n \in Nat
  PROVE  /\ Bytes(f, n) \in Seq(Byte) /\ Len(Bytes(f, n)) = HeaderSize + n
         /\ \A i \in 1 .. HeaderSize + n : Bytes(f, n)[i] = [frame |-> f, at |-> i]
  <1>1. HeaderSize + n \in Nat
    BY Sizes
  <1>2. \A i \in 1 .. HeaderSize + n : [frame |-> f, at |-> i] \in Byte
    BY <1>1 DEF Byte
  <1>3. Bytes(f, n) \in [1 .. HeaderSize + n -> Byte]
    BY <1>2 DEF Bytes
  <1>4. Bytes(f, n) \in Seq(Byte)
    BY <1>1, <1>3, SeqDef
  <1>5. DOMAIN Bytes(f, n) = 1 .. HeaderSize + n /\ DOMAIN Bytes(f, n) = 1 .. Len(Bytes(f, n))
        /\ Len(Bytes(f, n)) \in Nat
    BY <1>3, <1>4, LenProperties
  <1>6. Len(Bytes(f, n)) = HeaderSize + n
    BY <1>1, <1>5
  <1>7. QED
    BY <1>4, <1>6 DEF Bytes

\* A frame of n bytes is added to the stream.
Extended(sn, off, n) ==
    [f \in 1 .. Len(sn) + 2 |-> IF f <= Len(sn) + 1 THEN off[f] ELSE off[Len(sn) + 1] + HeaderSize + n]

LEMMA Extend ==
  ASSUME NEW sn \in Seq(Nat), NEW off, Offsets(sn, off), NEW n \in Nat
  PROVE  /\ Offsets(Append(sn, n), Extended(sn, off, n))
         /\ \A f \in 1 .. Len(sn) + 1 : Extended(sn, off, n)[f] = off[f]
         /\ Extended(sn, off, n)[Len(sn) + 2] = off[Len(sn) + 1] + HeaderSize + n
         /\ Piece(Append(sn, n), Extended(sn, off, n), Bytes(Len(sn) + 1, n), off[Len(sn) + 1])
         /\ \A s, p : Piece(sn, off, s, p) => Piece(Append(sn, n), Extended(sn, off, n), s, p)
  <1> DEFINE L == Len(sn)
             new == Append(sn, n)
             ext == Extended(sn, off, n)
  <1>1. /\ L \in Nat /\ Len(new) = L + 1 /\ new[L + 1] = n /\ new \in Seq(Nat)
        /\ \A f \in 1 .. L : new[f] = sn[f] /\ sn[f] \in Nat
    BY AppendProperties
  <1>2. /\ HeaderSize \in Nat \ {0} /\ off \in [1 .. L + 1 -> Nat] /\ off[L + 1] \in Nat
        /\ \A f \in 1 .. L : off[f + 1] = off[f] + HeaderSize + sn[f]
        /\ \A f \in 1 .. L, g \in 1 .. L + 1 : f < g => off[f] + HeaderSize + sn[f] <= off[g]
    BY <1>1, Sizes DEF Offsets
  <1> HIDE DEF L
  <1>3. /\ \A f \in 1 .. L + 1 : ext[f] = off[f]
        /\ ext[L + 2] = off[L + 1] + HeaderSize + n /\ ext \in [1 .. L + 2 -> Nat]
    <2>1. ext = [f \in 1 .. L + 2 |-> IF f <= L + 1 THEN off[f] ELSE off[L + 1] + HeaderSize + n]
      BY DEF Extended, L
    <2> HIDE DEF ext
    <2>2. off[L + 1] + HeaderSize + n \in Nat
      BY <1>2
    <2>3. \A f \in 1 .. L + 1 : f \in 1 .. L + 2 /\ f <= L + 1
      BY <1>1
    <2>4. \A f \in 1 .. L + 2 : f <= L + 1 => f \in 1 .. L + 1
      BY <1>1
    <2>5. L + 2 \in 1 .. L + 2 /\ ~(L + 2 <= L + 1)
      BY <1>1
    <2>6. QED
      BY <1>2, <2>1, <2>2, <2>3, <2>4, <2>5
  <1> HIDE DEF new, ext
  <1>4. Offsets(new, ext)
    <2>1. ext \in [1 .. Len(new) + 1 -> Nat]
      BY <1>1, <1>3
    <2>2. ASSUME NEW f \in 1 .. L + 1
          PROVE  ext[f + 1] = ext[f] + HeaderSize + new[f]
      <3>1. CASE f \in 1 .. L
        BY <1>1, <1>2, <1>3, <3>1
      <3>2. CASE f = L + 1
        BY <1>1, <1>2, <1>3, <3>2
      <3>3. QED
        BY <1>1, <3>1, <3>2
    <2>3. ASSUME NEW f \in 1 .. L + 1, NEW g \in 1 .. L + 2, f < g
          PROVE  ext[f] + HeaderSize + new[f] <= ext[g]
      <3>1. CASE g \in 1 .. L + 1
        <4>1. f \in 1 .. L /\ ext[f] = off[f] /\ ext[g] = off[g] /\ new[f] = sn[f]
          BY <1>1, <1>3, <2>3, <3>1
        <4>2. QED
          BY <1>2, <2>3, <3>1, <4>1
      <3>2. CASE g = L + 2 /\ f \in 1 .. L
        <4>1. off[f] + HeaderSize + sn[f] <= off[L + 1] /\ off[f] \in Nat /\ sn[f] \in Nat
          BY <1>1, <1>2, <3>2
        <4>2. ext[f] = off[f] /\ new[f] = sn[f] /\ ext[g] = off[L + 1] + HeaderSize + n
          BY <1>1, <1>3, <3>2
        <4>3. off[f] + HeaderSize + sn[f] <= off[L + 1] + HeaderSize + n
          BY <1>2, <4>1
        <4>4. QED
          BY <4>2, <4>3
      <3>3. CASE g = L + 2 /\ f = L + 1
        BY <1>1, <1>2, <1>3, <3>3
      <3>4. QED
        BY <1>1, <3>1, <3>2, <3>3
    <2>4. QED
      BY <1>1, <2>1, <2>2, <2>3 DEF Offsets
  <1>5. Piece(new, ext, Bytes(L + 1, n), off[L + 1])
    <2>1. /\ Len(Bytes(L + 1, n)) = HeaderSize + n
          /\ \A i \in 1 .. HeaderSize + n : Bytes(L + 1, n)[i] = [frame |-> L + 1, at |-> i]
      BY <1>1, BytesType
    <2>2. L + 1 \in 1 .. Len(new) /\ ext[L + 1] = off[L + 1] /\ new[L + 1] = n
      BY <1>1, <1>3
    <2>3. ASSUME NEW i \in 1 .. Len(Bytes(L + 1, n))
          PROVE  LET b == Bytes(L + 1, n)[i]
                 IN /\ b.frame \in 1 .. Len(new) /\ b.at \in 1 .. HeaderSize + new[b.frame]
                    /\ ext[b.frame] + b.at = off[L + 1] + i
      <3>1. Bytes(L + 1, n)[i] = [frame |-> L + 1, at |-> i] /\ i \in 1 .. HeaderSize + n
        BY <2>1
      <3>2. QED
        BY <2>2, <3>1
    <2>4. QED
      BY <2>3 DEF Piece
  <1>6. ASSUME NEW s, NEW p, Piece(sn, off, s, p)
        PROVE  Piece(new, ext, s, p)
    <2>1. \A f \in 1 .. L : f \in 1 .. Len(new) /\ ext[f] = off[f] /\ new[f] = sn[f]
      BY <1>1, <1>3
    <2>2. QED
      BY <1>6, <2>1 DEF Piece, L
  <1>7. QED
    BY <1>3, <1>4, <1>5, <1>6 DEF L, new, ext

\* A message is put on the wire.
Marked(w, mark, n) ==
    [i \in 1 .. Len(w) + 2 |-> IF i <= Len(w) + 1 THEN mark[i] ELSE mark[Len(w) + 1] + n]

LEMMA MarkAppend ==
  ASSUME NEW sn, NEW off, NEW w \in Seq(Seq(Byte)), NEW mark, Marks(sn, off, w, mark),
         NEW m \in Seq(Byte), Piece(sn, off, m, mark[Len(w) + 1])
  PROVE  LET new == Marked(w, mark, Len(m))
         IN /\ Marks(sn, off, Append(w, m), new) /\ new[1] = mark[1]
            /\ new[Len(w) + 2] = mark[Len(w) + 1] + Len(m)
  <1> DEFINE L == Len(w)
             new == Marked(w, mark, Len(m))
             u == Append(w, m)
  <1>1. L \in Nat /\ Len(u) = L + 1 /\ u[L + 1] = m /\ Len(m) \in Nat /\ \A i \in 1 .. L : u[i] = w[i]
    BY AppendProperties
  <1>2. /\ mark \in [1 .. L + 1 -> Nat] /\ mark[L + 1] \in Nat
        /\ \A i \in 1 .. L : Piece(sn, off, w[i], mark[i]) /\ mark[i + 1] = mark[i] + Len(w[i])
    BY <1>1 DEF Marks
  <1>3. /\ \A i \in 1 .. L + 1 : new[i] = mark[i]
        /\ new[L + 2] = mark[L + 1] + Len(m) /\ new \in [1 .. L + 2 -> Nat]
    <2>1. new = [i \in 1 .. L + 2 |-> IF i <= L + 1 THEN mark[i] ELSE mark[L + 1] + Len(m)]
      BY DEF Marked
    <2> HIDE DEF new, L
    <2>2. mark[L + 1] + Len(m) \in Nat
      BY <1>1, <1>2
    <2>3. \A i \in 1 .. L + 1 : i \in 1 .. L + 2 /\ i <= L + 1
      BY <1>1
    <2>4. \A i \in 1 .. L + 2 : i <= L + 1 => i \in 1 .. L + 1
      BY <1>1
    <2>5. L + 2 \in 1 .. L + 2 /\ ~(L + 2 <= L + 1)
      BY <1>1
    <2>6. QED
      BY <1>2, <2>1, <2>2, <2>3, <2>4, <2>5
  <1> HIDE DEF L, new, u
  <1>4. ASSUME NEW i \in 1 .. L + 1
        PROVE  Piece(sn, off, u[i], new[i]) /\ new[i + 1] = new[i] + Len(u[i])
    <2>1. CASE i \in 1 .. L
      <3>1. i + 1 \in 1 .. L + 1 /\ i \in 1 .. L + 1
        BY <1>1, <2>1
      <3>2. QED
        BY <1>1, <1>2, <1>3, <2>1, <3>1
    <2>2. CASE i = L + 1
      <3>1. i + 1 = L + 2
        BY <1>1, <2>2
      <3>2. QED
        BY <1>1, <1>3, <2>2, <3>1 DEF L
    <2>3. QED
      BY <1>1, <2>1, <2>2
  <1>5. Marks(sn, off, u, new)
    <2>1. new \in [1 .. Len(u) + 1 -> Nat]
      BY <1>1, <1>3
    <2>2. QED
      BY <1>1, <1>4, <2>1 DEF Marks
  <1>6. new[1] = mark[1]
    BY <1>1, <1>3
  <1>7. QED
    BY <1>3, <1>5, <1>6 DEF L, new, u

\* The first message is taken off the wire.
LEMMA MarkTail ==
  ASSUME NEW sn, NEW off, NEW w \in Seq(Seq(Byte)), w # << >>, NEW mark, Marks(sn, off, w, mark)
  PROVE  LET new == [i \in 1 .. Len(w) |-> mark[i + 1]]
         IN /\ Marks(sn, off, Tail(w), new) /\ Len(Tail(w)) = Len(w) - 1
            /\ Head(w) \in Seq(Byte) /\ Piece(sn, off, Head(w), mark[1]) /\ mark[1] \in Nat
            /\ new[1] = mark[1] + Len(Head(w)) /\ new[Len(w)] = mark[Len(w) + 1]
  <1> DEFINE L == Len(w)
             new == [i \in 1 .. Len(w) |-> mark[i + 1]]
             u == Tail(w)
  <1>1. /\ L \in Nat /\ L # 0 /\ Len(u) = L - 1 /\ Head(w) \in Seq(Byte) /\ Head(w) = w[1]
        /\ \A i \in 1 .. Len(u) : u[i] = w[i + 1]
    BY HeadTailProperties, EmptySeq
  <1>2. /\ mark \in [1 .. L + 1 -> Nat]
        /\ \A i \in 1 .. L : Piece(sn, off, w[i], mark[i]) /\ mark[i + 1] = mark[i] + Len(w[i])
    BY DEF Marks
  <1>3. new = [i \in 1 .. L |-> mark[i + 1]]
    OBVIOUS
  <1> HIDE DEF L, new, u
  <1>4. 1 \in 1 .. L /\ L \in 1 .. L /\ 1 \in 1 .. L + 1
    BY <1>1
  <1>5. /\ Piece(sn, off, Head(w), mark[1]) /\ mark[1] \in Nat
        /\ new[1] = mark[1] + Len(Head(w)) /\ new[L] = mark[L + 1]
    BY <1>1, <1>2, <1>3, <1>4
  <1>6. new \in [1 .. L -> Nat]
    <2>1. \A i \in 1 .. L : i + 1 \in 1 .. L + 1
      BY <1>1
    <2>2. QED
      BY <1>2, <1>3, <2>1
  <1>7. ASSUME NEW i \in 1 .. Len(u)
        PROVE  Piece(sn, off, u[i], new[i]) /\ new[i + 1] = new[i] + Len(u[i])
    <2>1. i \in 1 .. L /\ i + 1 \in 1 .. L
      BY <1>1
    <2>2. QED
      BY <1>1, <1>2, <1>3, <2>1
  <1>8. Marks(sn, off, u, new)
    <2>1. Len(u) + 1 = L
      BY <1>1
    <2>2. QED
      BY <1>6, <1>7, <2>1 DEF Marks
  <1>9. QED
    BY <1>1, <1>5, <1>8 DEF L, new, u

-----------------------------------------------------------------------------
(* The reader.                                                              *)

LEMMA WantedValue ==
  ASSUME Types, Done, Partial
  PROVE  /\ reader = "header" => Wanted = HeaderSize - Len(part) /\ Wanted \in Nat
         /\ reader = "payload" => /\ Current <= Len(sent) /\ sent[Current] \in Nat
                                  /\ Wanted = sent[Current] + HeaderSize - Len(part) /\ Wanted \in Nat
         /\ Current \in 1 .. Len(sent) + 1 /\ Len(part) \in Nat
  <1>1. Len(part) \in Nat /\ Len(received) \in Nat /\ Len(sent) \in Nat /\ HeaderSize \in Nat \ {0}
    BY Sizes DEF Types
  <1>2. Current \in 1 .. Len(sent) + 1
    BY <1>1 DEF Current, Done
  <1>3. CASE reader = "header"
    BY <1>1, <1>2, <1>3 DEF Wanted, Partial
  <1>4. CASE reader = "payload"
    <2>1. Len(part) >= 1 /\ Len(part) <= HeaderSize + sent[Current]
      BY <1>1, <1>4 DEF Partial
    <2>2. 1 \in 1 .. Len(part) /\ part # << >>
      BY <1>1, <2>1
    <2>3. part[1].frame = Current /\ Current <= Len(sent)
      <3>1. part[1] = [frame |-> Current, at |-> 1] /\ Current <= Len(sent)
        BY <2>2 DEF Partial
      <3>2. QED
        BY <3>1
    <2>4. sent[Current] \in Nat
      <3>1. Current \in 1 .. Len(sent)
        BY <1>1, <1>2, <2>3
      <3>2. QED
        BY <3>1 DEF Types
    <2>5. Wanted = sent[Current] + HeaderSize - Len(part)
      BY <1>4, <2>3 DEF Wanted
    <2>6. QED
      BY <1>1, <1>2, <1>4, <2>1, <2>3, <2>4, <2>5
  <1>5. QED
    BY <1>1, <1>2, <1>3, <1>4

\* What ReadFull gets are the next bytes of the frame it is at.
LEMMA Taken ==
  ASSUME Types, Done, Partial, reader # "failed", Wanted > 0, NEW off, Offsets(sent, off), NEW s \in Seq(Byte),
         Piece(sent, off, s, off[Current] + Len(part)), NEW n, n = Least(Len(s), Wanted)
  PROVE  LET new == part \o SubSeq(s, 1, n)
         IN /\ n \in Nat /\ n <= Len(s) /\ new \in Seq(Byte) /\ Len(new) = Len(part) + n
            /\ \A i \in 1 .. Len(new) : new[i] = [frame |-> Current, at |-> i]
            /\ new # << >> => Current <= Len(sent)
            /\ reader = "header" => Len(new) <= HeaderSize
            /\ reader = "payload" => Len(new) >= HeaderSize /\ Len(new) <= HeaderSize + sent[Current]
  <1> DEFINE l == Len(part)
             u == SubSeq(s, 1, n)
             new == part \o u
  <1>1. /\ l \in Nat /\ Wanted \in Nat /\ Len(s) \in Nat /\ HeaderSize \in Nat \ {0}
        /\ Current \in 1 .. Len(sent) + 1 /\ Len(sent) \in Nat /\ sent \in Seq(Nat) /\ part \in Seq(Byte)
    BY WantedValue, Sizes DEF Types
  <1>2. n \in Nat /\ n <= Len(s) /\ n <= Wanted
    BY <1>1 DEF Least
  <1>3. u \in Seq(Byte) /\ Len(u) = n /\ \A i \in 1 .. n : u[i] = s[i]
    BY <1>2, Cut
  <1>4. /\ new \in Seq(Byte) /\ Len(new) = l + n
        /\ \A i \in 1 .. l + n : new[i] = IF i <= l THEN part[i] ELSE u[i - l]
    BY <1>1, <1>3, ConcatProperties
  <1>5. /\ reader = "header" => l + n <= HeaderSize
        /\ reader = "payload" => l + n <= HeaderSize + sent[Current] /\ l + n >= HeaderSize
    <2>1. CASE reader = "header"
      BY <1>1, <1>2, <2>1, WantedValue
    <2>2. CASE reader = "payload"
      <3>1. /\ sent[Current] \in Nat /\ Wanted = sent[Current] + HeaderSize - l
        BY <2>2, WantedValue
      <3>2. l >= HeaderSize
        BY <2>2 DEF Partial
      <3> HIDE DEF l
      <3>3. QED
        BY <1>1, <1>2, <2>2, <3>1, <3>2
    <2>3. QED
      BY <2>1, <2>2
  <1>6. Current <= Len(sent) => l + n <= HeaderSize + sent[Current]
    <2> SUFFICES ASSUME Current <= Len(sent)
                 PROVE  l + n <= HeaderSize + sent[Current]
      OBVIOUS
    <2>1. Current \in 1 .. Len(sent)
      BY <1>1
    <2>2. sent[Current] \in Nat
      BY <1>1, <2>1
    <2>3. reader = "header" \/ reader = "payload"
      BY DEF Types
    <2> HIDE DEF l
    <2>4. QED
      BY <1>1, <1>2, <1>5, <2>2, <2>3
  <1>7. \A i \in 1 .. n : Current <= Len(sent) /\ s[i] = [frame |-> Current, at |-> l + i]
    BY <1>1, <1>2, <1>6, NextBytes
  <1> HIDE DEF l, u, new
  <1>8. ASSUME NEW i \in 1 .. l + n
        PROVE  new[i] = [frame |-> Current, at |-> i] /\ Current <= Len(sent)
    <2>1. CASE i <= l
      <3>1. i \in 1 .. l /\ new[i] = part[i]
        BY <1>1, <1>4, <2>1
      <3>2. part # << >>
        BY <1>1, <3>1, EmptySeq DEF l
      <3>3. QED
        BY <3>1, <3>2 DEF Partial, l
    <2>2. CASE ~(i <= l)
      <3>1. i - l \in 1 .. n /\ l + (i - l) = i /\ new[i] = u[i - l]
        BY <1>1, <1>2, <1>4, <2>2
      <3>2. QED
        BY <1>3, <1>7, <3>1
    <2>3. QED
      BY <2>1, <2>2
  <1>9. new # << >> => Current <= Len(sent)
    <2>1. new # << >> => 1 \in 1 .. l + n
      BY <1>1, <1>2, <1>4, EmptySeq
    <2>2. QED
      BY <1>8, <2>1
  <1>10. QED
    BY <1>2, <1>4, <1>5, <1>8, <1>9 DEF l, u, new

\* ReadMessage and ReadBuffered: the bytes s, which follow part in the stream, are
\* divided between part and the read buffer.
LEMMA Divided ==
  ASSUME Inv, reader # "failed", Wanted > 0, NEW off, Offsets(sent, off), NEW s \in Seq(Byte),
         Piece(sent, off, s, off[Current] + Len(part)), NEW n, n = Least(Len(s), Wanted),
         part' = part \o SubSeq(s, 1, n), readBuf' = SubSeq(s, n + 1, Len(s)),
         UNCHANGED <<ours, sent, plain, reader, received, broken>>
  PROVE  /\ part' \in Seq(Byte) /\ readBuf' \in Seq(Byte) /\ Done' /\ Partial' /\ Current' = Current
         /\ Piece(sent, off, readBuf', off[Current] + Len(part'))
         /\ off[Current] + Len(part') + Len(readBuf') = off[Current] + Len(part) + Len(s)
  <1>1. Types /\ Done /\ Partial
    BY DEF Inv
  <1>2. /\ n \in Nat /\ n <= Len(s) /\ part' \in Seq(Byte) /\ Len(part') = Len(part) + n
        /\ \A i \in 1 .. Len(part') : part'[i] = [frame |-> Current, at |-> i]
        /\ part' # << >> => Current <= Len(sent)
        /\ reader = "header" => Len(part') <= HeaderSize
        /\ reader = "payload" => Len(part') >= HeaderSize /\ Len(part') <= HeaderSize + sent[Current]
    BY <1>1, Taken
  <1>3. readBuf' \in Seq(Byte) /\ Len(readBuf') = Len(s) - n
    BY <1>2, Cut
  <1>4. Current' = Current /\ Done'
    BY <1>1 DEF Current, Done
  <1>5. Partial'
    BY <1>2, <1>4 DEF Partial
  <1>6. Len(part) \in Nat /\ off[Current] \in Nat /\ Len(s) \in Nat
    BY <1>1, WantedValue DEF Offsets
  <1>7. Piece(sent, off, readBuf', (off[Current] + Len(part)) + n)
    <2>1. off[Current] + Len(part) \in Nat
      BY <1>6
    <2>2. QED
      BY <1>2, <2>1, CutPiece
  <1>8. off[Current] + Len(part') = (off[Current] + Len(part)) + n
    BY <1>2, <1>6
  <1>9. Piece(sent, off, readBuf', off[Current] + Len(part'))
    BY <1>7, <1>8
  <1>10. off[Current] + Len(part') + Len(readBuf') = off[Current] + Len(part) + Len(s)
    <2> DEFINE o == off[Current]
               p == Len(part)
               q == Len(part')
               r == Len(readBuf')
               t == Len(s)
    <2>1. o \in Nat /\ p \in Nat /\ t \in Nat /\ n \in Nat /\ q = p + n /\ r = t - n
      BY <1>2, <1>3, <1>6
    <2> HIDE DEF o, p, q, r, t
    <2>2. o + q + r = o + p + t
      BY <2>1
    <2>3. QED
      BY <2>2 DEF o, p, q, r, t
  <1>11. QED
    BY <1>2, <1>3, <1>4, <1>5, <1>6, <1>9, <1>10

LEMMA InvReadMessage ==
  ASSUME Inv, ReadMessage
  PROVE  Inv'
  <1> DEFINE m == Head(wire)
             n == Least(Len(m), Wanted)
  <1>1. /\ reader # "failed" /\ readBuf = << >> /\ Wanted > 0 /\ wire # << >>
        /\ part' = part \o SubSeq(m, 1, n) /\ readBuf' = SubSeq(m, n + 1, Len(m)) /\ wire' = Tail(wire)
        /\ UNCHANGED <<ours, sent, plain, reader, received, broken>>
    BY DEF ReadMessage
  <1>2. PICK off, mark : Layout(off, mark)
    BY DEF Inv
  <1>3. wire \in Seq(Seq(Byte)) /\ Types /\ Done /\ Partial /\ (ours => plain = << >>)
    BY DEF Inv, Types
  <1>4. PICK new :
        /\ Marks(sent, off, Tail(wire), new) /\ Len(Tail(wire)) = Len(wire) - 1
        /\ m \in Seq(Byte) /\ Piece(sent, off, m, mark[1]) /\ mark[1] \in Nat
        /\ new[1] = mark[1] + Len(m) /\ new[Len(wire)] = mark[Len(wire) + 1]
    BY <1>1, <1>2, <1>3, MarkTail DEF Layout
  <1>5. Offsets(sent, off) /\ mark[1] = off[Current] + Len(part)
    <2>1. off[Current] \in Nat /\ Len(part) \in Nat /\ Len(readBuf) = 0
      BY <1>1, <1>2, <1>3, WantedValue DEF Layout, Offsets
    <2>2. QED
      BY <1>2, <2>1 DEF Layout
  <1> HIDE DEF m, n
  <1>6. n = Least(Len(m), Wanted)
    BY DEF n
  <1>7. /\ part' \in Seq(Byte) /\ readBuf' \in Seq(Byte) /\ Done' /\ Partial' /\ Current' = Current
        /\ Piece(sent, off, readBuf', off[Current] + Len(part'))
        /\ off[Current] + Len(part') + Len(readBuf') = off[Current] + Len(part) + Len(m)
    BY <1>1, <1>4, <1>5, <1>6, Divided
  <1>8. Len(wire) \in Nat
    BY <1>3
  <1>9. new[1] = off[Current] + Len(part') + Len(readBuf')
    BY <1>4, <1>5, <1>7
  <1>10. Len(wire') + 1 = Len(wire)
    BY <1>1, <1>4, <1>8
  <1>11. Layout(off, new)'
    <2>1. Piece(sent, off, plain, new[Len(wire') + 1]) /\ off[Len(sent) + 1] = new[Len(wire') + 1] + Len(plain)
      BY <1>2, <1>4, <1>10 DEF Layout
    <2>2. Offsets(sent', off) /\ Marks(sent', off, wire', new)
      BY <1>1, <1>4, <1>5
    <2>3. Piece(sent', off, readBuf', off[Current'] + Len(part'))
          /\ new[1] = off[Current'] + Len(part') + Len(readBuf')
      BY <1>1, <1>7, <1>9
    <2>4. QED
      BY <1>1, <2>1, <2>2, <2>3 DEF Layout
  <1>12. Types'
    <2>1. wire' \in Seq(Seq(Byte))
      BY <1>1, <1>3, HeadTailProperties
    <2>2. QED
      BY <1>1, <1>3, <1>7, <2>1 DEF Types
  <1>13. QED
    BY <1>1, <1>3, <1>7, <1>11, <1>12 DEF Inv

LEMMA InvReadBuffered ==
  ASSUME Inv, ReadBuffered
  PROVE  Inv'
  <1> DEFINE n == Least(Len(readBuf), Wanted)
  <1>1. /\ reader # "failed" /\ Wanted > 0
        /\ part' = part \o SubSeq(readBuf, 1, n) /\ readBuf' = SubSeq(readBuf, n + 1, Len(readBuf))
        /\ UNCHANGED <<ours, sent, plain, reader, received, broken>> /\ UNCHANGED wire
    BY DEF ReadBuffered
  <1>2. PICK off, mark : Layout(off, mark)
    BY DEF Inv
  <1>3. readBuf \in Seq(Byte) /\ Types /\ Done /\ Partial /\ (ours => plain = << >>)
    BY DEF Inv, Types
  <1> HIDE DEF n
  <1>4. n = Least(Len(readBuf), Wanted)
    BY DEF n
  <1>5. Offsets(sent, off) /\ Piece(sent, off, readBuf, off[Current] + Len(part))
    BY <1>2 DEF Layout
  <1>6. /\ part' \in Seq(Byte) /\ readBuf' \in Seq(Byte) /\ Done' /\ Partial' /\ Current' = Current
        /\ Piece(sent, off, readBuf', off[Current] + Len(part'))
        /\ off[Current] + Len(part') + Len(readBuf') = off[Current] + Len(part) + Len(readBuf)
    BY <1>1, <1>3, <1>4, <1>5, Divided
  <1>7. mark[1] = off[Current] + Len(part) + Len(readBuf)
    BY <1>2 DEF Layout
  <1>8. mark[1] = off[Current] + Len(part') + Len(readBuf')
    BY <1>6, <1>7
  <1>9. Layout(off, mark)'
    BY <1>1, <1>2, <1>6, <1>8 DEF Layout
  <1>10. Types'
    BY <1>1, <1>3, <1>6 DEF Types
  <1>11. QED
    BY <1>1, <1>3, <1>6, <1>9, <1>10 DEF Inv

LEMMA InvParseHeader ==
  ASSUME Inv, ParseHeader
  PROVE  Inv'
  <1>1. /\ reader = "header" /\ Wanted = 0 /\ reader' \in {"payload", "failed"}
        /\ UNCHANGED <<ours, sent, plain, wire, readBuf, part, received, broken>>
    BY DEF ParseHeader
  <1>2. Types /\ Done /\ Partial /\ (ours => plain = << >>)
    BY DEF Inv
  <1>3. Len(part) = HeaderSize /\ HeaderSize \in Nat \ {0} /\ part # << >>
    <2>1. Len(part) \in Nat /\ HeaderSize - Len(part) = 0 /\ HeaderSize \in Nat \ {0}
      BY <1>1, <1>2, WantedValue, Sizes
    <2>2. Len(part) = HeaderSize
      BY <2>1
    <2>3. QED
      BY <2>1, <2>2
  <1>4. Current' = Current /\ sent[Current] \in Nat
    <2>1. Current <= Len(sent) /\ Current \in 1 .. Len(sent) + 1
      BY <1>2, <1>3, WantedValue DEF Partial
    <2>2. Current \in 1 .. Len(sent)
      BY <1>2, <2>1 DEF Types
    <2>3. QED
      BY <1>1, <1>2, <2>2 DEF Current, Types
  <1>5. Partial'
    <2>1. Len(part) >= HeaderSize /\ Len(part) <= HeaderSize + sent[Current]
      BY <1>3, <1>4
    <2>2. QED
      BY <1>1, <1>2, <1>4, <2>1 DEF Partial
  <1>6. Types' /\ Done'
    BY <1>1, <1>2 DEF Types, Done
  <1>7. \A off, mark : Layout(off, mark) => Layout(off, mark)'
    BY <1>1, <1>4 DEF Layout
  <1>8. QED
    BY <1>1, <1>2, <1>5, <1>6, <1>7 DEF Inv

LEMMA InvReturnFrame ==
  ASSUME Inv, ReturnFrame
  PROVE  Inv'
  <1>1. /\ reader = "payload" /\ Wanted = 0 /\ received' = Append(received, part)
        /\ reader' = "header" /\ part' = << >> /\ UNCHANGED <<ours, sent, plain, wire, readBuf, broken>>
    BY DEF ReturnFrame
  <1>2. Types /\ Done /\ Partial /\ (ours => plain = << >>)
    BY DEF Inv
  <1>3. PICK off, mark : Layout(off, mark)
    BY DEF Inv
  <1>4. /\ Current <= Len(sent) /\ sent[Current] \in Nat /\ Len(part) \in Nat /\ HeaderSize \in Nat
        /\ 0 = sent[Current] + HeaderSize - Len(part) /\ Current \in 1 .. Len(sent) + 1 /\ Len(sent) \in Nat
    BY <1>1, <1>2, WantedValue, Sizes DEF Types
  <1>5. Len(part) = HeaderSize + sent[Current] /\ Current \in 1 .. Len(sent) /\ Current \in Nat
    BY <1>4
  <1>6. part = Bytes(Current, sent[Current])
    <2>1. /\ Bytes(Current, sent[Current]) \in Seq(Byte)
          /\ Len(Bytes(Current, sent[Current])) = HeaderSize + sent[Current]
          /\ \A i \in 1 .. HeaderSize + sent[Current] : Bytes(Current, sent[Current])[i] = [frame |-> Current, at |-> i]
      BY <1>4, <1>5, BytesType
    <2>2. \A i \in 1 .. Len(part) : part[i] = Bytes(Current, sent[Current])[i]
      BY <1>2, <1>5, <2>1 DEF Partial
    <2>3. QED
      BY <1>2, <1>5, <2>1, <2>2, SeqEqual DEF Types
  <1>7. /\ received' \in Seq(Seq(Byte)) /\ Len(received') = Len(received) + 1 /\ Len(received) \in Nat
        /\ \A f \in 1 .. Len(received) : received'[f] = received[f]
        /\ received'[Len(received) + 1] = part
    BY <1>1, <1>2, AppendProperties DEF Types
  <1>8. Current' = Current + 1 /\ Current = Len(received) + 1
    BY <1>7 DEF Current
  <1>9. Done'
    <2>1. Len(received') <= Len(sent)
      BY <1>5, <1>7, <1>8
    <2>2. ASSUME NEW f \in 1 .. Len(received')
          PROVE  received'[f] = Bytes(f, sent[f])
      <3>1. CASE f \in 1 .. Len(received)
        BY <1>2, <1>7, <3>1 DEF Done
      <3>2. CASE f = Len(received) + 1
        BY <1>6, <1>7, <1>8, <3>2
      <3>3. QED
        BY <1>7, <3>1, <3>2
    <2>3. QED
      BY <1>1, <2>1, <2>2 DEF Done
  <1>10. Len(part') = 0 /\ part' \in Seq(Byte)
    BY <1>1
  <1>11. Partial'
    BY <1>1, <1>10, Sizes DEF Partial
  <1>12. Types'
    BY <1>1, <1>2, <1>7, <1>10 DEF Types
  <1>13. Layout(off, mark)'
    <2>1. off[Current + 1] = off[Current] + HeaderSize + sent[Current] /\ off[Current] \in Nat
      BY <1>3, <1>4, <1>5 DEF Layout, Offsets
    <2>2. off[Current'] + Len(part') = off[Current] + Len(part)
      BY <1>4, <1>5, <1>8, <1>10, <2>1
    <2>3. Piece(sent, off, readBuf, off[Current'] + Len(part'))
          /\ mark[1] = off[Current'] + Len(part') + Len(readBuf)
      BY <1>3, <2>2 DEF Layout
    <2>4. QED
      BY <1>1, <1>3, <2>3 DEF Layout
  <1>14. QED
    BY <1>1, <1>2, <1>9, <1>11, <1>12, <1>13 DEF Inv

-----------------------------------------------------------------------------
(* The writer.                                                              *)

\* A frame is added to the stream: what is read does not change, and what follows
\* the wire is given by its mark.
LEMMA Longer ==
  ASSUME Types, Done, Partial, NEW off, NEW mark, Layout(off, mark), NEW n \in Nat, sent' = Append(sent, n),
         UNCHANGED <<readBuf, part, reader, received>>
  PROVE  /\ sent' \in Seq(Nat) /\ Len(sent') = Len(sent) + 1 /\ Done' /\ Partial' /\ Current' = Current
         /\ \E ext : /\ Offsets(sent', ext) /\ Marks(sent', ext, wire, mark)
                     /\ Piece(sent', ext, readBuf, ext[Current] + Len(part))
                     /\ mark[1] = ext[Current] + Len(part) + Len(readBuf)
                     /\ Piece(sent', ext, plain, mark[Len(wire) + 1])
                     /\ off[Len(sent) + 1] = mark[Len(wire) + 1] + Len(plain)
                     /\ off[Len(sent) + 1] \in Nat
                     /\ Piece(sent', ext, Bytes(Len(sent'), n), off[Len(sent) + 1])
                     /\ ext[Len(sent') + 1] = off[Len(sent) + 1] + HeaderSize + n
  <1> DEFINE ext == Extended(sent, off, n)
  <1>1. sent \in Seq(Nat) /\ Offsets(sent, off) /\ Marks(sent, off, wire, mark)
    BY DEF Types, Layout
  <1>2. /\ Offsets(sent', ext) /\ \A f \in 1 .. Len(sent) + 1 : ext[f] = off[f]
        /\ ext[Len(sent) + 2] = off[Len(sent) + 1] + HeaderSize + n
        /\ Piece(sent', ext, Bytes(Len(sent) + 1, n), off[Len(sent) + 1])
        /\ \A s, p : Piece(sent, off, s, p) => Piece(sent', ext, s, p)
    BY <1>1, Extend
  <1>3. /\ sent' \in Seq(Nat) /\ Len(sent') = Len(sent) + 1 /\ Len(sent) \in Nat
        /\ \A f \in 1 .. Len(sent) : sent'[f] = sent[f]
    BY <1>1, AppendProperties
  <1> HIDE DEF ext
  <1>4. Current' = Current /\ Current \in 1 .. Len(sent) + 1 /\ Len(received) \in Nat
    BY WantedValue DEF Current, Types
  <1>5. Done'
    <2>1. \A f \in 1 .. Len(received) : f \in 1 .. Len(sent)
      BY <1>3, <1>4 DEF Done
    <2>2. Len(received) <= Len(sent')
      BY <1>3, <1>4 DEF Done
    <2>3. QED
      BY <1>3, <2>1, <2>2 DEF Done
  <1>6. Partial'
    <2>1. part # << >> => Current <= Len(sent')
      BY <1>3, <1>4 DEF Partial
    <2>2. reader = "payload" => sent'[Current] = sent[Current]
      <3>1. reader = "payload" => Current \in 1 .. Len(sent)
        BY <1>3, <1>4, WantedValue
      <3>2. QED
        BY <1>3, <3>1
    <2>3. QED
      BY <1>4, <2>1, <2>2 DEF Partial
  <1>7. Marks(sent', ext, wire, mark)
    BY <1>1, <1>2 DEF Marks
  <1>8. ext[Current] = off[Current] /\ off[Len(sent) + 1] \in Nat
    <2>1. Len(sent) + 1 \in 1 .. Len(sent) + 1
      BY <1>3
    <2>2. QED
      BY <1>1, <1>2, <1>4, <2>1 DEF Offsets
  <1>9. /\ Piece(sent', ext, readBuf, ext[Current] + Len(part))
        /\ mark[1] = ext[Current] + Len(part) + Len(readBuf)
        /\ Piece(sent', ext, plain, mark[Len(wire) + 1])
        /\ off[Len(sent) + 1] = mark[Len(wire) + 1] + Len(plain)
    BY <1>2, <1>8 DEF Layout
  <1>10. Len(sent') + 1 = Len(sent) + 2
    BY <1>3
  <1>11. /\ Piece(sent', ext, Bytes(Len(sent'), n), off[Len(sent) + 1])
         /\ ext[Len(sent') + 1] = off[Len(sent) + 1] + HeaderSize + n
    BY <1>2, <1>3, <1>10
  <1>12. QED
    BY <1>2, <1>3, <1>4, <1>5, <1>6, <1>7, <1>8, <1>9, <1>11

LEMMA InvWriteFrame ==
  ASSUME Inv, NEW n \in Nat, WriteFrame(n)
  PROVE  Inv'
  <1>0. PICK b : b = Bytes(Len(sent'), n)
    OBVIOUS
  <1>1. /\ sent' = Append(sent, n) /\ UNCHANGED <<ours, readBuf, part, reader, received, broken>>
        /\ ours => wire' = Append(wire, b) /\ UNCHANGED plain
        /\ ~ours => plain' = plain \o b /\ UNCHANGED wire
    BY <1>0 DEF WriteFrame
  <1>2. Types /\ Done /\ Partial /\ (ours => plain = << >>) /\ wire \in Seq(Seq(Byte)) /\ plain \in Seq(Byte)
    BY DEF Inv, Types
  <1>3. PICK off, mark : Layout(off, mark)
    BY DEF Inv
  <1>4. sent' \in Seq(Nat) /\ Len(sent') = Len(sent) + 1 /\ Done' /\ Partial' /\ Current' = Current
    BY <1>1, <1>2, <1>3, Longer
  <1>5. PICK ext :
        /\ Offsets(sent', ext) /\ Marks(sent', ext, wire, mark)
        /\ Piece(sent', ext, readBuf, ext[Current] + Len(part))
        /\ mark[1] = ext[Current] + Len(part) + Len(readBuf)
        /\ Piece(sent', ext, plain, mark[Len(wire) + 1])
        /\ off[Len(sent) + 1] = mark[Len(wire) + 1] + Len(plain)
        /\ off[Len(sent) + 1] \in Nat
        /\ Piece(sent', ext, b, off[Len(sent) + 1])
        /\ ext[Len(sent') + 1] = off[Len(sent) + 1] + HeaderSize + n
    BY <1>0, <1>1, <1>2, <1>3, Longer
  <1>6. b \in Seq(Byte) /\ Len(b) = HeaderSize + n /\ Len(plain) \in Nat /\ Len(wire) \in Nat /\ HeaderSize \in Nat
    <2>1. Len(sent') \in Nat
      BY <1>4
    <2>2. b \in Seq(Byte) /\ Len(b) = HeaderSize + n
      BY <1>0, <2>1, BytesType
    <2>3. QED
      BY <1>2, <2>2, Sizes
  <1>7. mark[Len(wire) + 1] \in Nat
    <2>1. Len(wire) + 1 \in 1 .. Len(wire) + 1
      BY <1>6
    <2>2. QED
      BY <1>5, <2>1 DEF Marks
  <1>8. CASE ours
    <2>1. plain = << >> /\ Len(plain) = 0 /\ wire' = Append(wire, b) /\ plain' = plain
      BY <1>1, <1>2, <1>8
    <2>2. off[Len(sent) + 1] = mark[Len(wire) + 1]
      BY <1>5, <1>7, <2>1
    <2>3. PICK new : /\ Marks(sent', ext, Append(wire, b), new) /\ new[1] = mark[1]
                     /\ new[Len(wire) + 2] = mark[Len(wire) + 1] + Len(b)
      <3>1. Marks(sent', ext, wire, mark) /\ Piece(sent', ext, b, mark[Len(wire) + 1]) /\ b \in Seq(Byte)
        BY <1>5, <1>6, <2>2
      <3>2. wire \in Seq(Seq(Byte)) /\ Len(wire) \in Nat /\ Len(b) \in Nat
        BY <1>2, <1>6
      <3>3. QED
        BY <3>1, <3>2, MarkAppend
    <2>4. Len(wire') + 1 = Len(wire) + 2 /\ wire' \in Seq(Seq(Byte))
      <3>1. wire' \in Seq(Seq(Byte)) /\ Len(wire') = Len(wire) + 1
        BY <1>2, <1>6, <2>1, AppendProperties
      <3>2. QED
        BY <1>6, <3>1
    <2>5. ext[Len(sent') + 1] = new[Len(wire') + 1] + Len(plain')
      BY <1>5, <1>6, <1>7, <2>1, <2>2, <2>3, <2>4
    <2>6. Piece(sent', ext, plain', new[Len(wire') + 1])
      BY <2>1 DEF Piece
    <2>7. Layout(ext, new)'
      BY <1>1, <1>4, <1>5, <2>1, <2>3, <2>5, <2>6 DEF Layout
    <2>8. Types'
      BY <1>1, <1>2, <1>4, <2>1, <2>4 DEF Types
    <2>9. QED
      BY <1>1, <1>2, <1>4, <2>1, <2>7, <2>8 DEF Inv
  <1>9. CASE ~ours
    <2>1. plain' = plain \o b /\ wire' = wire
      BY <1>1, <1>9
    <2>2. plain' \in Seq(Byte) /\ Len(plain') = Len(plain) + Len(b)
      BY <1>2, <1>6, <2>1, ConcatProperties
    <2>3. Piece(sent', ext, plain', mark[Len(wire) + 1])
      BY <1>2, <1>5, <1>6, <1>7, <2>1, JoinPiece
    <2>4. ext[Len(sent') + 1] = mark[Len(wire) + 1] + Len(plain')
      BY <1>5, <1>6, <1>7, <2>2
    <2>5. Layout(ext, mark)'
      BY <1>1, <1>4, <1>5, <2>1, <2>3, <2>4 DEF Layout
    <2>6. Types'
      BY <1>1, <1>2, <1>4, <2>1, <2>2 DEF Types
    <2>7. QED
      BY <1>1, <1>4, <1>9, <2>5, <2>6 DEF Inv
  <1>10. QED
    BY <1>8, <1>9

LEMMA InvWriteMessage ==
  ASSUME Inv, NEW k \in Nat, WriteMessage(k)
  PROVE  Inv'
  <1> DEFINE m == SubSeq(plain, 1, k)
             rest == SubSeq(plain, k + 1, Len(plain))
  <1>1. /\ ~ours /\ k <= Len(plain) /\ wire' = Append(wire, m) /\ plain' = rest
        /\ UNCHANGED <<ours, sent, readBuf, part, reader, received, broken>>
    BY DEF WriteMessage
  <1>2. Types /\ Done /\ Partial /\ wire \in Seq(Seq(Byte)) /\ plain \in Seq(Byte)
    BY DEF Inv, Types
  <1>3. PICK off, mark : Layout(off, mark)
    BY DEF Inv
  <1>4. /\ m \in Seq(Byte) /\ Len(m) = k /\ rest \in Seq(Byte) /\ Len(rest) = Len(plain) - k
        /\ Len(plain) \in Nat /\ Len(wire) \in Nat
    BY <1>1, <1>2, Cut
  <1>5. mark[Len(wire) + 1] \in Nat
    <2>1. Len(wire) + 1 \in 1 .. Len(wire) + 1
      BY <1>4
    <2>2. QED
      BY <1>3, <2>1 DEF Layout, Marks
  <1>6. Piece(sent, off, m, mark[Len(wire) + 1]) /\ Piece(sent, off, rest, mark[Len(wire) + 1] + k)
    BY <1>1, <1>2, <1>3, <1>5, CutPiece DEF Layout
  <1> HIDE DEF m, rest
  <1>7. PICK new : /\ Marks(sent, off, Append(wire, m), new) /\ new[1] = mark[1]
                   /\ new[Len(wire) + 2] = mark[Len(wire) + 1] + Len(m)
    BY <1>2, <1>3, <1>4, <1>6, MarkAppend DEF Layout
  <1>8. Len(wire') + 1 = Len(wire) + 2 /\ wire' \in Seq(Seq(Byte))
    <2>1. wire' \in Seq(Seq(Byte)) /\ Len(wire') = Len(wire) + 1
      BY <1>1, <1>2, <1>4, AppendProperties
    <2>2. QED
      BY <1>4, <2>1
  <1>9. new[Len(wire') + 1] = mark[Len(wire) + 1] + k
    BY <1>4, <1>7, <1>8
  <1>10. off[Len(sent) + 1] = new[Len(wire') + 1] + Len(plain')
    <2>1. off[Len(sent) + 1] = mark[Len(wire) + 1] + Len(plain)
      BY <1>3 DEF Layout
    <2>2. QED
      BY <1>1, <1>4, <1>5, <1>9, <2>1
  <1>11. Current' = Current /\ Done' /\ Partial'
    BY <1>1, <1>2 DEF Current, Done, Partial
  <1>12. Layout(off, new)'
    BY <1>1, <1>3, <1>6, <1>7, <1>9, <1>10, <1>11 DEF Layout
  <1>13. Types'
    BY <1>1, <1>2, <1>4, <1>8 DEF Types
  <1>14. QED
    BY <1>1, <1>11, <1>12, <1>13 DEF Inv

-----------------------------------------------------------------------------

LEMMA InvInit == Init => Inv
  <1> SUFFICES ASSUME Init
               PROVE  Inv
    OBVIOUS
  <1>1. Types /\ (ours => plain = << >>)
    <2>1. << >> \in Seq(Nat) /\ << >> \in Seq(Byte) /\ << >> \in Seq(Seq(Byte))
      OBVIOUS
    <2>2. QED
      BY <2>1 DEF Init, Types
  <1>2. Len(sent) = 0 /\ Len(received) = 0 /\ Len(part) = 0 /\ Len(wire) = 0 /\ Len(readBuf) = 0 /\ Len(plain) = 0
        /\ Current = 1 /\ part = << >> /\ reader = "header"
    BY DEF Init, Current
  <1>3. Done /\ Partial
    BY <1>2, Sizes DEF Done, Partial
  <1> DEFINE zero == [i \in 1 .. 1 |-> 0]
  <1>4. zero \in [1 .. 1 -> Nat] /\ zero[1] = 0
    OBVIOUS
  <1> HIDE DEF zero
  <1>5. \A s, p : Len(s) = 0 => Piece(sent, zero, s, p)
    BY DEF Piece
  <1>6. Offsets(sent, zero) /\ Marks(sent, zero, wire, zero)
    BY <1>2, <1>4 DEF Offsets, Marks
  <1>7. Layout(zero, zero)
    BY <1>2, <1>4, <1>5, <1>6 DEF Layout
  <1>8. QED
    BY <1>1, <1>3, <1>7 DEF Inv

LEMMA InvNext == Inv /\ [Next]_vars => Inv'
  <1> SUFFICES ASSUME Inv, [Next]_vars
               PROVE  Inv'
    OBVIOUS
  <1>1. ASSUME NEW n \in 0 .. MaxPayload + 1, WriteFrame(n)
        PROVE  Inv'
    BY <1>1, Sizes, InvWriteFrame
  <1>2. ASSUME NEW k \in 0 .. MaxPayload + HeaderSize + 1, WriteMessage(k)
        PROVE  Inv'
    BY <1>2, Sizes, InvWriteMessage
  <1>3. CASE ReadMessage
    BY <1>3, InvReadMessage
  <1>4. CASE ReadBuffered
    BY <1>4, InvReadBuffered
  <1>5. CASE ParseHeader
    BY <1>5, InvParseHeader
  <1>6. CASE ReturnFrame
    BY <1>6, InvReturnFrame
  <1>7. CASE MessageTooLarge \/ ReadFails \/ UNCHANGED vars
    <2>1. /\ UNCHANGED <<ours, sent, plain, wire, readBuf, part, received>>
          /\ reader' = reader \/ reader' = "failed"
          /\ broken' = broken \/ broken' = TRUE
      BY <1>7 DEF MessageTooLarge, ReadFails, vars
    <2>2. Types /\ Done /\ Partial /\ (ours => plain = << >>)
      BY DEF Inv
    <2>3. Types'
      BY <2>1, <2>2 DEF Types
    <2>4. Current' = Current /\ Done' /\ Partial'
      BY <2>1, <2>2 DEF Current, Done, Partial
    <2>5. \A off, mark : Layout(off, mark) => Layout(off, mark)'
      BY <2>1, <2>4 DEF Layout
    <2>6. QED
      BY <2>1, <2>2, <2>3, <2>4, <2>5 DEF Inv
  <1>8. QED
    BY <1>1, <1>2, <1>3, <1>4, <1>5, <1>6, <1>7 DEF Next, Reader

\* What ReadFrame returns are the frames that WriteFrame was given, whole and in
\* order, for all sizes, however a peer cuts the stream into Noise messages and
\* wherever the connection fails.
THEOREM FramesIntactHolds == Spec => []FramesIntact
  <1>1. Inv => FramesIntact
    <2> SUFFICES ASSUME Inv
                 PROVE  FramesIntact
      OBVIOUS
    <2> DEFINE all == [f \in DOMAIN sent |-> Bytes(f, sent[f])]
    <2>1. sent \in Seq(Nat) /\ received \in Seq(Seq(Byte)) /\ Done
      BY DEF Inv, Types
    <2>2. Len(sent) \in Nat /\ DOMAIN sent = 1 .. Len(sent) /\ \A f \in 1 .. Len(sent) : sent[f] \in Nat
      BY <2>1
    <2>3. ASSUME NEW f \in 1 .. Len(sent)
          PROVE  Bytes(f, sent[f]) \in Seq(Byte)
      <3>1. f \in Nat /\ sent[f] \in Nat
        BY <2>2
      <3>2. QED
        BY <3>1, BytesType
    <2>4. all \in [1 .. Len(sent) -> Seq(Byte)]
      BY <2>2, <2>3
    <2>5. all \in Seq(Seq(Byte)) /\ Len(all) = Len(sent)
      <3>1. all \in Seq(Seq(Byte))
        BY <2>2, <2>4, SeqDef
      <3>2. DOMAIN all = 1 .. Len(sent) /\ DOMAIN all = 1 .. Len(all) /\ Len(all) \in Nat
        BY <2>4, <3>1, LenProperties
      <3>3. QED
        BY <2>2, <3>1, <3>2
    <2>6. Len(received) \in Nat /\ Len(received) <= Len(all)
      BY <2>1, <2>5 DEF Done
    <2>7. \A f \in 1 .. Len(received) : f \in 1 .. Len(sent) /\ received[f] = all[f]
      BY <2>1, <2>2, <2>6 DEF Done
    <2> HIDE DEF all
    <2>8. SubSeq(received, 1, Len(received)) = received
      BY <2>1, SubSeqFull
    <2>9. SubSeq(all, 1, Len(received)) = received
      <3>1. \A f \in 1 .. Len(received) : all[f] \in Seq(Byte)
        BY <2>4, <2>7
      <3>2. /\ SubSeq(all, 1, Len(received)) \in Seq(Seq(Byte))
            /\ Len(SubSeq(all, 1, Len(received))) = (IF 1 <= Len(received) THEN Len(received) - 1 + 1 ELSE 0)
            /\ \A i \in 1 .. Len(received) - 1 + 1 : SubSeq(all, 1, Len(received))[i] = all[1 + i - 1]
        BY <2>6, <3>1, SubSeqProperties
      <3>3. Len(SubSeq(all, 1, Len(received))) = Len(received)
        BY <2>6, <3>2
      <3>4. \A i \in 1 .. Len(received) : SubSeq(all, 1, Len(received))[i] = received[i]
        BY <2>6, <2>7, <3>2
      <3>5. QED
        BY <2>1, <3>2, <3>3, <3>4, SeqEqual
    <2>10. QED
      BY <2>6, <2>8, <2>9 DEF FramesIntact, IsPrefix, all
  <1>2. QED
    BY <1>1, InvInit, InvNext, PTL DEF Spec
=============================================================================
