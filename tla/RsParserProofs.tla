--------------------------- MODULE RsParserProofs ---------------------------
(***************************************************************************)
(* Proofs about the parser of ws-rs: given the units of a sequence of      *)
(* frames in any portions, parse returns the frames one by one.            *)
(***************************************************************************)
EXTENDS RsParser, SequenceFacts

USE Zenon

(* A function on 1..n is a sequence of length n.                           *)
LEMMA FunctionIsSeq ==
    ASSUME NEW S, NEW n \in Nat, NEW f \in [1..n -> S]
    PROVE  f \in Seq(S) /\ Len(f) = n
  BY SMT

(* The parts of a sequence that is not empty.                              *)
LEMMA SeqParts ==
    ASSUME NEW S, NEW s \in Seq(S), s # <<>>
    PROVE  /\ s[1] \in S /\ Tail(s) \in Seq(S) /\ Len(s) \in Nat /\ Len(s) > 0
           /\ Len(Tail(s)) = Len(s) - 1 /\ (Tail(s) = <<>> => Len(s) = 1)
  <1>1. /\ s[1] \in S /\ Tail(s) \in Seq(S) /\ Len(s) \in Nat /\ Len(s) > 0
        /\ Len(Tail(s)) = Len(s) - 1
    BY SMT
  <1>2. Len(<<>>) = 0
    BY SMT
  <1>3. \A n \in Nat : n - 1 = 0 => n = 1
    BY SMT
  <1> QED BY <1>1, <1>2, <1>3

(* Units in a row.                                                         *)
LEMMA Regroup ==
    ASSUME NEW a \in Seq(Unit), NEW b \in Seq(Unit), NEW c \in Seq(Unit)
    PROVE  (a \o b) \o c = a \o (b \o c)
  BY Regroups, SMT

(* Only empty parts make an empty whole.                                   *)
LEMMA BothEmpty ==
    ASSUME NEW a \in Seq(Unit), NEW b \in Seq(Unit), <<>> = a \o b
    PROVE  Len(a) = 0 /\ Len(b) = 0
  <1>1. Len(a \o b) = Len(a) + Len(b) /\ Len(a) \in Nat /\ Len(b) \in Nat
    BY SMT
  <1>2. Len(a \o b) = 0
    BY SMT
  <1> QED BY <1>1, <1>2, SMT

(* A header and the bytes of a payload, as units of the stream.            *)
Header(f) == [op |-> f.op, fin |-> f.fin, rsv |-> f.rsv, mask |-> f.mask,
              len |-> Len(f.pl)]
ByteUnits(pl) == [i \in 1..Len(pl) |-> [byte |-> pl[i]]]

(* The units of a frame are its header and its bytes.                      *)
LEMMA UnitsSplit ==
    ASSUME NEW f \in InFrame
    PROVE  /\ Units(f) = <<Header(f)>> \o ByteUnits(f.pl)
           /\ Header(f) \in HeaderUnit /\ ByteUnits(f.pl) \in Seq(Unit)
           /\ Len(ByteUnits(f.pl)) = Len(f.pl)
           /\ Units(f) \in Seq(Unit)
  <1>1. f.pl \in Seq(Byte) /\ Len(f.pl) \in Nat
    BY SMT DEF InFrame
  <1>2. Header(f) \in HeaderUnit
    BY <1>1, SMT DEF InFrame, Header, HeaderUnit
  <1>3. \A i \in 1..Len(f.pl) : [byte |-> f.pl[i]] \in Unit
    <2>1. [byte : Byte] \subseteq Unit
      BY DEF Unit
    <2>2. \A i \in 1..Len(f.pl) : [byte |-> f.pl[i]] \in [byte : Byte]
      BY <1>1, SMT
    <2> QED BY <2>1, <2>2
  <1>4. ByteUnits(f.pl) \in Seq(Unit) /\ Len(ByteUnits(f.pl)) = Len(f.pl)
    <2>1. ByteUnits(f.pl) \in [1..Len(f.pl) -> Unit]
      BY <1>3 DEF ByteUnits
    <2> HIDE DEF ByteUnits
    <2> QED BY <1>1, <2>1, SMT
  <1>6. Units(f) = <<Header(f)>> \o ByteUnits(f.pl)
    BY DEF Units, Header, ByteUnits
  <1>7. <<Header(f)>> \in Seq(Unit)
    <2>1. Header(f) \in Unit
      BY <1>2 DEF Unit, HeaderUnit
    <2> QED BY <2>1, SMT
  <1> QED BY <1>1, <1>2, <1>4, <1>6, <1>7, SMT

(* What Stream chooses: the streams of the ends of fs.                     *)
IsStream(fs, g) ==
    g = [i \in 1..(Len(fs) + 1) |->
            IF i > Len(fs) THEN <<>> ELSE Units(fs[i]) \o g[i + 1]]

(* The same, entry by entry.                                               *)
LEMMA StreamEntries ==
    ASSUME NEW fs \in Seq(InFrame), NEW g, IsStream(fs, g)
    PROVE  \A i \in 1..(Len(fs) + 1) :
              g[i] = IF i > Len(fs) THEN <<>> ELSE Units(fs[i]) \o g[i + 1]
  BY DEF IsStream

(* And back.                                                               *)
LEMMA StreamFromEntries ==
    ASSUME NEW fs \in Seq(InFrame), NEW g, DOMAIN g = 1..(Len(fs) + 1),
           g = [i \in DOMAIN g |-> g[i]],
           \A i \in 1..(Len(fs) + 1) :
              g[i] = IF i > Len(fs) THEN <<>> ELSE Units(fs[i]) \o g[i + 1]
    PROVE  IsStream(fs, g)
  BY DEF IsStream

(* From the function of the tail one gets that of the whole sequence.      *)
LEMMA StreamExtends ==
    ASSUME NEW fs \in Seq(InFrame), fs # <<>>, NEW g, IsStream(Tail(fs), g)
    PROVE  \E h : IsStream(fs, h) /\ h[1] = Units(fs[1]) \o g[1]
  <1> DEFINE h == [i \in 1..(Len(fs) + 1) |->
                      IF i = 1 THEN Units(fs[1]) \o g[1] ELSE g[i - 1]]
  <1>1. /\ Len(fs) \in Nat /\ Len(fs) > 0 /\ Len(Tail(fs)) = Len(fs) - 1
        /\ \A i \in 1..(Len(fs) - 1) : Tail(fs)[i] = fs[i + 1]
        /\ Tail(fs) \in Seq(InFrame)
    BY SMT
  <1>2. \A i \in 1..Len(fs) :
           g[i] = IF i > Len(fs) - 1 THEN <<>> ELSE Units(fs[i + 1]) \o g[i + 1]
    <2>1. \A i \in 1..(Len(Tail(fs)) + 1) :
             g[i] = IF i > Len(Tail(fs)) THEN <<>> ELSE Units(Tail(fs)[i]) \o g[i + 1]
      BY <1>1, StreamEntries
    <2> QED BY <1>1, <2>1, SMT
  <1>3. \A i \in 1..(Len(fs) + 1) :
           h[i] = IF i > Len(fs) THEN <<>> ELSE Units(fs[i]) \o h[i + 1]
    <2> SUFFICES ASSUME NEW i \in 1..(Len(fs) + 1)
                 PROVE  h[i] = IF i > Len(fs) THEN <<>> ELSE Units(fs[i]) \o h[i + 1]
      OBVIOUS
    <2>1. CASE i = 1
      <3>1. 2 \in 1..(Len(fs) + 1) /\ ~(1 > Len(fs)) /\ 2 # 1 /\ 2 - 1 = 1 /\ 1 + 1 = 2
        BY <1>1, SMT
      <3>2. h[2] = g[1]
        BY <3>1
      <3> QED BY <2>1, <3>1, <3>2
    <2>2. CASE i # 1
      <3>1. /\ i - 1 \in 1..Len(fs) /\ i - 1 + 1 = i /\ (i - 1 > Len(fs) - 1 <=> i > Len(fs))
            /\ ~(i > Len(fs)) => i + 1 \in 1..(Len(fs) + 1) /\ i + 1 # 1 /\ i + 1 - 1 = i
        BY <1>1, <2>2, SMT
      <3>2. h[i] = IF i > Len(fs) THEN <<>> ELSE Units(fs[i]) \o g[i]
        <4> DEFINE j == i - 1
        <4>1. h[i] = g[j]
          BY <2>2
        <4>2. j \in 1..Len(fs) /\ j + 1 = i /\ (j > Len(fs) - 1 <=> i > Len(fs))
          BY <3>1
        <4> HIDE DEF j, h
        <4> QED BY <1>2, <4>1, <4>2
      <3>3. ASSUME ~(i > Len(fs)) PROVE h[i + 1] = g[i]
        <4> DEFINE k == i + 1
        <4>1. k \in 1..(Len(fs) + 1) /\ k # 1 /\ k - 1 = i
          BY <1>1, <3>3, SMT
        <4> HIDE DEF k
        <4>2. h[k] = g[i]
          BY <4>1
        <4> QED BY <4>2 DEF k
      <3> QED BY <3>2, <3>3
    <2> QED BY <2>1, <2>2
  <1>4. DOMAIN h = 1..(Len(fs) + 1) /\ h = [i \in DOMAIN h |-> h[i]]
    OBVIOUS
  <1>5. h[1] = Units(fs[1]) \o g[1]
    <2>1. 1 \in 1..(Len(fs) + 1)
      BY <1>1, SMT
    <2> QED BY <2>1
  <1> HIDE DEF h
  <1>6. IsStream(fs, h)
    BY <1>3, <1>4, StreamFromEntries
  <1> QED BY <1>5, <1>6

(* There is such a function for every sequence of frames ...               *)
LEMMA StreamExists == \A fs \in Seq(InFrame) : \E g : IsStream(fs, g)
  <1> DEFINE T == {fs \in Seq(InFrame) : \E g : IsStream(fs, g)}
  <1>1. <<>> \in T
    <2> DEFINE g == [i \in 1..1 |-> <<>>]
    <2>1. IsStream(<<>>, g)
      BY SMT DEF IsStream
    <2>2. <<>> \in Seq(InFrame)
      BY SMT
    <2> QED BY <2>1, <2>2
  <1>2. ASSUME NEW fs \in Seq(InFrame), fs # <<>>, Tail(fs) \in T PROVE fs \in T
    <2>1. PICK g : IsStream(Tail(fs), g)
      BY <1>2
    <2> QED BY <1>2, <2>1, StreamExtends
  <1> HIDE DEF T
  <1>3. \A fs \in Seq(InFrame) : fs \in T
    BY <1>1, <1>2, SeqTailInduction
  <1> QED BY <1>3 DEF T

(* ... and only one stream.                                                *)
LEMMA StreamUnique ==
    \A fs \in Seq(InFrame) : \A g, h :
        IsStream(fs, g) /\ IsStream(fs, h) => g[1] = h[1] /\ g[1] \in Seq(Unit)
  <1> DEFINE T == {fs \in Seq(InFrame) : \A g, h :
                      IsStream(fs, g) /\ IsStream(fs, h) => g[1] = h[1] /\ g[1] \in Seq(Unit)}
  <1>1. <<>> \in T
    <2>1. ASSUME NEW g, IsStream(<<>>, g) PROVE g[1] = <<>>
      BY <2>1, SMT DEF IsStream
    <2>2. <<>> \in Seq(InFrame) /\ <<>> \in Seq(Unit)
      BY SMT
    <2> QED BY <2>1, <2>2
  <1>2. ASSUME NEW fs \in Seq(InFrame), fs # <<>>, Tail(fs) \in T PROVE fs \in T
    <2>1. ASSUME NEW g, IsStream(fs, g)
          PROVE  \E k : IsStream(Tail(fs), k) /\ g[1] = Units(fs[1]) \o k[1]
      <3> DEFINE k == [i \in 1..Len(fs) |-> g[i + 1]]
      <3>1. /\ Len(fs) \in Nat /\ Len(fs) > 0 /\ Len(Tail(fs)) = Len(fs) - 1
            /\ \A i \in 1..(Len(fs) - 1) : Tail(fs)[i] = fs[i + 1]
        BY <1>2, SMT
      <3>2. \A i \in 1..(Len(fs) + 1) :
               g[i] = IF i > Len(fs) THEN <<>> ELSE Units(fs[i]) \o g[i + 1]
        BY <1>2, <2>1, StreamEntries
      <3>3. \A i \in 1..Len(fs) :
               k[i] = IF i > Len(fs) - 1 THEN <<>> ELSE Units(fs[i + 1]) \o k[i + 1]
        BY <3>1, <3>2, SMT
      <3>4. IsStream(Tail(fs), k)
        <4>1. /\ Tail(fs) \in Seq(InFrame) /\ DOMAIN k = 1..(Len(Tail(fs)) + 1)
              /\ k = [i \in DOMAIN k |-> k[i]]
          BY <1>2, <3>1, SMT
        <4>2. \A i \in 1..(Len(Tail(fs)) + 1) :
                 k[i] = IF i > Len(Tail(fs)) THEN <<>> ELSE Units(Tail(fs)[i]) \o k[i + 1]
          <5> HIDE DEF k
          <5> QED BY <3>1, <3>3, SMT
        <4> HIDE DEF k
        <4> QED BY <4>1, <4>2, StreamFromEntries
      <3>5. g[1] = Units(fs[1]) \o k[1]
        <4>1. 1 \in 1..(Len(fs) + 1) /\ ~(1 > Len(fs)) /\ 1 + 1 = 2 /\ k[1] = g[2]
          BY <3>1, SMT
        <4> QED BY <3>2, <4>1
      <3> QED BY <3>4, <3>5
    <2>2. Units(fs[1]) \in Seq(Unit)
      <3>1. fs[1] \in InFrame
        BY <1>2, SMT
      <3> QED BY <3>1, UnitsSplit
    <2>3. ASSUME NEW g, NEW h, IsStream(fs, g), IsStream(fs, h)
          PROVE  g[1] = h[1] /\ g[1] \in Seq(Unit)
      <3>1. PICK k : IsStream(Tail(fs), k) /\ g[1] = Units(fs[1]) \o k[1]
        BY <2>1, <2>3
      <3>2. PICK l : IsStream(Tail(fs), l) /\ h[1] = Units(fs[1]) \o l[1]
        BY <2>1, <2>3
      <3>3. k[1] = l[1] /\ k[1] \in Seq(Unit)
        <4>1. \A a, b : IsStream(Tail(fs), a) /\ IsStream(Tail(fs), b)
                 => a[1] = b[1] /\ a[1] \in Seq(Unit)
          BY <1>2
        <4>2. IsStream(Tail(fs), k) /\ IsStream(Tail(fs), l)
          BY <3>1, <3>2
        <4> QED BY <4>1, <4>2, SMT
      <3>4. Units(fs[1]) \o k[1] \in Seq(Unit)
        BY <2>2, <3>3, SMT
      <3> QED BY <3>1, <3>2, <3>3, <3>4
    <2> QED BY <2>3
  <1> HIDE DEF T
  <1>3. \A fs \in Seq(InFrame) : fs \in T
    BY <1>1, <1>2, SeqTailInduction
  <1> QED BY <1>3 DEF T

(* Stream is the first entry of that function.                             *)
LEMMA StreamIs ==
    ASSUME NEW fs \in Seq(InFrame), NEW g, IsStream(fs, g)
    PROVE  Stream(fs) = g[1] /\ Stream(fs) \in Seq(Unit)
  <1> DEFINE c == CHOOSE h : IsStream(fs, h)
  <1>1. Stream(fs) = c[1]
    BY DEF Stream, IsStream
  <1>2. IsStream(fs, c)
    OBVIOUS
  <1> HIDE DEF c
  <1> QED BY <1>1, <1>2, StreamUnique

(* No frame, no units.                                                     *)
LEMMA StreamEmpty == Stream(<<>>) = <<>>
  <1>1. <<>> \in Seq(InFrame)
    BY SMT
  <1>2. PICK g : IsStream(<<>>, g)
    BY <1>1, StreamExists
  <1>3. g[1] = <<>>
    BY <1>2, SMT DEF IsStream
  <1> QED BY <1>1, <1>2, <1>3, StreamIs

(* A stream is a sequence of units.                                        *)
LEMMA StreamType == ASSUME NEW fs \in Seq(InFrame) PROVE Stream(fs) \in Seq(Unit)
  BY StreamExists, StreamIs

(* The stream of a sequence is the units of its first frame, then those of *)
(* the others.                                                             *)
LEMMA StreamCons ==
    ASSUME NEW fs \in Seq(InFrame), fs # <<>>
    PROVE  Stream(fs) = Units(fs[1]) \o Stream(Tail(fs))
  <1>1. Tail(fs) \in Seq(InFrame)
    BY SMT
  <1>2. PICK g : IsStream(Tail(fs), g)
    BY <1>1, StreamExists
  <1>3. PICK h : IsStream(fs, h) /\ h[1] = Units(fs[1]) \o g[1]
    BY <1>2, StreamExtends
  <1> QED BY <1>1, <1>2, <1>3, StreamIs

(* Only the stream of no frame is empty.                                   *)
LEMMA StreamNotEmpty ==
    ASSUME NEW fs \in Seq(InFrame), fs # <<>>
    PROVE  Len(Stream(fs)) > 0
  <1>1. fs[1] \in InFrame /\ Tail(fs) \in Seq(InFrame)
    BY SMT
  <1>2. /\ Units(fs[1]) = <<Header(fs[1])>> \o ByteUnits(fs[1].pl)
        /\ Header(fs[1]) \in HeaderUnit /\ ByteUnits(fs[1].pl) \in Seq(Unit)
    BY <1>1, UnitsSplit
  <1>3. Header(fs[1]) \in Unit
    BY <1>2 DEF HeaderUnit, Unit
  <1> DEFINE h == Header(fs[1])
             b == ByteUnits(fs[1].pl)
             r == Stream(Tail(fs))
  <1>4. r \in Seq(Unit)
    BY <1>1, StreamType
  <1>5. Stream(fs) = (<<h>> \o b) \o r
    BY <1>2, StreamCons
  <1> HIDE DEF h, b, r
  <1> QED BY <1>2, <1>3, <1>4, <1>5, SMT DEF h, b

(* The stream of one sequence of frames after another.                     *)
LEMMA StreamConcat ==
    \A fs, gs \in Seq(InFrame) : Stream(fs \o gs) = Stream(fs) \o Stream(gs)
  <1> DEFINE T == {fs \in Seq(InFrame) : \A gs \in Seq(InFrame) :
                      Stream(fs \o gs) = Stream(fs) \o Stream(gs)}
  <1>1. <<>> \in T
    <2>1. <<>> \in Seq(InFrame)
      BY SMT
    <2>2. ASSUME NEW gs \in Seq(InFrame)
          PROVE  Stream(<<>> \o gs) = Stream(<<>>) \o Stream(gs)
      <3>1. Stream(gs) \in Seq(Unit)
        BY StreamType
      <3>2. <<>> \o gs = gs /\ <<>> \o Stream(gs) = Stream(gs)
        BY <3>1, EmptyAddsNothing
      <3> QED BY <3>2, StreamEmpty
    <2> QED BY <2>1, <2>2
  <1>2. ASSUME NEW fs \in Seq(InFrame), fs # <<>>, Tail(fs) \in T PROVE fs \in T
    <2>1. ASSUME NEW gs \in Seq(InFrame)
          PROVE  Stream(fs \o gs) = Stream(fs) \o Stream(gs)
      <3>1. /\ fs \o gs \in Seq(InFrame) /\ fs \o gs # <<>> /\ (fs \o gs)[1] = fs[1]
            /\ Tail(fs) \in Seq(InFrame) /\ fs[1] \in InFrame
        BY <1>2, SMT
      <3>2. Tail(fs \o gs) = Tail(fs) \o gs
        BY <1>2, SMT
      <3>3. Stream(Tail(fs) \o gs) = Stream(Tail(fs)) \o Stream(gs)
        BY <1>2
      <3>4. /\ Units(fs[1]) \in Seq(Unit) /\ Stream(Tail(fs)) \in Seq(Unit)
            /\ Stream(gs) \in Seq(Unit)
        BY <3>1, UnitsSplit, StreamType
      <3>5. Stream(fs \o gs) = Units(fs[1]) \o (Stream(Tail(fs)) \o Stream(gs))
        BY <3>1, <3>2, <3>3, StreamCons
      <3>6. Stream(fs) \o Stream(gs) = (Units(fs[1]) \o Stream(Tail(fs))) \o Stream(gs)
        BY <1>2, StreamCons
      <3> DEFINE u == Units(fs[1])
                 v == Stream(Tail(fs))
                 w == Stream(gs)
      <3>7. (u \o v) \o w = u \o (v \o w)
        <4>1. u \in Seq(Unit) /\ v \in Seq(Unit) /\ w \in Seq(Unit)
          BY <3>4
        <4> HIDE DEF u, v, w
        <4> QED BY <4>1, Regroups, SMT
      <3> QED BY <3>5, <3>6, <3>7
    <2> QED BY <2>1
  <1> HIDE DEF T
  <1>3. \A fs \in Seq(InFrame) : fs \in T
    BY <1>1, <1>2, SeqTailInduction
  <1> QED BY <1>3 DEF T
-----------------------------------------------------------------------------
(* The fields of a frame.                                                  *)
LEMMA FrameFields ==
    ASSUME NEW f \in InFrame
    PROVE  /\ f.pl \in Seq(Byte) /\ Len(f.pl) \in Nat
           /\ f = [op |-> f.op, fin |-> f.fin, rsv |-> f.rsv, mask |-> f.mask, pl |-> f.pl]
  BY SMT DEF InFrame

(* A parser with new contents is a parser.                                 *)
LEMMA ParserFields ==
    ASSUME NEW p \in Parser, NEW st \in {"Header", "Payload"}, NEW remaining \in Nat,
           NEW buffer \in Seq(Byte)
    PROVE  /\ p.header \in HeaderUnit /\ p.remaining \in Nat /\ p.buffer \in Seq(Byte)
           /\ p.state \in {"Header", "Payload"}
           /\ [p EXCEPT !.state = st] \in Parser
           /\ [p EXCEPT !.buffer = buffer] \in Parser
           /\ [p EXCEPT !.buffer = buffer, !.remaining = remaining] \in Parser
  <1> USE DEF Parser
  <1>1. /\ p.header \in HeaderUnit /\ p.remaining \in Nat /\ p.buffer \in Seq(Byte)
        /\ p.state \in {"Header", "Payload"}
    BY SMT
  <1>2. [p EXCEPT !.state = st] \in Parser
    BY SMT
  <1>3. [p EXCEPT !.buffer = buffer] \in Parser
    BY SMT
  <1>4. [p EXCEPT !.buffer = buffer, !.remaining = remaining] \in Parser
    OBVIOUS
  <1> QED BY <1>1, <1>2, <1>3, <1>4

(* The units are what is left of the stream of fs when the parser is p:    *)
(* all of it, or what follows the header and m bytes of its first frame.   *)
Pending(p, fs, units) ==
    \/ p.state = "Header" /\ units = Stream(fs)
    \/ /\ p.state = "Payload" /\ fs # <<>>
       /\ p.remaining > 0 \/ fs[1].pl = <<>>
       /\ p.header = Header(fs[1])
       /\ \E m \in 0..Len(fs[1].pl) :
             /\ p.buffer = SubSeq(fs[1].pl, 1, m)
             /\ p.remaining = Len(fs[1].pl) - m
             /\ units = SubSeq(ByteUnits(fs[1].pl), m + 1, Len(fs[1].pl))
                           \o Stream(Tail(fs))

(* What is left of the payload pl after m bytes, with tail behind it; and  *)
(* the n units of data that come next moved to the bytes read.             *)
PayloadLeft(pl, m, units, tail) ==
    units = SubSeq(ByteUnits(pl), m + 1, Len(pl)) \o tail
PayloadMoved(pl, m, n, data, more, tail) ==
    /\ SubSeq(pl, 1, m) \o [i \in 1..n |-> data[i].byte] = SubSeq(pl, 1, m + n)
    /\ PayloadLeft(pl, m + n, SubSeq(data, n + 1, Len(data)) \o more, tail)

(* The next n units, of a payload of which m bytes have been read.         *)
LEMMA PayloadUnits ==
    ASSUME NEW pl \in Seq(Byte), NEW m \in 0..Len(pl), NEW n \in 0..(Len(pl) - m),
           NEW data \in Seq(Unit), NEW more \in Seq(Unit), NEW tail \in Seq(Unit),
           n <= Len(data), PayloadLeft(pl, m, data \o more, tail)
    PROVE  PayloadMoved(pl, m, n, data, more, tail)
  <1> DEFINE b == ByteUnits(pl)
             d == SubSeq(b, m + 1, Len(pl))
             bytes == [i \in 1..n |-> data[i].byte]
  <1>1. /\ b \in Seq(Unit) /\ Len(b) = Len(pl)
        /\ \A i \in 1..Len(pl) : b[i].byte = pl[i]
    <2>1. \A i \in 1..Len(pl) : [byte |-> pl[i]] \in Unit
      <3>1. \A i \in 1..Len(pl) : [byte |-> pl[i]] \in [byte : Byte]
        BY SMT
      <3> QED BY <3>1 DEF Unit
    <2>2. b \in [1..Len(pl) -> Unit] /\ \A i \in 1..Len(pl) : b[i].byte = pl[i]
      BY <2>1 DEF ByteUnits
    <2>3. Len(pl) \in Nat
      BY SMT
    <2>4. b \in [1..Len(pl) -> Unit]
      BY <2>2
    <2> HIDE DEF b
    <2>5. b \in Seq(Unit) /\ Len(b) = Len(pl)
      BY <2>3, <2>4, FunctionIsSeq
    <2> QED BY <2>2, <2>5
  <1> HIDE DEF b
  <1>2. /\ d \in Seq(Unit) /\ Len(d) = Len(pl) - m
        /\ \A i \in 1..(Len(pl) - m) : d[i] = b[m + i]
        /\ SubSeq(d, n + 1, Len(pl) - m) = SubSeq(b, m + n + 1, Len(pl))
    <2>1. \A i \in 1..(Len(pl) - m) : d[i] = b[m + i]
      BY <1>1, SMT
    <2>2. /\ Len(d) = Len(pl) - m /\ d \in Seq(Unit)
          /\ SubSeq(d, n + 1, Len(pl) - m) = SubSeq(b, m + n + 1, Len(pl))
      <3>1. m \in 0..Len(b) /\ n \in 0..(Len(b) - m)
        BY <1>1, SMT
      <3>2. /\ Len(SubSeq(b, m + 1, Len(b))) = Len(b) - m
            /\ SubSeq(b, m + 1, Len(b)) \in Seq(Unit)
            /\ SubSeq(SubSeq(b, m + 1, Len(b)), n + 1, Len(b) - m)
                 = SubSeq(b, m + n + 1, Len(b))
        BY <1>1, <3>1, DropTwice
      <3> QED BY <1>1, <3>2
    <2> QED BY <2>1, <2>2
  <1>3. data \o more = d \o tail
    BY DEF b, PayloadLeft
  <1> HIDE DEF d
  <1>4. /\ Len(data) + Len(more) = Len(d) + Len(tail)
        /\ \A i \in 1..n : data[i] = d[i]
    <2>1. /\ Len(data \o more) = Len(data) + Len(more)
          /\ Len(d \o tail) = Len(d) + Len(tail)
          /\ \A i \in 1..n : (data \o more)[i] = data[i] /\ (d \o tail)[i] = d[i]
      <3>1. n \in Nat /\ n <= Len(data) /\ n <= Len(d) /\ Len(data) \in Nat /\ Len(d) \in Nat
        BY <1>2, SMT
      <3>2. d \in Seq(Unit)
        BY <1>2
      <3> QED BY <3>1, <3>2, SMT
    <2> QED BY <1>3, <2>1
  <1>5. /\ SubSeq(data, n + 1, Len(data)) \o more
              = SubSeq(data \o more, n + 1, Len(data) + Len(more))
        /\ SubSeq(d, n + 1, Len(d)) \o tail
              = SubSeq(d \o tail, n + 1, Len(d) + Len(tail))
    <2>1. n \in 0..Len(data) /\ n \in 0..Len(d)
      BY <1>2, SMT
    <2> QED BY <1>2, <2>1, DropOfConcat
  <1>6. SubSeq(data, n + 1, Len(data)) \o more = SubSeq(b, m + n + 1, Len(pl)) \o tail
    BY <1>2, <1>3, <1>4, <1>5
  <1>7. \A i \in 1..n : data[i].byte = pl[m + i]
    <2>1. \A i \in 1..n : i \in 1..(Len(pl) - m) /\ m + i \in 1..Len(pl)
      BY SMT
    <2> QED BY <1>1, <1>2, <1>4, <2>1
  <1>8. bytes = SubSeq(pl, m + 1, m + n)
    <2>1. bytes = [i \in 1..n |-> pl[m + i]]
      BY <1>7
    <2>2. [i \in 1..n |-> pl[m + i]] = SubSeq(pl, m + 1, m + n)
      BY SMT
    <2> QED BY <2>1, <2>2
  <1> HIDE DEF bytes
  <1>9. SubSeq(pl, 1, m) \o SubSeq(pl, m + 1, m + n) = SubSeq(pl, 1, m + n)
    <2>1. m \in Nat /\ n \in Nat /\ m + n <= Len(pl)
      BY SMT
    <2> QED BY <2>1, FirstParts
  <1> QED BY <1>6, <1>8, <1>9 DEF b, bytes, PayloadMoved, PayloadLeft

(* What a call of the parser that was given data, with more to come, has   *)
(* done to the stream of fs.                                               *)
Decodes(r, fs, more) ==
    /\ r.result \in {"Complete", "Incomplete", "Error"}
    /\ r.parser \in Parser /\ r.rest \in Seq(Unit)
    /\ r.result = "Complete" =>
          /\ fs # <<>> /\ take_frame(r.parser) = fs[1]
          /\ r.parser.state = "Header" /\ r.rest \o more = Stream(Tail(fs))
    /\ r.result # "Complete" => Pending(r.parser, fs, r.rest \o more)
    /\ r.result = "Incomplete" => r.rest = <<>>

(* parse_payload takes bytes of the first frame, up to its end.            *)
LEMMA PayloadDecodes ==
    ASSUME NEW p \in Parser, p.state = "Payload", NEW fs \in Seq(InFrame),
           NEW data \in Seq(Unit), NEW more \in Seq(Unit), Pending(p, fs, data \o more)
    PROVE  Decodes(parse_payload(p, data), fs, more)
  <1>1. fs # <<>> /\ p.header = Header(fs[1]) /\ (p.remaining > 0 \/ fs[1].pl = <<>>)
    BY DEF Pending
  <1> DEFINE f == fs[1]
             L == Len(f.pl)
  <1>2. f \in InFrame /\ f.pl \in Seq(Byte) /\ L \in Nat /\ Tail(fs) \in Seq(InFrame)
    BY <1>1, SeqParts, FrameFields
  <1>3. PICK m \in 0..L : /\ p.buffer = SubSeq(f.pl, 1, m) /\ p.remaining = L - m
                          /\ data \o more = SubSeq(ByteUnits(f.pl), m + 1, L)
                                              \o Stream(Tail(fs))
    BY DEF Pending
  <1> DEFINE n == IF p.remaining < Len(data) THEN p.remaining ELSE Len(data)
             bytes == [i \in 1..n |-> data[i].byte]
             rest == SubSeq(data, n + 1, Len(data))
             filled == [p EXCEPT !.buffer = @ \o bytes, !.remaining = @ - n]
  <1>4. /\ n \in 0..(L - m) /\ n \in 0..Len(data) /\ Len(data) \in Nat
        /\ n = L - m \/ n = Len(data)
        /\ n = 0 /\ L - m > 0 => data = <<>>
    BY <1>2, <1>3, SMT
  <1>5. parse_payload(p, data) =
           IF data # <<>> /\ filled.remaining = 0
           THEN Parsed("Complete", [filled EXCEPT !.state = "Header"], rest)
           ELSE Parsed("Incomplete", filled, rest)
    BY DEF parse_payload
  <1> HIDE DEF n
  <1>6. /\ p.buffer \o bytes = SubSeq(f.pl, 1, m + n)
        /\ rest \o more = SubSeq(ByteUnits(f.pl), m + n + 1, L) \o Stream(Tail(fs))
    <2>1. n <= Len(data)
      BY <1>4, SMT
    <2>2. Stream(Tail(fs)) \in Seq(Unit)
      BY <1>2, StreamType
    <2> DEFINE tail == Stream(Tail(fs))
    <2> HIDE DEF tail
    <2>3. data \o more = SubSeq(ByteUnits(f.pl), m + 1, Len(f.pl)) \o tail
      BY <1>3 DEF tail
    <2>4. tail \in Seq(Unit)
      BY <2>2 DEF tail
    <2>5. f.pl \in Seq(Byte) /\ n \in 0..(Len(f.pl) - m) /\ m \in 0..Len(f.pl)
      BY <1>2, <1>4
    <2>6. /\ SubSeq(f.pl, 1, m) \o [i \in 1..n |-> data[i].byte] = SubSeq(f.pl, 1, m + n)
          /\ SubSeq(data, n + 1, Len(data)) \o more
                = SubSeq(ByteUnits(f.pl), m + n + 1, Len(f.pl)) \o tail
      <3> DEFINE s == f.pl
      <3> HIDE DEF s
      <3>1. /\ s \in Seq(Byte) /\ n \in 0..(Len(s) - m) /\ m \in 0..Len(s)
            /\ data \o more = SubSeq(ByteUnits(s), m + 1, Len(s)) \o tail
        BY <2>3, <2>5 DEF s
      <3>2. /\ SubSeq(s, 1, m) \o [i \in 1..n |-> data[i].byte] = SubSeq(s, 1, m + n)
            /\ SubSeq(data, n + 1, Len(data)) \o more
                  = SubSeq(ByteUnits(s), m + n + 1, Len(s)) \o tail
        <4>1. PayloadLeft(s, m, data \o more, tail)
          BY <3>1 DEF PayloadLeft
        <4>2. PayloadMoved(s, m, n, data, more, tail)
          BY <2>1, <2>4, <3>1, <4>1, PayloadUnits
        <4> QED BY <4>2 DEF PayloadMoved, PayloadLeft
      <3> QED BY <3>2 DEF s
    <2> QED BY <1>3, <2>6 DEF tail
  <1>7. /\ m + n \in 0..L /\ p.remaining - n = L - (m + n) /\ p.remaining - n \in Nat
        /\ SubSeq(f.pl, 1, m + n) \in Seq(Byte)
    <2>1. m + n \in 0..L /\ L - m - n = L - (m + n) /\ L - m - n \in Nat
      BY <1>2, <1>4, SMT
    <2> DEFINE s == f.pl
    <2>2. s \in Seq(Byte) /\ m + n \in 0..Len(s)
      BY <1>2, <2>1
    <2> HIDE DEF s
    <2>3. SubSeq(s, 1, m + n) \in Seq(Byte)
      BY <2>2, SMT
    <2> QED BY <1>3, <2>1, <2>3 DEF s
  <1>8. /\ filled.state = "Payload" /\ filled.header = Header(f)
        /\ filled.buffer = SubSeq(f.pl, 1, m + n) /\ filled.remaining = L - (m + n)
        /\ filled \in Parser
    <2> DEFINE b == SubSeq(f.pl, 1, m + n)
               k == L - (m + n)
    <2>1. filled = [p EXCEPT !.buffer = b, !.remaining = k]
      BY <1>6, <1>7
    <2>2. b \in Seq(Byte) /\ k \in Nat
      BY <1>7
    <2> HIDE DEF b, k, filled
    <2>3. filled \in Parser
      BY <2>1, <2>2, ParserFields
    <2>4. /\ filled.state = p.state /\ filled.header = p.header
          /\ filled.buffer = b /\ filled.remaining = k
      BY <2>1, SMT DEF Parser
    <2> QED BY <1>1, <2>3, <2>4 DEF b, k
  <1>9. rest \in Seq(Unit) /\ (n = Len(data) => rest = <<>>)
    BY <1>4, SMT
  <1> HIDE DEF bytes, filled, rest
  <1>10. CASE data # <<>> /\ filled.remaining = 0
    <2> DEFINE q == [filled EXCEPT !.state = "Header"]
               r == Parsed("Complete", q, rest)
    <2>1. parse_payload(p, data) = r
      BY <1>5, <1>10
    <2>2. m + n = L
      <3>1. L - (m + n) = 0
        BY <1>8, <1>10
      <3> QED BY <1>2, <1>7, <3>1, SMT
    <2>3. filled.buffer = f.pl /\ rest \o more = Stream(Tail(fs))
      <3> DEFINE s == f.pl
                 b == ByteUnits(s)
                 tail == Stream(Tail(fs))
      <3>1. s \in Seq(Byte) /\ tail \in Seq(Unit)
        BY <1>2, StreamType
      <3>2. rest \o more = SubSeq(b, Len(s) + 1, Len(s)) \o tail
        BY <1>6, <2>2
      <3> HIDE DEF s, b, tail
      <3>3. SubSeq(s, 1, Len(s)) = s /\ SubSeq(b, Len(s) + 1, Len(s)) = <<>>
        BY <3>1, SMT
      <3>4. <<>> \o tail = tail
        BY <3>1, SMT
      <3> QED BY <1>8, <2>2, <3>2, <3>3, <3>4 DEF s, tail
    <2>4. /\ q \in Parser /\ q.state = "Header" /\ q.header = Header(f) /\ q.buffer = f.pl
      <3>1. /\ q.state = "Header" /\ q.header = filled.header /\ q.buffer = filled.buffer
        BY <1>8, SMT DEF Parser
      <3>2. q \in Parser
        <4>1. "Header" \in {"Header", "Payload"} /\ 0 \in Nat /\ <<>> \in Seq(Byte)
          BY SMT
        <4> QED BY <1>8, <4>1, ParserFields
      <3> QED BY <1>8, <2>3, <3>1, <3>2
    <2>5. take_frame(q) = f
      <3>1. f = [op |-> f.op, fin |-> f.fin, rsv |-> f.rsv, mask |-> f.mask, pl |-> f.pl]
        BY <1>2, FrameFields
      <3>2. /\ Header(f).op = f.op /\ Header(f).fin = f.fin /\ Header(f).rsv = f.rsv
            /\ Header(f).mask = f.mask
        BY DEF Header
      <3> HIDE DEF q, f
      <3> QED BY <2>4, <3>1, <3>2 DEF take_frame
    <2>6. r.result = "Complete" /\ r.parser = q /\ r.rest = rest
      BY DEF Parsed
    <2> HIDE DEF r, q
    <2> QED BY <1>1, <1>9, <2>1, <2>3, <2>4, <2>5, <2>6 DEF Decodes
  <1>11. CASE ~(data # <<>> /\ filled.remaining = 0)
    <2> DEFINE r == Parsed("Incomplete", filled, rest)
    <2>1. parse_payload(p, data) = r
      BY <1>5, <1>11
    <2>2. rest = <<>> /\ (filled.remaining > 0 \/ f.pl = <<>>)
      <3> DEFINE k == filled.remaining
                 e == f.pl = <<>>
                 z == data = <<>>
      <3>1. k = L - (m + n) /\ (L - m > 0 \/ e) /\ (z \/ k # 0)
        BY <1>1, <1>3, <1>8, <1>11
      <3>2. z => Len(data) = 0
        BY SMT
      <3>3. (n = Len(data) => rest = <<>>) /\ (n = 0 /\ L - m > 0 => z)
        BY <1>4, <1>9
      <3> HIDE DEF k, e, z, f
      <3>4. n = Len(data) /\ (k > 0 \/ e)
        BY <1>2, <1>4, <3>1, <3>2, <3>3, SMT
      <3> QED BY <3>3, <3>4 DEF k, e
    <2>3. Pending(filled, fs, rest \o more)
      BY <1>1, <1>6, <1>7, <1>8, <2>2 DEF Pending
    <2>4. r.result = "Incomplete" /\ r.parser = filled /\ r.rest = rest
      BY DEF Parsed
    <2> HIDE DEF r
    <2> QED BY <1>8, <1>9, <2>1, <2>2, <2>3, <2>4 DEF Decodes
  <1> QED BY <1>10, <1>11

(* The first unit of a stream is the header of its first frame, and the    *)
(* bytes of that frame come next.                                          *)
LEMMA HeaderFirst ==
    ASSUME NEW fs \in Seq(InFrame), NEW data \in Seq(Unit), NEW more \in Seq(Unit),
           data # <<>>, data \o more = Stream(fs)
    PROVE  /\ fs # <<>> /\ data[1] = Header(fs[1])
           /\ Tail(data) \o more = ByteUnits(fs[1].pl) \o Stream(Tail(fs))
  <1>1. fs # <<>>
    <2>1. data \o more # <<>>
      BY SMT
    <2> QED BY <2>1, StreamEmpty
  <1>2. fs[1] \in InFrame /\ Tail(fs) \in Seq(InFrame)
    BY <1>1, SeqParts
  <1> DEFINE h == Header(fs[1])
             b == ByteUnits(fs[1].pl)
             tail == Stream(Tail(fs))
  <1>3. h \in Unit /\ b \in Seq(Unit) /\ tail \in Seq(Unit)
    BY <1>2, UnitsSplit, StreamType DEF Unit, HeaderUnit
  <1>4. data \o more = (<<h>> \o b) \o tail
    BY <1>1, <1>2, StreamCons, UnitsSplit
  <1> HIDE DEF h, b, tail
  <1>5. /\ (<<h>> \o b) \o tail = <<h>> \o (b \o tail) /\ b \o tail \in Seq(Unit)
    BY <1>3, SMT
  <1> DEFINE c == b \o tail
  <1>6. data \o more = <<h>> \o c /\ c \in Seq(Unit)
    BY <1>4, <1>5
  <1> HIDE DEF c
  <1>7. (data \o more)[1] = data[1] /\ Tail(data \o more) = Tail(data) \o more
    BY FirstOfConcat
  <1>8. (<<h>> \o c)[1] = h /\ Tail(<<h>> \o c) = c
    BY <1>3, <1>6, FirstBefore
  <1> QED BY <1>1, <1>6, <1>7, <1>8 DEF h, b, tail, c

(* The parser with the header of the first frame.                          *)
LEMMA HeaderParsed ==
    ASSUME NEW p \in Parser, NEW fs \in Seq(InFrame), fs # <<>>, NEW units,
           units = ByteUnits(fs[1].pl) \o Stream(Tail(fs))
    PROVE  LET q == parse_header(p, Header(fs[1]))
           IN q \in Parser /\ q.state = "Payload" /\ Pending(q, fs, units)
  <1> DEFINE f == fs[1]
             h == Header(f)
             q == parse_header(p, h)
             n == Len(f.pl)
             b == ByteUnits(f.pl)
  <1>1. f \in InFrame /\ f.pl \in Seq(Byte) /\ n \in Nat
    BY SeqParts, FrameFields
  <1>2. h \in HeaderUnit /\ h.len = n /\ b \in Seq(Unit) /\ Len(b) = n
    BY <1>1, UnitsSplit DEF Header
  <1>3. /\ q \in Parser /\ q.state = "Payload" /\ q.header = h /\ q.remaining = n
        /\ q.buffer = <<>>
    <2> HIDE DEF h, n
    <2>1. <<>> \in Seq(Byte) /\ "Payload" \in {"Header", "Payload"}
      BY SMT
    <2>2. q \in Parser
      BY <1>1, <1>2, <2>1 DEF parse_header, Parser
    <2>3. /\ q.state = "Payload" /\ q.header = h /\ q.remaining = h.len /\ q.buffer = <<>>
      BY SMT DEF parse_header, Parser
    <2> QED BY <1>2, <2>2, <2>3
  <1>4. 0 \in 0..n /\ n = n - 0 /\ (n > 0 \/ f.pl = <<>>)
    <2> DEFINE s == f.pl
    <2>1. s \in Seq(Byte)
      BY <1>1
    <2> HIDE DEF s
    <2>2. 0 \in 0..Len(s) /\ Len(s) = Len(s) - 0 /\ (Len(s) > 0 \/ s = <<>>)
      BY <2>1, SMT
    <2> QED BY <2>2 DEF s
  <1>5. SubSeq(f.pl, 1, 0) = <<>> /\ SubSeq(b, 0 + 1, n) = b
    <2> HIDE DEF b, n
    <2> QED BY <1>1, <1>2, SMT
  <1> HIDE DEF q
  <1>6. Pending(q, fs, units)
    BY <1>3, <1>4, <1>5 DEF Pending
  <1> QED BY <1>3, <1>6 DEF q

(* parse decodes the stream of the frames it is given.                     *)
LEMMA ParseDecodes ==
    ASSUME NEW p \in Parser, NEW fs \in Seq(InFrame), NEW data \in Seq(Unit),
           NEW more \in Seq(Unit), Pending(p, fs, data \o more)
    PROVE  Decodes(parse(p, data), fs, more)
  <1>1. CASE data = <<>> \/ (p.state = "Header" /\ data[1].op = "RESERVED")
    <2> DEFINE result == IF data = <<>> THEN "Incomplete" ELSE "Error"
               r == Parsed(result, p, data)
    <2>1. parse(p, data) = r
      BY <1>1 DEF parse
    <2>2. r.result = result /\ r.parser = p /\ r.rest = data
      BY DEF Parsed
    <2> HIDE DEF r
    <2> QED BY <2>1, <2>2 DEF Decodes
  <1>2. CASE data # <<>> /\ p.state = "Payload"
    <2>1. parse(p, data) = parse_payload(p, data)
      BY <1>2 DEF parse
    <2> QED BY <1>2, <2>1, PayloadDecodes
  <1>3. CASE data # <<>> /\ p.state = "Header" /\ data[1].op # "RESERVED"
    <2> DEFINE q == parse_header(p, data[1])
    <2>1. parse(p, data) = parse_payload(q, Tail(data))
      BY <1>3 DEF parse
    <2>2. data \o more = Stream(fs)
      BY <1>3 DEF Pending
    <2>3. q \in Parser /\ q.state = "Payload" /\ Pending(q, fs, Tail(data) \o more)
      <3>1. /\ fs # <<>> /\ data[1] = Header(fs[1])
            /\ Tail(data) \o more = ByteUnits(fs[1].pl) \o Stream(Tail(fs))
        BY <1>3, <2>2, HeaderFirst
      <3>2. LET r == parse_header(p, Header(fs[1]))
            IN r \in Parser /\ r.state = "Payload" /\ Pending(r, fs, Tail(data) \o more)
        BY <3>1, HeaderParsed
      <3> QED BY <3>1, <3>2
    <2>4. Tail(data) \in Seq(Unit)
      BY <1>3, SeqParts
    <2> HIDE DEF q
    <2> QED BY <2>1, <2>3, <2>4, PayloadDecodes
  <1>4. p.state = "Header" \/ p.state = "Payload"
    BY SMT DEF Parser
  <1> QED BY <1>1, <1>2, <1>3, <1>4

(* More frames after the last.                                             *)
LEMMA MorePending ==
    ASSUME NEW p \in Parser, NEW fs \in Seq(InFrame), NEW gs \in Seq(InFrame),
           NEW units \in Seq(Unit), Pending(p, fs, units)
    PROVE  Pending(p, fs \o gs, units \o Stream(gs))
  <1>1. CASE p.state = "Header" /\ units = Stream(fs)
    BY <1>1, StreamConcat DEF Pending
  <1>2. CASE p.state = "Payload" /\ fs # <<>>
    <2> DEFINE f == fs[1]
               tail == Stream(Tail(fs))
               w == Stream(gs)
    <2>1. PICK m \in 0..Len(f.pl) :
             /\ p.buffer = SubSeq(f.pl, 1, m) /\ p.remaining = Len(f.pl) - m
             /\ units = SubSeq(ByteUnits(f.pl), m + 1, Len(f.pl)) \o tail
      BY <1>2 DEF Pending
    <2> DEFINE d == SubSeq(ByteUnits(f.pl), m + 1, Len(f.pl))
    <2>2. f \in InFrame /\ Tail(fs) \in Seq(InFrame)
      BY <1>2, SeqParts
    <2>3. tail \in Seq(Unit) /\ w \in Seq(Unit)
      BY <2>2, StreamType
    <2>4. d \in Seq(Unit)
      <3> DEFINE b == ByteUnits(f.pl)
                 n == Len(f.pl)
      <3>1. b \in Seq(Unit) /\ Len(b) = n /\ n \in Nat
        BY <2>2, UnitsSplit, FrameFields
      <3> HIDE DEF b, n
      <3>2. SubSeq(b, m + 1, n) \in Seq(Unit)
        <4>1. m \in 0..n
          BY DEF n
        <4> QED BY <3>1, <4>1, SMT
      <3> QED BY <3>2 DEF b, n
    <2>5. (d \o tail) \o w = d \o (tail \o w)
      <3> HIDE DEF d, tail, w
      <3> QED BY <2>3, <2>4, Regroup
    <2>6. /\ fs \o gs # <<>> /\ (fs \o gs)[1] = f /\ Tail(fs \o gs) = Tail(fs) \o gs
      BY <1>2, SMT
    <2>7. Stream(Tail(fs \o gs)) = tail \o w
      BY <2>2, <2>6, StreamConcat
    <2>8. units \o w = d \o Stream(Tail(fs \o gs))
      BY <2>1, <2>5, <2>7
    <2> QED BY <1>2, <2>1, <2>6, <2>8 DEF Pending
  <1> QED BY <1>1, <1>2 DEF Pending

(* When nothing is left of the stream, every frame was taken, but perhaps  *)
(* for one with no payload.                                                *)
LEMMA NothingPending ==
    ASSUME NEW p \in Parser, NEW fs \in Seq(InFrame), Pending(p, fs, <<>>)
    PROVE  fs = <<>> \/ (Len(fs) = 1 /\ fs[1].pl = <<>>)
  <1> SUFFICES ASSUME fs # <<>> PROVE Len(fs) = 1 /\ fs[1].pl = <<>>
    OBVIOUS
  <1>1. CASE p.state = "Header" /\ <<>> = Stream(fs)
    <2>1. Len(Stream(fs)) > 0
      BY StreamNotEmpty
    <2>2. ~(Len(<<>>) > 0)
      BY SMT
    <2> QED BY <1>1, <2>1, <2>2
  <1>2. CASE p.state = "Payload"
    <2> DEFINE f == fs[1]
               b == ByteUnits(f.pl)
               n == Len(f.pl)
               tail == Stream(Tail(fs))
    <2>1. PICK m \in 0..n : p.remaining = n - m /\ <<>> = SubSeq(b, m + 1, n) \o tail
      BY <1>2 DEF Pending
    <2>2. f \in InFrame /\ Tail(fs) \in Seq(InFrame) /\ Len(Tail(fs)) = Len(fs) - 1
          /\ Len(fs) \in Nat
      BY SeqParts
    <2>3. b \in Seq(Unit) /\ Len(b) = n /\ n \in Nat /\ tail \in Seq(Unit)
      BY <2>2, UnitsSplit, FrameFields, StreamType
    <2>4. p.remaining = 0 /\ Len(tail) = 0
      <3> DEFINE k == p.remaining
      <3>1. k = n - m /\ m \in 0..n /\ <<>> = SubSeq(b, m + 1, n) \o tail
        BY <2>1
      <3> HIDE DEF b, n, tail, k
      <3>2. Len(SubSeq(b, m + 1, n)) = n - m /\ SubSeq(b, m + 1, n) \in Seq(Unit)
        BY <2>3, <3>1, SMT
      <3> DEFINE d == SubSeq(b, m + 1, n)
      <3>3. d \in Seq(Unit) /\ <<>> = d \o tail /\ Len(d) = n - m
        BY <3>1, <3>2
      <3> HIDE DEF d
      <3>4. Len(d) = 0 /\ Len(tail) = 0
        BY <2>3, <3>3, BothEmpty
      <3> QED BY <3>1, <3>3, <3>4 DEF k
    <2>5. f.pl = <<>>
      <3>1. ~(p.remaining > 0)
        BY <2>4, SMT
      <3> QED BY <1>2, <3>1 DEF Pending
    <2>6. Tail(fs) = <<>>
      <3>1. Tail(fs) # <<>> => Len(tail) > 0
        BY <2>2, StreamNotEmpty
      <3>2. ~(0 > 0)
        BY SMT
      <3> QED BY <2>4, <3>1, <3>2
    <2>7. Len(fs) = 1
      BY <2>6, SeqParts
    <2> QED BY <2>5, <2>7
  <1> QED BY <1>1, <1>2 DEF Pending

(* The frame a parser holds.                                               *)
LEMMA TakenFrame == ASSUME NEW p \in Parser PROVE take_frame(p) \in InFrame
  BY SMT DEF Parser, HeaderUnit, take_frame, InFrame
=============================================================================
