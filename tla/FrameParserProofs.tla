-------------------------- MODULE FrameParserProofs --------------------------
(***************************************************************************)
(* Theorem about module FrameParser, for any chunks an application passes  *)
(* to parse(): well-formed or not, cut anywhere, with reset() in between.  *)
(***************************************************************************)
EXTENDS FrameParser, TLAPS

(* Every frame that parse() hands back has a payload of as many bytes as   *)
(* its header announced, whatever the chunks in which they came.           *)
ExactLength ==
    \A n \in DOMAIN reported : DOMAIN reported[n].payload = 1..reported[n].len

Header == [op : Nat, fin : BOOLEAN, rsv1 : BOOLEAN, rsv2 : BOOLEAN, rsv3 : BOOLEAN,
           mask : BOOLEAN, payload_len : Nat, masking_key : [1..4 -> Byte]]

(* The buffer and payload_remaining_ always make up the announced length.  *)
Account ==
    /\ state = "PAYLOAD" =>
          /\ payload_remaining <= header.payload_len
          /\ DOMAIN buffer = 1..(header.payload_len - payload_remaining)
    /\ state = "MASKING_KEY" => buffer = <<>>

Inv ==
    /\ data \in Seq(Byte) /\ header \in Header /\ payload_remaining \in Nat
    /\ \E S : reported \in Seq(S)
    /\ Account
    /\ ExactLength

-----------------------------------------------------------------------------
(* The length of a sequence is that of its domain.                         *)
LEMMA LenOfDomain ==
    ASSUME NEW s, NEW n \in Nat, DOMAIN s = 1..n PROVE Len(s) = n
  OBVIOUS

(* A byte is a number.                                                     *)
LEMMA ByteIsNat == ASSUME NEW b \in Byte PROVE b \in Nat
  BY DEF Byte

(* So is every element of a chunk.                                         *)
LEMMA ByteType ==
    ASSUME NEW s \in Seq(Byte), NEW i \in 1..Len(s) PROVE s[i] \in Nat
<1>1. s[i] \in Byte
  OBVIOUS
<1> QED
  BY <1>1, ByteIsNat

(* And four 16-bit numbers put together.                                   *)
LEMMA PackedType ==
    ASSUME NEW a \in Nat, NEW b \in Nat, NEW c \in Nat, NEW d \in Nat
    PROVE  ((a * 65536 + b) * 65536 + c) * 65536 + d \in Nat
<1>1. a * 65536 + b \in Nat
  OBVIOUS
<1>2. (a * 65536 + b) * 65536 + c \in Nat
  BY <1>1
<1> QED
  BY <1>2

(* What is left of a chunk is a sequence of bytes.                         *)
LEMMA DropType ==
    ASSUME NEW s \in Seq(Byte), NEW n \in Nat, n <= Len(s)
    PROVE  Drop(s, n) \in Seq(Byte)
  BY DEF Drop

(* A first part of it too.                                                 *)
LEMMA FirstType ==
    ASSUME NEW s \in Seq(Byte), NEW n \in Nat, n <= Len(s)
    PROVE  /\ First(s, n) \in Seq(Byte) /\ Len(First(s, n)) = n
           /\ \A i \in 1..n : First(s, n)[i] = s[i]
  BY DEF First

(* An extended length is a number.                                         *)
LEMMA LengthType ==
    ASSUME NEW s \in Seq(Byte), Len(s) = 2 \/ Len(s) = 8 PROVE FromBytes(s) \in Nat
<1>1. \A i \in 1..Len(s) : s[i] \in Nat
  BY ByteType
<1>2. ASSUME NEW x \in Nat, NEW y \in Nat
      PROVE  x * 256 + y \in Nat
  OBVIOUS
<1>3. CASE Len(s) = 2
  BY <1>1, <1>3 DEF FromBytes
<1>4. CASE Len(s) = 8
  <2> DEFINE pair(k) == s[k] * 256 + s[k + 1]
  <2>1. ASSUME NEW k \in 1..7 PROVE pair(k) \in Nat
    <3>1. k \in 1..Len(s) /\ k + 1 \in 1..Len(s)
      BY <1>4
    <3>2. s[k] \in Nat /\ s[k + 1] \in Nat
      BY <1>1, <3>1
    <3> QED
      BY <3>2, <1>2
  <2>2. FromBytes(s) =
           ((pair(1) * 65536 + pair(3)) * 65536 + pair(5)) * 65536 + pair(7)
    BY <1>4 DEF FromBytes
  <2>3. pair(1) \in Nat /\ pair(3) \in Nat /\ pair(5) \in Nat /\ pair(7) \in Nat
    BY <2>1
  <2> HIDE DEF pair
  <2> QED
    BY <2>2, <2>3, PackedType
<1> QED
  BY <1>3, <1>4

(* One more frame of the announced length.                                 *)
LEMMA OneMore ==
    ASSUME NEW S, reported \in Seq(S), ExactLength, NEW frame,
           DOMAIN frame.payload = 1..frame.len, reported' = Append(reported, frame)
    PROVE  (\E T : reported' \in Seq(T)) /\ ExactLength'
<1>1. reported' \in Seq(S \cup {frame})
  OBVIOUS
<1>2. \A n \in DOMAIN reported' :
         (n \in DOMAIN reported /\ reported'[n] = reported[n]) \/ reported'[n] = frame
  <2>1. /\ Len(reported) \in Nat /\ DOMAIN reported = 1..Len(reported)
        /\ DOMAIN Append(reported, frame) = 1..(Len(reported) + 1)
        /\ Append(reported, frame)[Len(reported) + 1] = frame
        /\ \A i \in 1..Len(reported) : Append(reported, frame)[i] = reported[i]
    OBVIOUS
  <2> QED
    BY <2>1
<1> QED
  BY <1>1, <1>2 DEF ExactLength

(* The start of a payload: nothing of it has come.                         *)
LEMMA StartPayload ==
    ASSUME ExpectPayload(header'), header' \in Header
    PROVE  Account' /\ payload_remaining' \in Nat
<1>1. /\ payload_remaining' = header'.payload_len /\ buffer' = <<>>
      /\ header'.payload_len \in Nat
  BY DEF ExpectPayload, Header
<1>2. header'.payload_len - payload_remaining' = 0
  BY <1>1
<1>3. DOMAIN buffer' = 1..0
  BY <1>1
<1> QED
  BY <1>1, <1>2, <1>3 DEF Account

(* The state reset() leaves.                                               *)
LEMMA ResetState ==
    ASSUME reset PROVE Account' /\ payload_remaining' \in Nat /\ header' \in Header
<1>1. header' \in Header
  BY DEF reset, Cleared, NoKey, Header, Byte
<1> QED
  BY <1>1 DEF reset, Account

(* A step that keeps the header and hands no frame back.                   *)
LEMMA Unreported ==
    ASSUME Inv, UNCHANGED reported
    PROVE  (\E S : reported' \in Seq(S)) /\ ExactLength'
  BY DEF Inv, ExactLength

(* The bytes of a chunk that go to the payload fill the buffer up to the   *)
(* announced length and not beyond it.                                     *)
LEMMA PayloadStep == ASSUME Inv, parse_payload PROVE Inv'
<1>1. /\ data \in Seq(Byte) /\ Len(data) \in Nat /\ payload_remaining \in Nat
      /\ header \in Header /\ header.payload_len \in Nat /\ state = "PAYLOAD"
      /\ payload_remaining <= header.payload_len
      /\ DOMAIN buffer = 1..(header.payload_len - payload_remaining)
  BY DEF Inv, Account, Header, parse_payload, Parsing
<1>2. Len(buffer) = header.payload_len - payload_remaining
  BY <1>1, LenOfDomain
<1>3. to_read \in Nat /\ to_read <= Len(data) /\ to_read <= payload_remaining
  BY <1>1 DEF to_read
<1>4. DOMAIN Filled = 1..(header.payload_len - (payload_remaining - to_read))
  BY <1>1, <1>2, <1>3 DEF Filled
<1>5. CASE payload_remaining = to_read /\ Complete(Filled)
  <2> DEFINE frame == [op |-> header.op, fin |-> header.fin, rsv1 |-> header.rsv1,
                       mask |-> header.mask, len |-> header.payload_len,
                       payload |-> Filled]
  <2>1. reported' = Append(reported, frame) /\ reset /\ data' = <<>>
    BY <1>5 DEF Complete, Return
  <2>2. DOMAIN frame.payload = 1..frame.len
    BY <1>1, <1>4, <1>5
  <2>3. PICK S : reported \in Seq(S)
    BY DEF Inv
  <2> HIDE DEF frame
  <2>4. (\E T : reported' \in Seq(T)) /\ ExactLength'
    BY <2>1, <2>2, <2>3, OneMore DEF Inv
  <2> QED
    BY <2>1, <2>4, ResetState DEF Inv
<1>6. CASE /\ payload_remaining > to_read /\ buffer' = Filled
           /\ payload_remaining' = payload_remaining - to_read
           /\ data' = Drop(data, to_read)
           /\ UNCHANGED <<state, header, result, reported>>
  <2>1. data' \in Seq(Byte) /\ payload_remaining' \in Nat /\ header' \in Header
    BY <1>1, <1>3, <1>6, DropType
  <2>2. Account'
    BY <1>1, <1>3, <1>4, <1>6 DEF Account
  <2> QED
    BY <1>6, <2>1, <2>2, Unreported DEF Inv
<1> QED
  BY <1>5, <1>6 DEF parse_payload

(* The other parts of a frame.                                             *)
LEMMA HeaderStep == ASSUME Inv, parse_header PROVE Inv'
<1>1. data \in Seq(Byte) /\ Len(data) \in Nat /\ Len(data) >= 2 /\ header \in Header
  BY DEF Inv, parse_header
<1>2. data[1] \in Nat /\ data[2] \in Nat
  BY <1>1, ByteType
<1>3. header' \in Header
  <2>1. header.masking_key \in [1..4 -> Byte]
    BY <1>1 DEF Header
  <2>2. data[1] % 16 \in Nat /\ data[2] % 128 \in Nat
    BY <1>2
  <2>3. header' = HeaderOf(data[1], data[2], header.masking_key)
    BY DEF parse_header
  <2> QED
    BY <2>1, <2>2, <2>3 DEF HeaderOf, Header
<1>4. reported' = reported
  BY DEF parse_header
<1>5. CASE Return("ERROR") /\ UNCHANGED <<state, buffer, payload_remaining>>
  <2>1. state = "HEADER" /\ data' = <<>>
    BY <1>5 DEF parse_header, Parsing, Return
  <2>2. Account'
    BY <1>5, <2>1 DEF Account
  <2> QED
    BY <1>3, <1>4, <1>5, <2>1, <2>2, Unreported DEF Inv
<1>6. CASE data' = Drop(data, 2) /\ ExpectPayload(header')
  <2>1. data' \in Seq(Byte)
    BY <1>1, <1>6, DropType
  <2> QED
    BY <1>3, <1>4, <1>6, <2>1, StartPayload, Unreported DEF Inv
<1>7. CASE data' = Drop(data, 2) /\ state' = "PAYLOAD_LENGTH_EXT" /\ payload_remaining' = 0
  <2>1. data' \in Seq(Byte)
    BY <1>1, <1>7, DropType
  <2>2. Account'
    BY <1>7 DEF Account
  <2> QED
    BY <1>3, <1>4, <1>7, <2>1, <2>2, Unreported DEF Inv
<1> QED
  BY <1>5, <1>6, <1>7 DEF parse_header

(* The extended length: whatever number it says.                           *)
LEMMA LengthStep == ASSUME Inv, parse_payload_length PROVE Inv'
<1>1. /\ data \in Seq(Byte) /\ Len(data) \in Nat /\ header \in Header
      /\ LengthBytes \in {2, 8} /\ LengthBytes <= Len(data)
      /\ state = "PAYLOAD_LENGTH_EXT" /\ reported' = reported
  BY DEF Inv, parse_payload_length, Parsing, LengthBytes
<1>2. CASE /\ header' = [header EXCEPT !.payload_len = TooLong] /\ Return("ERROR")
           /\ UNCHANGED <<state, buffer, payload_remaining>>
  <2>1. header' \in Header /\ data' = <<>>
    BY <1>1, <1>2 DEF Header, TooLong, Return
  <2>2. Account'
    BY <1>1, <1>2 DEF Account
  <2> QED
    BY <1>1, <1>2, <2>1, <2>2, Unreported DEF Inv
<1>3. CASE /\ header' = [header EXCEPT !.payload_len = FromBytes(First(data, LengthBytes))]
           /\ ExpectPayload(header') /\ data' = Drop(data, LengthBytes)
  <2>1. FromBytes(First(data, LengthBytes)) \in Nat
    <3>1. LengthBytes \in Nat
      BY <1>1
    <3>2. First(data, LengthBytes) \in Seq(Byte) /\ Len(First(data, LengthBytes)) = LengthBytes
      BY <1>1, <3>1, FirstType
    <3> QED
      BY <1>1, <3>2, LengthType
  <2>2. header' \in Header
    BY <1>1, <1>3, <2>1 DEF Header
  <2>3. data' \in Seq(Byte)
    BY <1>1, <1>3, DropType
  <2> QED
    BY <1>1, <1>3, <2>2, <2>3, StartPayload, Unreported DEF Inv
<1> QED
  BY <1>2, <1>3 DEF parse_payload_length

(* The masking key.                                                        *)
LEMMA KeyStep == ASSUME Inv, parse_masking_key PROVE Inv'
<1>1. /\ data \in Seq(Byte) /\ Len(data) \in Nat /\ Len(data) >= 4
      /\ header \in Header /\ header.payload_len \in Nat /\ buffer = <<>>
      /\ state' = "PAYLOAD" /\ payload_remaining' = header.payload_len
      /\ data' = Drop(data, 4) /\ UNCHANGED <<buffer, reported>>
      /\ header' = [header EXCEPT !.masking_key = [k \in 1..4 |-> data[k]]]
  BY DEF Inv, Account, Header, parse_masking_key, Parsing
<1>2. \A k \in 1..4 : data[k] \in Byte
  BY <1>1
<1>3. header' \in Header /\ header'.payload_len = header.payload_len
  BY <1>1, <1>2 DEF Header
<1>4. data' \in Seq(Byte)
  BY <1>1, DropType
<1>5. Account'
  <2>1. header'.payload_len - payload_remaining' = 0 /\ DOMAIN buffer' = 1..0
    BY <1>1, <1>3
  <2> QED
    BY <1>1, <1>3, <2>1 DEF Account
<1> QED
  BY <1>1, <1>3, <1>4, <1>5, Unreported DEF Inv

-----------------------------------------------------------------------------
(* For any chunks of bytes, in any order, with reset() anywhere between    *)
(* the calls: parse() hands back no frame that is shorter or longer than   *)
(* the length its header announced.                                        *)
THEOREM PayloadAsAnnounced ==
    ASSUME Chunks \subseteq Seq(Byte) PROVE Spec => []ExactLength
<1>1. Init => Inv
  <2> SUFFICES ASSUME Init PROVE Inv
    OBVIOUS
  <2>1. header \in Header
    BY DEF Init, Cleared, NoKey, Header, Byte
  <2>2. reported \in Seq({}) /\ ExactLength
    BY DEF Init, ExactLength
  <2> QED
    BY <2>1, <2>2 DEF Init, Inv, Account
<1>2. Inv /\ [Next]_vars => Inv'
  <2> SUFFICES ASSUME Inv, [Next]_vars PROVE Inv'
    OBVIOUS
  <2>1. ASSUME NEW chunk \in Chunks, parse(chunk) PROVE Inv'
    <3>1. data' \in Seq(Byte) /\ UNCHANGED <<parser, reported>>
      BY <2>1 DEF parse
    <3> QED
      BY <3>1, Unreported DEF Inv, Account, parser
  <2>2. CASE Reset
    BY <2>2, ResetState, Unreported DEF Reset, Inv
  <2>3. CASE parse_incomplete
    <3>1. data' = <<>> /\ UNCHANGED <<parser, reported>>
      BY <2>3 DEF parse_incomplete, Return
    <3> QED
      BY <3>1, Unreported DEF Inv, Account, parser
  <2>4. CASE UNCHANGED vars
    BY <2>4, Unreported DEF vars, parser, Inv, Account
  <2> QED
    BY <2>1, <2>2, <2>3, <2>4, HeaderStep, LengthStep, KeyStep, PayloadStep
    DEF Next, Parse
<1>3. Inv => ExactLength
  BY DEF Inv
<1> QED
  BY <1>1, <1>2, <1>3, PTL DEF Spec
=============================================================================
