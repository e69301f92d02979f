-------------------------- MODULE FrameParserProofs --------------------------
(***************************************************************************)
(* Up to a text that is refused unread and could mislead the parser, every *)
(* message that was read is dispatched and nothing else is; and in step or *)
(* not, what is dispatched without having been sent was announced within a *)
(* frame that build_frame did not make.  For every base of a byte, largest *)
(* size, set of sizes, and cutting of the stream.                          *)
(*                                                                         *)
(* Every byte below Sent belongs to one frame (Stream), and a size is      *)
(* either the one that a frame begins with, or is read within a frame.     *)
(***************************************************************************)
EXTENDS FrameParser, SequenceTheorems, TLAPS

-----------------------------------------------------------------------------
(* Sizes and frames. *)

LEMMA Times ==
    ASSUME NEW a \in Nat, NEW b \in Nat, NEW c \in Nat, a <= b
    PROVE  a * c <= b * c /\ a * c \in Nat
  <1>1. PICK d \in Nat : b = a + d
    <2>1. b - a \in Nat /\ b = a + (b - a)
      OBVIOUS
    <2> QED BY <2>1
  <1>2. (a + d) * c = a * c + d * c /\ a * c \in Nat /\ d * c \in Nat
    OBVIOUS
  <1> QED BY <1>1, <1>2

\* A number whose first digit is not 0 is too large.
LEMMA NumFacts ==
    ASSUME NEW a \in 0 .. Base - 1, NEW b \in 0 .. Base - 1,
           NEW c \in 0 .. Base - 1, NEW d \in 0 .. Base - 1
    PROVE  /\ Num(<<a, b, c, d>>) \in Nat
           /\ a # 0 => Num(<<a, b, c, d>>) > MaxSize
  <1>1. Base \in Nat /\ Base > 1 /\ a \in Nat /\ b \in Nat /\ c \in Nat /\ d \in Nat
    BY BaseAssumption
  <1>2. PICK x \in Nat : x = a * Base + b
    BY <1>1
  <1>3. PICK y \in Nat : y = x * Base + c
    BY <1>1
  <1>4. PICK z \in Nat : z = y * Base + d
    BY <1>1
  <1>5. Num(<<a, b, c, d>>) = z
    BY <1>2, <1>3, <1>4 DEF Num
  <1>6. ASSUME a # 0 PROVE z > MaxSize
    <2>1. x >= Base
      BY <1>1, <1>2, <1>6, Times
    <2>2. y >= Base * Base
      BY <1>1, <1>3, <2>1, Times
    <2>3. y * Base >= 2 * y
      BY <1>1, Times
    <2>4. MaxSize \in Nat /\ MaxSize >= 1 /\ MaxSize <= y
      BY <1>1, <2>2, SizesAssumption
    <2> QED BY <1>1, <1>4, <2>3, <2>4
  <1> QED BY <1>5, <1>6

LEMMA FrameFacts ==
    ASSUME TypeOK, NEW i \in 1 .. Len(frames)
    PROVE  /\ frames[i].start \in Nat /\ Size(i) \in Nat /\ End(i) \in Nat
           /\ End(i) = frames[i].start + 4 + Size(i)
           /\ frames[i].text # "other" => Size(i) >= 4
           /\ TextOf(i).from = frames[i].start + 4 /\ TextOf(i).size = Size(i)
           /\ Harmful(i) => Size(i) > MaxSize
           /\ frames[i].header \in [1 .. 4 -> 0 .. Base - 1]
  <1>1. frames[i] \in Frame
    BY DEF TypeOK
  <1>2. /\ frames[i].start \in Nat /\ frames[i].header \in Headers
        /\ frames[i].text # "other" => Size(i) >= 4
    BY <1>1 DEF Frame, Size, HeaderLen
  <1>3. Size(i) \in Nat /\ frames[i].header \in [1 .. 4 -> 0 .. Base - 1]
    BY <1>2, SizesAssumption DEF Headers, Size, HeaderLen
  <1> QED BY <1>2, <1>3 DEF End, TextOf, Harmful, HeaderLen

\* A byte belongs to one frame, and to none behind one that has not begun.
LEMMA Owner ==
    ASSUME TypeOK, Stream, NEW p \in 0 .. Sent - 1
    PROVE  \E j \in 1 .. Len(frames) :
              /\ p \in frames[j].start .. End(j) - 1
              /\ \A i \in 1 .. Len(frames) : p < End(i) => j <= i
              /\ \A i \in 1 .. Len(frames) : j < i => End(j) <= frames[i].start
  <1>1. PICK j \in 1 .. Len(frames) : p \in frames[j].start .. End(j) - 1
    BY DEF Stream
  <1>2. ASSUME NEW i \in 1 .. Len(frames), p < End(i) PROVE j <= i
    <2> SUFFICES ASSUME i < j PROVE FALSE
      OBVIOUS
    <2>1. End(i) <= frames[j].start
      BY DEF Stream
    <2> QED BY <1>1, <1>2, <2>1, FrameFacts
  <1> QED BY <1>1, <1>2 DEF Stream

\* What lies in a frame lies behind the start of every frame before it.
LEMMA Behind ==
    ASSUME TypeOK, Stream, NEW k \in 1 .. Len(frames), NEW j \in 1 .. Len(frames), k < j,
           NEW p \in frames[j].start .. End(j) - 1
    PROVE  frames[k].start < p
  <1>1. PICK s \in Nat : s = frames[k].start
    BY FrameFacts
  <1>2. PICK e \in Nat : e = End(k)
    BY FrameFacts
  <1>3. PICK b \in Nat : b = frames[j].start
    BY FrameFacts
  <1>4. s < e
    BY <1>1, <1>2, FrameFacts
  <1>5. e <= b
    BY <1>2, <1>3 DEF Stream
  <1>6. b <= p /\ p \in Int
    BY <1>3, FrameFacts
  <1> QED BY <1>1, <1>4, <1>5, <1>6

LEMMA SentType == ASSUME TypeOK PROVE Sent \in Nat /\ arrived \in Nat /\ taken \in Nat /\ need \in Nat
                                      /\ taken <= arrived /\ arrived <= Sent /\ need <= MaxSize
                                      /\ Len(frames) \in Nat
  <1>1. Sent \in Nat
    <2>1. CASE frames = <<>>
      BY <2>1 DEF Sent
    <2>2. CASE frames # <<>>
      <3>1. Len(frames) \in 1 .. Len(frames)
        BY <2>2 DEF TypeOK
      <3> QED BY <2>2, <3>1, FrameFacts DEF Sent
    <2> QED BY <2>1, <2>2
  <1>2. MaxSize \in Nat
    BY SizesAssumption, BaseAssumption
  <1> QED BY <1>1, <1>2 DEF TypeOK

LEMMA TrustedBelow ==
    ASSUME TypeOK, NEW i \in 1 .. Len(frames) + 1, Trusted(i), NEW j \in 1 .. Len(frames), j <= i
    PROVE  Trusted(j) /\ (j < i => ~Harmful(j))
  BY SentType DEF Trusted

LEMMA DispatchedTypes ==
    ASSUME TypeOK, NEW t \in Dispatched
    PROVE  t.from \in Nat /\ t.size \in 1 .. MaxSize /\ t.size \in Nat /\ t.size > 0
           /\ t.size <= MaxSize /\ t.from + t.size \in Nat
  <1>1. PICK n \in 1 .. Len(dispatched) : t = dispatched[n]
    BY DEF Dispatched
  <1>2. dispatched \in Seq([from : Nat, size : 1 .. MaxSize])
    BY DEF TypeOK
  <1>3. dispatched[n] \in [from : Nat, size : 1 .. MaxSize]
    BY <1>2, ElementOfSeq
  <1>4. t \in [from : Nat, size : 1 .. MaxSize]
    BY <1>1, <1>3
  <1> QED BY <1>4, SizesAssumption, BaseAssumption

-----------------------------------------------------------------------------
(* A size is read. *)

LEMMA ByteOfHeader ==
    ASSUME NEW p, NEW v \in Values(p), NEW i \in 1 .. Len(frames), NEW k \in 1 .. 4,
           p - frames[i].start + 1 = k
    PROVE  v = frames[i].header[k]
  BY DEF Values, HeaderLen

LEMMA Multiples ==
    ASSUME NEW a \in Nat, NEW s \in Nat, a % 4 = 0, s % 4 = 0, a < 4 + s
    PROVE  a <= s
  OBVIOUS

\* What the four bytes say: the size of a frame where it begins, and too much in a
\* text without 0.
LEMMA SizeRead ==
    ASSUME ParserInv, ReadSize
    PROVE  \E size \in Nat :
              /\ need' = IF size > MaxSize THEN 0 ELSE size
              /\ \A i \in 1 .. Len(frames) :
                    /\ taken = frames[i].start => size = Size(i)
                    /\ /\ frames[i].text # "other"
                       /\ taken \in frames[i].start + 4 .. End(i) - 1
                       => size > MaxSize
  <1>1. TypeOK
    BY DEF ParserInv
  <1>2. PICK a \in Values(taken), b \in Values(taken + 1),
             c \in Values(taken + 2), d \in Values(taken + 3) :
                need' = IF TooLarge(Num(<<a, b, c, d>>)) THEN 0 ELSE Num(<<a, b, c, d>>)
    BY DEF ReadSize
  <1>3. /\ a \in 0 .. Base - 1 /\ b \in 0 .. Base - 1 /\ c \in 0 .. Base - 1 /\ d \in 0 .. Base - 1
    BY DEF Values
  <1>4. PICK size : size = Num(<<a, b, c, d>>)
    OBVIOUS
  <1>5. size \in Nat /\ (a # 0 => size > MaxSize)
    BY <1>3, <1>4, NumFacts
  <1>6. need' = IF size > MaxSize THEN 0 ELSE size
    BY <1>2, <1>4 DEF TooLarge
  <1>7. ASSUME NEW i \in 1 .. Len(frames)
        PROVE  /\ taken = frames[i].start => size = Size(i)
               /\ /\ frames[i].text # "other"
                  /\ taken \in frames[i].start + 4 .. End(i) - 1
                  => size > MaxSize
    <2>1. taken \in Nat /\ frames[i].start \in Nat /\ Size(i) \in Nat
          /\ End(i) = frames[i].start + 4 + Size(i)
      BY <1>1, SentType, FrameFacts
    <2>2. ASSUME taken = frames[i].start PROVE size = Size(i)
      <3>1. taken - frames[i].start + 1 = 1
        BY <2>1, <2>2
      <3>2. 1 \in 1 .. 4 /\ 2 \in 1 .. 4 /\ 3 \in 1 .. 4 /\ 4 \in 1 .. 4
        OBVIOUS
      <3>3. a = frames[i].header[1]
        BY <2>1, <3>1, <3>2, ByteOfHeader
      <3>4. b = frames[i].header[2]
        <4>1. PICK p : p = taken + 1
          OBVIOUS
        <4>2. b \in Values(p)
          BY <4>1
        <4>3. p - frames[i].start + 1 = 2
          BY <2>1, <2>2, <4>1
        <4> QED BY <3>2, <4>2, <4>3, ByteOfHeader
      <3>5. c = frames[i].header[3]
        <4>1. PICK p : p = taken + 2
          OBVIOUS
        <4>2. c \in Values(p)
          BY <4>1
        <4>3. p - frames[i].start + 1 = 3
          BY <2>1, <2>2, <4>1
        <4> QED BY <3>2, <4>2, <4>3, ByteOfHeader
      <3>6. d = frames[i].header[4]
        <4>1. PICK p : p = taken + 3
          OBVIOUS
        <4>2. d \in Values(p)
          BY <4>1
        <4>3. p - frames[i].start + 1 = 4
          BY <2>1, <2>2, <4>1
        <4> QED BY <3>2, <4>2, <4>3, ByteOfHeader
      <3> QED BY <1>4, <3>3, <3>4, <3>5, <3>6 DEF Size, Num
    <2>3. ASSUME frames[i].text # "other", taken \in frames[i].start + 4 .. End(i) - 1
          PROVE  size > MaxSize
      <3>1. taken - frames[i].start + 1 \in HeaderLen + 1 .. HeaderLen + Size(i)
        BY <2>1, <2>3 DEF HeaderLen
      <3>2. a # 0
        BY <2>3, <3>1 DEF Values
      <3> QED BY <1>5, <3>2
    <2> QED BY <2>2, <2>3
  <1> QED BY <1>5, <1>6, <1>7

LEMMA AlignedAt ==
    ASSUME ParserInv, NEW i \in 1 .. Len(frames), Trusted(i),
           taken \in frames[i].start .. End(i) - 1
    PROVE  \E at \in Nat :
              /\ taken = frames[i].start + at /\ taken - frames[i].start = at /\ at < 4 + Size(i)
              /\ \/ at = 0 /\ need = 0
                 \/ at = 4 /\ need = Size(i)
                 \/ /\ Size(i) > MaxSize /\ at >= 4
                    /\ ~Harmful(i) => need = 0 /\ at % 4 = 0
  <1>1. /\ taken \in Nat /\ frames[i].start \in Nat /\ Size(i) \in Nat
        /\ End(i) = frames[i].start + 4 + Size(i)
    BY SentType, FrameFacts DEF ParserInv
  <1>2. PICK at : at = taken - frames[i].start
    OBVIOUS
  <1>3. at \in Nat /\ taken = frames[i].start + at /\ at < 4 + Size(i)
    BY <1>1, <1>2
  <1> QED BY <1>2, <1>3 DEF ParserInv, Aligned, HeaderLen

\* The parser goes through a frame that does not mislead it up to its end.
LEMMA WithinFrame ==
    ASSUME ParserInv, need = 0,
           NEW j \in 1 .. Len(frames), taken \in frames[j].start .. End(j) - 1,
           Trusted(j), ~Harmful(j)
    PROVE  /\ taken + 4 <= End(j)
           /\ \/ taken = frames[j].start
              \/ frames[j].text # "other" /\ taken \in frames[j].start + 4 .. End(j) - 1
  <1>1. /\ taken \in Nat /\ frames[j].start \in Nat /\ Size(j) \in Nat
        /\ End(j) = frames[j].start + 4 + Size(j)
    BY SentType, FrameFacts DEF ParserInv
  <1>2. PICK at \in Nat :
            /\ taken = frames[j].start + at /\ at < 4 + Size(j)
            /\ \/ at = 0
               \/ at = 4 /\ Size(j) = 0
               \/ Size(j) > MaxSize /\ at >= 4 /\ at % 4 = 0
    BY AlignedAt
  <1>3. CASE at = 0
    BY <1>1, <1>2, <1>3
  <1>4. CASE Size(j) > MaxSize /\ at >= 4 /\ at % 4 = 0
    <2>1. frames[j].text # "other" /\ Size(j) % 4 = 0
      BY <1>4 DEF Harmful, HeaderLen
    <2>2. at <= Size(j)
      BY <1>1, <1>2, <1>4, <2>1, Multiples
    <2> QED BY <1>1, <1>2, <1>4, <2>1, <2>2
  <1> QED BY <1>1, <1>2, <1>3, <1>4

LEMMA ReadSizeStep ==
    ASSUME ParserInv, ReadSize
    PROVE  ParserInv'
  <1>1. /\ TypeOK /\ Stream /\ need = 0 /\ taken + 4 <= arrived /\ taken' = taken + 4
        /\ UNCHANGED <<frames, arrived, dispatched, open>>
    <2>1. arrived \in Nat /\ taken \in Nat
      BY SentType DEF ParserInv
    <2> QED BY <2>1 DEF ParserInv, ReadSize, HeaderLen
  <1>2. /\ Sent \in Nat /\ arrived \in Nat /\ taken \in Nat /\ arrived <= Sent
        /\ Len(frames) \in Nat
    BY <1>1, SentType
  <1>20. taken' = taken + 4 /\ taken' \in Nat
    BY <1>1, <1>2
  <1>3. PICK size \in Nat :
            /\ need' = IF size > MaxSize THEN 0 ELSE size
            /\ \A i \in 1 .. Len(frames) :
                  /\ taken = frames[i].start => size = Size(i)
                  /\ /\ frames[i].text # "other"
                     /\ taken \in frames[i].start + 4 .. End(i) - 1
                     => size > MaxSize
    BY SizeRead
  <1>4. PICK j \in 1 .. Len(frames) :
            /\ taken \in frames[j].start .. End(j) - 1
            /\ \A i \in 1 .. Len(frames) : taken < End(i) => j <= i
            /\ \A i \in 1 .. Len(frames) : j < i => End(j) <= frames[i].start
    <2>1. taken \in 0 .. Sent - 1
      BY <1>1, <1>2
    <2> QED BY <1>1, <2>1, Owner
  <1>5. /\ Sent' = Sent /\ Dispatched' = Dispatched
        /\ \A i \in 1 .. Len(frames) : /\ Size(i)' = Size(i) /\ End(i)' = End(i)
                                       /\ TextOf(i)' = TextOf(i) /\ IsMessage(i)' = IsMessage(i)
                                       /\ Harmful(i)' = Harmful(i)
        /\ \A i \in 1 .. Len(frames) + 1 : Trusted(i)' <=> Trusted(i)
    BY <1>1, <1>2 DEF Sent, Dispatched, Size, End, TextOf, IsMessage, Harmful, Trusted
  <1>6. ASSUME NEW i \in 1 .. Len(frames) + 1, Trusted(i), j < i
        PROVE  /\ taken + 4 <= End(j)
               /\ taken = frames[j].start \/ need' = 0
    <2>1. Trusted(j) /\ ~Harmful(j)
      BY <1>1, <1>6, TrustedBelow
    <2> QED BY <1>1, <1>3, <1>4, <2>1, WithinFrame
  <1>7. TypeOK'
    <2>1. need' \in 0 .. MaxSize
      BY <1>3, SizesAssumption, BaseAssumption
    <2> QED BY <1>1, <1>2, <1>5, <2>1 DEF TypeOK
  <1>8. Stream'
    BY <1>1, <1>2, <1>5 DEF Stream
  <1>9. /\ (\A t \in Dispatched : t.from + t.size <= taken)'
        /\ (need > 0 => \A t \in Dispatched : t.from + t.size + HeaderLen <= taken)'
    <2>1. ASSUME NEW t \in Dispatched
          PROVE  /\ t.from + t.size <= taken + 4 /\ t.from + t.size + 4 <= taken + 4
      <3>1. t.from + t.size <= taken /\ t.from + t.size \in Int
        BY DispatchedTypes DEF ParserInv
      <3> QED BY <1>2, <3>1
    <2> QED BY <1>1, <1>5, <2>1 DEF HeaderLen
  <1>10. Aligned'
    <2>1. ASSUME NEW i \in 1 .. Len(frames), Trusted(i), taken' \in frames[i].start .. End(i) - 1
          PROVE  LET at == taken' - frames[i].start IN
                 \/ at = 0 /\ need' = 0
                 \/ at = 4 /\ need' = Size(i)
                 \/ /\ Size(i) > MaxSize /\ at >= 4
                    /\ ~Harmful(i) => need' = 0 /\ at % 4 = 0
      <3>1. /\ frames[i].start \in Nat /\ Size(i) \in Nat /\ End(i) = frames[i].start + 4 + Size(i)
            /\ frames[j].start \in Nat /\ Size(j) \in Nat /\ End(j) = frames[j].start + 4 + Size(j)
        BY <1>1, FrameFacts
      <3>2. j <= i
        BY <1>1, <1>2, <1>4, <2>1, <3>1
      <3>3. CASE j < i
        <4>1. taken + 4 <= End(j) /\ End(j) <= frames[i].start
          BY <1>4, <1>6, <2>1, <3>3
        <4>2. taken' = frames[i].start /\ End(j) = taken + 4
          BY <1>1, <1>2, <2>1, <3>1, <4>1
        <4>3. taken = frames[j].start => Size(j) = 0 /\ need' = 0
          BY <1>2, <1>3, <3>1, <4>2
        <4> QED BY <1>6, <2>1, <3>1, <3>3, <4>2, <4>3
      <3>4. CASE j = i
        <4>1. PICK at \in Nat :
                /\ taken = frames[i].start + at /\ taken - frames[i].start = at /\ at < 4 + Size(i)
                /\ \/ at = 0
                   \/ at = 4 /\ Size(i) = 0
                   \/ Size(i) > MaxSize /\ at >= 4 /\ (~Harmful(i) => at % 4 = 0)
          BY <1>1, <1>4, <2>1, <3>4, AlignedAt
        <4>4. taken' - frames[i].start = at + 4
          <5>1. PICK start \in Nat : start = frames[i].start
            BY <3>1
          <5>2. taken = start + at
            BY <4>1, <5>1
          <5>3. taken' - start = at + 4
            BY <1>20, <5>2
          <5> QED BY <5>1, <5>3
        <4>2. CASE at = 0
          <5>0. taken = frames[i].start
            BY <3>1, <4>1, <4>2
          <5>2. size = Size(i)
            BY <1>3, <5>0
          <5>1. need' = IF Size(i) > MaxSize THEN 0 ELSE Size(i)
            BY <1>3, <5>2
          <5> QED BY <3>1, <4>2, <4>4, <5>1
        <4>3. CASE at # 0
          <5>1. Size(i) > MaxSize /\ at >= 4 /\ (~Harmful(i) => at % 4 = 0)
            BY <3>1, <4>1, <4>3
          <5>2. ~Harmful(i) => need' = 0
            <6>1. taken # frames[j].start
              BY <3>1, <3>4, <4>1, <4>3
            <6> QED BY <1>1, <1>3, <1>4, <2>1, <3>4, <6>1, WithinFrame
          <5>3. at % 4 = 0 => (at + 4) % 4 = 0
            OBVIOUS
          <5> QED BY <4>4, <5>1, <5>2, <5>3
        <4> QED BY <4>2, <4>3
      <3> QED BY <3>2, <3>3, <3>4
    <2>2. ASSUME taken' = Sent, Trusted(Len(frames) + 1)
          PROVE  need' = 0
      <3>1. taken + 4 <= End(j) /\ End(j) <= Sent /\ (taken = frames[j].start \/ need' = 0)
        BY <1>1, <1>2, <1>6, <2>2 DEF Stream
      <3>2. Size(j) \in Nat /\ frames[j].start \in Nat /\ End(j) = frames[j].start + 4 + Size(j)
        BY <1>1, FrameFacts
      <3>3. taken = frames[j].start => Size(j) = 0
        BY <1>1, <1>2, <2>2, <3>1, <3>2
      <3> QED BY <1>3, <3>1, <3>3
    <2> QED BY <1>1, <1>5, <2>1, <2>2 DEF Aligned, HeaderLen
  <1>11. Origin'
    <2>1. ASSUME need' > 0
          PROVE  \/ [from |-> taken', size |-> need'] = TextOf(j)
                 \/ frames[j].text = "built" /\ taken' - frames[j].start \in 5 .. 7
                 \/ /\ frames[j].text # "built"
                    /\ taken' - 4 \in frames[j].start + 1 .. End(j) - 1
      <3>1. /\ frames[j].start \in Nat /\ Size(j) \in Nat /\ End(j) \in Nat
        BY <1>1, FrameFacts
      <3>2. PICK at \in Nat : /\ taken = frames[j].start + at /\ taken' - frames[j].start = at + 4
                             /\ taken' - 4 = taken
        <4>1. PICK start \in Nat : start = frames[j].start
          BY <3>1
        <4>2. taken >= start
          BY <1>4, <3>1, <4>1
        <4>3. PICK at \in Nat : taken = start + at
          <5>1. taken - start \in Nat /\ taken = start + (taken - start)
            BY <1>2, <4>2
          <5> QED BY <5>1
        <4>4. taken' - start = at + 4 /\ taken' - 4 = taken
          BY <1>20, <4>3
        <4> QED BY <4>1, <4>3, <4>4
      <3>3. CASE at = 0
        <4>1. taken' = frames[j].start + 4 /\ need' = Size(j)
          BY <1>1, <1>3, <2>1, <3>1, <3>2, <3>3
        <4> QED BY <4>1 DEF TextOf, HeaderLen
      <3>4. CASE at \in 1 .. 3
        <4>3. at + 4 \in 5 .. 7 /\ taken \in frames[j].start + 1 .. End(j) - 1
          BY <1>2, <1>4, <3>1, <3>2, <3>4
        <4>2. frames[j].text = "built" \/ frames[j].text # "built"
          OBVIOUS
        <4> QED BY <3>2, <4>2, <4>3
      <3>5. CASE at >= 4
        <4>1. frames[j].text = "other"
          BY <1>3, <1>4, <2>1, <3>1, <3>2, <3>5
        <4> QED BY <1>1, <1>4, <3>1, <3>2, <3>5, <4>1
      <3> QED BY <3>2, <3>3, <3>4, <3>5
    <2> QED BY <1>1, <1>5, <2>1 DEF Origin, HeaderLen
  <1>12. InStep'
    <2>1. ASSUME NEW i \in 1 .. Len(frames), Trusted(i), IsMessage(i), End(i) <= taken'
          PROVE  End(i) <= taken
      <3> SUFFICES ASSUME taken < End(i) PROVE FALSE
        BY <1>1, <1>2, FrameFacts
      <3>1. /\ frames[i].start \in Nat /\ Size(i) \in Nat /\ End(i) = frames[i].start + 4 + Size(i)
            /\ Size(i) >= 4 /\ Size(i) <= MaxSize
        BY <1>1, <2>1, FrameFacts DEF IsMessage
      <3>2. j <= i
        BY <1>4
      <3>3. CASE j < i
        <4>1. taken + 4 <= End(j) /\ End(j) <= frames[i].start
          BY <1>4, <1>6, <2>1, <3>3
        <4> QED BY <1>1, <1>2, <2>1, <3>1, <4>1, FrameFacts
      <3>4. CASE j = i
        <4>1. ~Harmful(i)
          BY <3>1, SizesAssumption, BaseAssumption DEF Harmful
        <4>2. taken + 4 <= End(i) /\ (taken = frames[i].start \/ taken >= frames[i].start + 4)
          BY <1>1, <1>4, <2>1, <3>4, <4>1, WithinFrame
        <4>3. taken = frames[i].start
          <5>1. PICK at \in Nat :
                  /\ taken = frames[i].start + at /\ at < 4 + Size(i)
                  /\ at = 0 \/ (at = 4 /\ Size(i) = 0) \/ Size(i) > MaxSize
            BY <1>1, <1>4, <2>1, <3>4, AlignedAt
          <5>2. ~(Size(i) > MaxSize) /\ ~(Size(i) = 0)
            BY <3>1, SizesAssumption, BaseAssumption
          <5> QED BY <3>1, <5>1, <5>2
        <4> QED BY <1>1, <1>2, <2>1, <3>1, <4>3
      <3> QED BY <3>2, <3>3, <3>4
    <2>2. ASSUME NEW i \in 1 .. Len(frames), End(i) <= taken PROVE End(i) <= taken'
      BY <1>1, <1>2, <2>2, FrameFacts
    <2> QED BY <1>1, <1>2, <1>5, <2>1, <2>2 DEF ParserInv, InStep
  <1>13. Genuine'
    BY <1>1, <1>5 DEF ParserInv, Genuine
  <1> QED BY <1>7, <1>8, <1>9, <1>10, <1>11, <1>12, <1>13 DEF ParserInv

-----------------------------------------------------------------------------
(* A text is read. *)

\* In step, the text that is awaited is that of the frame at hand.
LEMMA TextAtHand ==
    ASSUME ParserInv, need > 0, NEW j \in 1 .. Len(frames),
           taken \in frames[j].start .. End(j) - 1, Trusted(j), ~Harmful(j)
    PROVE  /\ [from |-> taken, size |-> need] = TextOf(j)
           /\ taken + need = End(j)
  <1>1. /\ taken \in Nat /\ frames[j].start \in Nat /\ Size(j) \in Nat /\ need \in Nat
        /\ End(j) = frames[j].start + 4 + Size(j)
    BY SentType, FrameFacts DEF ParserInv
  <1>2. PICK at \in Nat :
            /\ taken = frames[j].start + at
            /\ at = 4 /\ need = Size(j)
    <2>1. PICK at \in Nat :
              /\ taken = frames[j].start + at
              /\ \/ at = 0 /\ need = 0
                 \/ at = 4 /\ need = Size(j)
                 \/ ~Harmful(j) => need = 0
      BY AlignedAt
    <2> QED BY <1>1, <2>1
  <1> QED BY <1>1, <1>2 DEF TextOf, HeaderLen

LEMMA Beyond ==
    ASSUME NEW p \in Nat, NEW start \in Nat, NEW at \in Nat, p > start + at, at >= 4
    PROVE  p - start >= 4
  OBVIOUS

LEMMA ReadTextStep ==
    ASSUME ParserInv, ReadText
    PROVE  ParserInv'
  <1> DEFINE text == [from |-> taken, size |-> need]
  <1>1. /\ TypeOK /\ Stream /\ need > 0 /\ UNCHANGED <<frames, arrived, open>>
        /\ need' = 0 /\ taken' = taken + need
    BY DEF ParserInv, ReadText
  <1>2. /\ Sent \in Nat /\ arrived \in Nat /\ taken \in Nat /\ arrived <= Sent
        /\ Len(frames) \in Nat /\ need \in Nat /\ need <= MaxSize
        /\ MaxSize \in Nat /\ taken + need <= arrived /\ taken' \in Nat /\ taken' <= arrived
        /\ taken < taken'
    <2>1. arrived - taken >= need
      BY DEF ReadText
    <2>2. MaxSize \in Nat
      BY SizesAssumption, BaseAssumption
    <2> QED BY <1>1, <2>1, <2>2, SentType
  <1>3. PICK v \in Verdicts(text) :
            dispatched' = IF v THEN Append(dispatched, text) ELSE dispatched
    BY DEF ReadText
  <1>4. /\ v \in BOOLEAN
        /\ \A i \in 1 .. Len(frames) :
              /\ text = TextOf(i) => v = (frames[i].text # "other")
              /\ frames[i].text = "built" /\ text.from - frames[i].start \in 5 .. 7 => v = FALSE
    BY DEF Verdicts
  <1>5. /\ Sent' = Sent
        /\ \A i \in 1 .. Len(frames) : /\ Size(i)' = Size(i) /\ End(i)' = End(i)
                                       /\ TextOf(i)' = TextOf(i) /\ IsMessage(i)' = IsMessage(i)
                                       /\ Harmful(i)' = Harmful(i)
        /\ \A i \in 1 .. Len(frames) + 1 : Trusted(i)' <=> Trusted(i)
    BY <1>1, <1>2 DEF Sent, Size, End, TextOf, IsMessage, Harmful, Trusted
  <1>6. PICK j \in 1 .. Len(frames) :
            /\ taken \in frames[j].start .. End(j) - 1
            /\ \A i \in 1 .. Len(frames) : taken < End(i) => j <= i
            /\ \A i \in 1 .. Len(frames) : j < i => End(j) <= frames[i].start
    <2>1. taken \in 0 .. Sent - 1
      BY <1>1, <1>2
    <2> QED BY <1>1, <2>1, Owner
  <1>7. /\ text \in [from : Nat, size : 1 .. MaxSize] /\ text.from = taken /\ text.size = need
    BY <1>1, <1>2
  <1>8. /\ dispatched \in Seq([from : Nat, size : 1 .. MaxSize])
        /\ dispatched' \in Seq([from : Nat, size : 1 .. MaxSize])
        /\ Len(dispatched) \in Nat
        /\ Len(dispatched') = IF v THEN Len(dispatched) + 1 ELSE Len(dispatched)
        /\ \A n \in 1 .. Len(dispatched) : dispatched'[n] = dispatched[n]
        /\ v => dispatched'[Len(dispatched) + 1] = text
    <2>1. dispatched \in Seq([from : Nat, size : 1 .. MaxSize])
      BY <1>1 DEF TypeOK
    <2>2. CASE v = TRUE
      <3> HIDE DEF text
      <3> QED BY <1>3, <1>7, <2>1, <2>2
    <2>3. CASE v = FALSE
      BY <1>3, <2>1, <2>3
    <2> QED BY <1>4, <2>2, <2>3
  <1>9. Dispatched' = IF v THEN Dispatched \cup {text} ELSE Dispatched
    <2> HIDE DEF text
    <2>1. CASE v = TRUE
      <3>1. ASSUME NEW n \in 1 .. Len(dispatched') PROVE dispatched'[n] \in Dispatched \cup {text}
        <4>1. CASE n = Len(dispatched) + 1
          BY <1>8, <2>1, <4>1
        <4>2. CASE n \in 1 .. Len(dispatched)
          BY <1>8, <4>2 DEF Dispatched
        <4> QED BY <1>8, <2>1, <4>1, <4>2
      <3>2. ASSUME NEW n \in 1 .. Len(dispatched)
            PROVE  n \in 1 .. Len(dispatched') /\ dispatched'[n] = dispatched[n]
        BY <1>8, <2>1
      <3>3. Len(dispatched) + 1 \in 1 .. Len(dispatched') /\ dispatched'[Len(dispatched) + 1] = text
        BY <1>8, <2>1
      <3>4. Dispatched' \subseteq Dispatched \cup {text}
        BY <3>1 DEF Dispatched
      <3>5. Dispatched \cup {text} \subseteq Dispatched'
        BY <3>2, <3>3 DEF Dispatched
      <3> QED BY <2>1, <3>4, <3>5
    <2>2. CASE v = FALSE
      BY <1>3, <2>2 DEF Dispatched
    <2> QED BY <1>4, <2>1, <2>2
  <1> HIDE DEF text
  <1>10. ASSUME NEW i \in 1 .. Len(frames) + 1, Trusted(i), j < i
         PROVE  text = TextOf(j) /\ taken' = End(j)
    <2>1. Trusted(j) /\ ~Harmful(j)
      BY <1>1, <1>10, TrustedBelow
    <2> QED BY <1>1, <1>6, <2>1, TextAtHand DEF text
  <1>11. TypeOK'
    <2>1. need' \in 0 .. MaxSize /\ taken' \in 0 .. arrived
      BY <1>1, <1>2
    <2> QED BY <1>1, <1>5, <1>8, <2>1 DEF TypeOK
  <1>12. Stream'
    BY <1>1, <1>2, <1>5 DEF Stream
  <1>13. /\ (\A t \in Dispatched : t.from + t.size <= taken)'
         /\ (need > 0 => \A t \in Dispatched : t.from + t.size + HeaderLen <= taken)'
    <2>1. ASSUME NEW t \in Dispatched PROVE t.from + t.size <= taken'
      <3>1. t.from + t.size <= taken /\ t.from + t.size \in Nat
        BY <1>1, DispatchedTypes DEF ParserInv
      <3> QED BY <1>2, <3>1
    <2>2. text.from + text.size <= taken'
      BY <1>1, <1>2, <1>7
    <2> QED BY <1>1, <1>9, <2>1, <2>2
  <1>14. Aligned'
    <2>1. ASSUME NEW i \in 1 .. Len(frames), Trusted(i), taken' \in frames[i].start .. End(i) - 1
          PROVE  LET at == taken' - frames[i].start IN
                 \/ at = 0
                 \/ Size(i) > MaxSize /\ at >= 4 /\ Harmful(i)
      <3>1. /\ frames[i].start \in Nat /\ Size(i) \in Nat /\ End(i) = frames[i].start + 4 + Size(i)
        BY <1>1, FrameFacts
      <3>2. j <= i
        BY <1>2, <1>6, <2>1, <3>1
      <3>3. CASE j < i
        <4>1. taken' = End(j) /\ End(j) <= frames[i].start
          BY <1>6, <1>10, <2>1, <3>3
        <4>2. taken' = frames[i].start
          BY <1>2, <2>1, <3>1, <4>1
        <4> QED BY <3>1, <4>2
      <3>4. CASE j = i
        <4>1. Harmful(i)
          <5> SUFFICES ASSUME ~Harmful(i) PROVE FALSE
            OBVIOUS
          <5>1. taken' = End(i)
            BY <1>1, <1>6, <2>1, <3>4, TextAtHand
          <5> QED BY <2>1, <3>1, <5>1
        <4>2. PICK at \in Nat :
                  /\ taken = frames[i].start + at
                  /\ \/ at = 0 /\ need = 0
                     \/ at = 4 /\ need = Size(i)
                     \/ Size(i) > MaxSize /\ at >= 4
          BY <1>6, <2>1, <3>4, AlignedAt
        <4>3. Size(i) > MaxSize
          BY <4>1 DEF Harmful
        <4>4. at >= 4
          BY <1>1, <1>2, <3>1, <4>2, <4>3
        <4>5. taken' - frames[i].start >= 4
          <5>1. PICK start \in Nat : start = frames[i].start
            BY <3>1
          <5>2. PICK new \in Nat : new = taken'
            BY <1>2
          <5>3. new > start + at
            BY <1>2, <4>2, <5>1, <5>2
          <5>4. new - start >= 4
            BY <4>2, <4>4, <5>3, Beyond
          <5> QED BY <5>1, <5>2, <5>4
        <4> QED BY <4>1, <4>3, <4>5
      <3> QED BY <3>2, <3>3, <3>4
    <2> QED BY <1>1, <1>5, <2>1 DEF Aligned, HeaderLen
  <1>15. Origin'
    BY <1>1 DEF Origin
  <1>16. InStep'
    <2>1. ASSUME NEW i \in 1 .. Len(frames), Trusted(i)
          PROVE  TextOf(i) \in Dispatched' <=> IsMessage(i) /\ End(i) <= taken'
      <3>1. /\ frames[i].start \in Nat /\ Size(i) \in Nat /\ End(i) \in Nat
            /\ End(i) = frames[i].start + 4 + Size(i)
            /\ TextOf(i).from = frames[i].start + 4 /\ TextOf(i).size = Size(i)
        BY <1>1, FrameFacts
      <3>2. TextOf(i) \in Dispatched <=> IsMessage(i) /\ End(i) <= taken
        BY <2>1 DEF ParserInv, InStep
      <3>3. ASSUME v, TextOf(i) = text PROVE IsMessage(i) /\ End(i) <= taken'
        <4>1. frames[i].text # "other"
          BY <1>4, <3>3
        <4>2. Size(i) = need /\ frames[i].start + 4 = taken
          BY <1>7, <3>1, <3>3
        <4> QED BY <1>1, <1>2, <3>1, <4>1, <4>2 DEF IsMessage
      <3>4. ASSUME IsMessage(i), taken < End(i), End(i) <= taken' PROVE v /\ TextOf(i) = text
        <4>1. j <= i /\ ~Harmful(i)
          BY <1>2, <1>6, <3>1, <3>4 DEF IsMessage, Harmful
        <4>2. CASE j < i
          <5>1. taken' = End(j) /\ End(j) <= frames[i].start
            BY <1>6, <1>10, <2>1, <4>2
          <5> QED BY <1>2, <3>1, <3>4, <5>1
        <4>3. CASE j = i
          <5>1. text = TextOf(i)
            BY <1>1, <1>6, <2>1, <4>1, <4>3, TextAtHand DEF text
          <5> QED BY <1>4, <3>4, <5>1 DEF IsMessage
        <4> QED BY <1>2, <4>1, <4>2, <4>3
      <3>5. End(i) <= taken => End(i) <= taken'
        BY <1>2, <3>1
      <3>6. End(i) <= taken \/ taken < End(i)
        BY <1>2, <3>1
      <3> QED BY <1>9, <3>2, <3>3, <3>4, <3>5, <3>6
    <2>2. \E i \in 1 .. Len(frames) : text = TextOf(i) \/ (Harmful(i) /\ frames[i].start < text.from)
      <3> SUFFICES ASSUME \A i \in 1 .. Len(frames) : ~(Harmful(i) /\ frames[i].start < text.from)
                   PROVE  text = TextOf(j)
        OBVIOUS
      <3>1. ASSUME NEW k \in 1 .. Len(frames), k <= j, Harmful(k) PROVE FALSE
        <4>1. /\ frames[k].start \in Nat /\ Size(k) \in Nat /\ End(k) = frames[k].start + 4 + Size(k)
              /\ frames[j].start \in Nat /\ Size(j) \in Nat /\ End(j) = frames[j].start + 4 + Size(j)
          BY <1>1, FrameFacts
        <4>2. CASE k < j
          <5>1. frames[k].start < taken
            BY <1>1, <1>6, <4>2, Behind
          <5> QED BY <1>7, <3>1, <5>1
        <4>3. CASE k = j
          <5>1. PICK at \in Nat :
                    /\ taken = frames[j].start + at
                    /\ (at = 0 /\ need = 0) \/ at = 4 \/ at >= 4
            <6>1. Trusted(j)
              <7> SUFFICES ASSUME NEW l \in 1 .. j - 1, Harmful(l) PROVE FALSE
                BY DEF Trusted
              <7>1. l \in 1 .. Len(frames) /\ l < j
                BY <1>2
              <7>2. frames[l].start < taken
                BY <1>1, <1>6, <7>1, Behind
              <7> QED BY <1>7, <7>1, <7>2
            <6>2. taken \in frames[j].start .. End(j) - 1
              BY <1>6
            <6>3. \E at \in Nat :
                      /\ taken = frames[j].start + at
                      /\ \/ at = 0 /\ need = 0
                         \/ at = 4 /\ need = Size(j)
                         \/ Size(j) > MaxSize /\ at >= 4
              BY <6>1, <6>2, AlignedAt
            <6> QED BY <6>3
          <5> QED BY <1>1, <1>7, <3>1, <4>1, <4>3, <5>1
        <4> QED BY <1>2, <3>1, <4>2, <4>3
      <3>2. Trusted(j) /\ ~Harmful(j)
        BY <1>2, <3>1 DEF Trusted
      <3> QED BY <1>1, <1>6, <3>2, TextAtHand DEF text
    <2> QED BY <1>1, <1>5, <1>9, <2>1, <2>2 DEF ParserInv, InStep
  <1>17. Genuine'
    <2>1. ASSUME NEW m \in 1 .. Len(dispatched'), NEW n \in 1 .. Len(dispatched'), m < n
          PROVE  dispatched'[m].from + dispatched'[m].size + 4 <= dispatched'[n].from
      <3>1. CASE n \in 1 .. Len(dispatched)
        <4>1. m \in 1 .. Len(dispatched)
          BY <1>8, <2>1, <3>1
        <4> QED BY <1>8, <2>1, <3>1, <4>1 DEF ParserInv, Genuine, HeaderLen
      <3>2. CASE v /\ n = Len(dispatched) + 1
        <4>1. m \in 1 .. Len(dispatched)
          BY <1>8, <2>1, <3>2
        <4>2. dispatched[m] \in Dispatched
          BY <4>1 DEF Dispatched
        <4>3. dispatched[m].from + dispatched[m].size + 4 <= taken
          BY <1>1, <4>2 DEF ParserInv, HeaderLen
        <4> QED BY <1>7, <1>8, <3>2, <4>1, <4>3
      <3> QED BY <1>8, <3>1, <3>2
    <2>2. ASSUME v
          PROVE  \E i \in 1 .. Len(frames) :
                    \/ IsMessage(i) /\ text = TextOf(i)
                    \/ /\ frames[i].text # "built"
                       /\ text.from - 4 \in frames[i].start + 1 .. End(i) - 1
      <3>1. PICK i \in 1 .. Len(frames) :
                \/ text = TextOf(i)
                \/ frames[i].text = "built" /\ taken - frames[i].start \in 5 .. 7
                \/ /\ frames[i].text # "built"
                   /\ taken - 4 \in frames[i].start + 1 .. End(i) - 1
        BY <1>1 DEF ParserInv, Origin, HeaderLen, text
      <3>2. ASSUME text = TextOf(i) PROVE IsMessage(i)
        <4>1. frames[i].text # "other"
          BY <1>4, <2>2, <3>2
        <4>2. Size(i) = need
          BY <1>1, <1>7, <3>2, FrameFacts
        <4> QED BY <1>2, <4>1, <4>2 DEF IsMessage
      <3> QED BY <1>4, <1>7, <2>2, <3>1, <3>2
    <2> QED BY <1>1, <1>5, <1>9, <2>1, <2>2 DEF ParserInv, Genuine, HeaderLen
  <1> QED BY <1>11, <1>12, <1>13, <1>14, <1>15, <1>16, <1>17 DEF ParserInv

-----------------------------------------------------------------------------
(* A frame is sent, or a piece of the stream arrives. *)

LEMMA SendStep ==
    ASSUME ParserInv, Send
    PROVE  ParserInv'
  <1>0. PICK N \in Nat : N = Len(frames)
    BY SentType DEF ParserInv
  <1>1. /\ TypeOK /\ Stream /\ N < MaxFrames /\ MaxFrames \in Nat
        /\ UNCHANGED <<arrived, taken, need, dispatched, open>>
    BY <1>0, BaseAssumption DEF ParserInv, Send
  <1>2. /\ N \in Nat /\ Sent \in Nat /\ arrived \in Nat /\ taken \in Nat
        /\ taken <= arrived /\ arrived <= Sent
    BY <1>1, SentType
  <1>3. PICK f \in Frame : frames' = Append(frames, f) /\ f.start = Sent
    <2>1. PICK h \in Headers, text \in {"built", "message", "other"} :
              LET f == [start |-> Sent, header |-> h, text |-> text] IN
              f \in Frame /\ frames' = Append(frames, f)
      BY DEF Send
    <2> QED BY <2>1
  <1>4. /\ frames' \in Seq(Frame) /\ Len(frames') = N + 1
        /\ \A i \in 1 .. N : frames'[i] = frames[i]
        /\ frames'[N + 1] = f
    <2>1. frames \in Seq(Frame)
      BY <1>0, <1>1 DEF TypeOK
    <2> QED BY <1>0, <1>3, <2>1, AppendProperties
  <1>5. /\ Dispatched' = Dispatched
        /\ \A i \in 1 .. N : /\ i \in 1 .. N + 1
                             /\ Size(i)' = Size(i) /\ End(i)' = End(i)
                             /\ TextOf(i)' = TextOf(i) /\ IsMessage(i)' = IsMessage(i)
                             /\ Harmful(i)' = Harmful(i)
    BY <1>0, <1>1, <1>2, <1>4 DEF Dispatched, Size, End, TextOf, IsMessage, Harmful
  <1>6. \A i \in 1 .. N + 1 : Trusted(i)' <=> Trusted(i)
    <2>1. ASSUME NEW i \in 1 .. N + 1, NEW k \in 1 .. i - 1 PROVE k \in 1 .. N
      BY <1>2
    <2> QED BY <1>0, <1>5, <2>1 DEF Trusted
  <1>7. /\ Size(N + 1)' \in Nat /\ End(N + 1)' = Sent + 4 + Size(N + 1)'
        /\ frames'[N + 1].start = Sent /\ TextOf(N + 1)'.from = Sent + 4
    <2>1. f.header \in Headers
      BY DEF Frame
    <2>2. Num(f.header) \in Nat
      BY <2>1, SizesAssumption DEF Headers
    <2> QED BY <1>3, <1>4, <2>2 DEF Size, End, TextOf, HeaderLen
  <1>8. Sent' = End(N + 1)' /\ Sent' \in Nat /\ Sent' >= Sent + 4
    <2>1. frames' # <<>>
      BY <1>2, <1>4
    <2> QED BY <1>0, <1>2, <1>4, <1>7, <2>1 DEF Sent
  <1>9. TypeOK'
    <2>1. arrived' \in 0 .. Sent' /\ taken' \in 0 .. arrived' /\ Len(frames') <= MaxFrames
      BY <1>1, <1>2, <1>4, <1>8
    <2> QED BY <1>0, <1>1, <1>4, <2>1 DEF TypeOK
  <1>10. Stream'
    <2>1. ASSUME NEW i \in 1 .. N, NEW j \in 1 .. N + 1, i < j PROVE End(i) <= frames'[j].start
      <3>1. CASE j \in 1 .. N
        BY <1>0, <1>1, <1>4, <2>1, <3>1 DEF Stream
      <3>2. CASE j = N + 1
        BY <1>0, <1>1, <1>7, <3>2 DEF Stream
      <3> QED BY <1>2, <3>1, <3>2
    <2>2. ASSUME NEW i \in 1 .. N PROVE End(i) <= Sent'
      <3>1. End(i) <= Sent /\ End(i) \in Nat
        BY <1>0, <1>1, FrameFacts DEF Stream
      <3> QED BY <1>2, <1>8, <3>1
    <2>3. ASSUME NEW p \in 0 .. Sent' - 1
          PROVE  \E i \in 1 .. N + 1 : p \in frames'[i].start .. End(i)' - 1
      <3>1. CASE p < Sent
        <4>1. PICK i \in 1 .. N : p \in frames[i].start .. End(i) - 1
          BY <1>0, <1>1, <1>2, <3>1 DEF Stream
        <4> QED BY <1>4, <1>5, <4>1
      <3>2. CASE p >= Sent
        <4>1. p \in frames'[N + 1].start .. End(N + 1)' - 1 /\ N + 1 \in 1 .. N + 1
          BY <1>2, <1>7, <1>8, <3>2
        <4> QED BY <4>1
      <3> QED BY <1>2, <3>1, <3>2
    <2>4. \A i, j \in 1 .. N + 1 : i < j => End(i)' <= frames'[j].start
      <3>1. ASSUME NEW i \in 1 .. N + 1, NEW j \in 1 .. N + 1, i < j PROVE i \in 1 .. N
        BY <1>2, <3>1
      <3> QED BY <1>5, <2>1, <3>1
    <2>5. \A i \in 1 .. N + 1 : End(i)' <= Sent'
      <3>1. ASSUME NEW i \in 1 .. N + 1 PROVE i \in 1 .. N \/ i = N + 1
        BY <1>2
      <3> QED BY <1>5, <1>8, <2>2, <3>1
    <2> QED BY <1>0, <1>4, <2>3, <2>4, <2>5 DEF Stream
  <1>11. \A i \in 1 .. N + 1 : i \in 1 .. N \/ i = N + 1
    BY <1>2
  <1>12. Aligned'
    <2>1. ASSUME NEW i \in 1 .. N + 1, Trusted(i), taken \in frames'[i].start .. End(i)' - 1
          PROVE  LET at == taken - frames'[i].start IN
                 \/ at = 0 /\ need = 0
                 \/ at = 4 /\ need = Size(i)'
                 \/ /\ Size(i)' > MaxSize /\ at >= 4
                    /\ ~Harmful(i)' => need = 0 /\ at % 4 = 0
      <3>1. CASE i \in 1 .. N
        BY <1>0, <1>4, <1>5, <2>1, <3>1 DEF ParserInv, Aligned, HeaderLen
      <3>2. CASE i = N + 1
        <4>1. taken = Sent
          BY <1>2, <1>7, <2>1, <3>2
        <4>2. need = 0
          BY <1>0, <2>1, <3>2, <4>1 DEF ParserInv, Aligned
        <4> QED BY <1>2, <1>7, <3>2, <4>1, <4>2
      <3> QED BY <1>11, <3>1, <3>2
    <2>2. taken # Sent'
      BY <1>2, <1>8
    <2> QED BY <1>0, <1>1, <1>4, <1>6, <2>1, <2>2 DEF Aligned, HeaderLen
  <1>13. Origin'
    <2>1. ASSUME need > 0
          PROVE  \E i \in 1 .. N :
                    \/ [from |-> taken, size |-> need] = TextOf(i)
                    \/ frames[i].text = "built" /\ taken - frames[i].start \in 5 .. 7
                    \/ /\ frames[i].text # "built"
                       /\ taken - 4 \in frames[i].start + 1 .. End(i) - 1
      BY <1>0, <2>1 DEF ParserInv, Origin, HeaderLen
    <2> QED BY <1>0, <1>1, <1>4, <1>5, <2>1 DEF Origin, HeaderLen
  <1>14. InStep'
    <2>1. ASSUME NEW i \in 1 .. N + 1, Trusted(i)
          PROVE  TextOf(i)' \in Dispatched <=> IsMessage(i)' /\ End(i)' <= taken
      <3>1. CASE i \in 1 .. N
        BY <1>0, <1>5, <2>1, <3>1 DEF ParserInv, InStep
      <3>2. CASE i = N + 1
        <4>1. ~(End(N + 1)' <= taken)
          BY <1>2, <1>7
        <4>2. ASSUME TextOf(N + 1)' \in Dispatched PROVE FALSE
          <5>1. PICK t \in Dispatched : t = TextOf(N + 1)'
            BY <4>2
          <5>2. t.from + t.size <= taken /\ t.from \in Nat /\ t.size \in Nat
            BY <1>0, <1>1, DispatchedTypes DEF ParserInv
          <5>3. t.from = Sent + 4
            BY <1>7, <5>1
          <5> QED BY <1>2, <5>2, <5>3
        <4> QED BY <3>2, <4>1, <4>2
      <3> QED BY <1>11, <3>1, <3>2
    <2>2. ASSUME NEW t \in Dispatched
          PROVE  \E i \in 1 .. N : t = TextOf(i) \/ (Harmful(i) /\ frames[i].start < t.from)
      BY <1>0 DEF ParserInv, InStep
    <2> QED BY <1>0, <1>1, <1>4, <1>5, <1>6, <2>1, <2>2 DEF InStep
  <1>15. Genuine'
    <2>1. ASSUME NEW t \in Dispatched
          PROVE  \E i \in 1 .. N :
                    \/ IsMessage(i) /\ t = TextOf(i)
                    \/ /\ frames[i].text # "built"
                       /\ t.from - HeaderLen \in frames[i].start + 1 .. End(i) - 1
      BY <1>0 DEF ParserInv, Genuine
    <2>2. \A m, n \in 1 .. Len(dispatched) : m < n =>
              dispatched[m].from + dispatched[m].size + HeaderLen <= dispatched[n].from
      BY <1>0 DEF ParserInv, Genuine
    <2> QED BY <1>0, <1>1, <1>4, <1>5, <2>1, <2>2 DEF Genuine
  <1> QED BY <1>0, <1>1, <1>5, <1>9, <1>10, <1>12, <1>13, <1>14, <1>15 DEF ParserInv

\* The steps that neither send nor read.
LEMMA QuietStep ==
    ASSUME ParserInv, UNCHANGED <<frames, taken, need, dispatched>>,
           arrived' \in taken .. Sent, open' \in BOOLEAN
    PROVE  ParserInv'
  <1>1. /\ Sent' = Sent /\ Dispatched' = Dispatched
        /\ \A i : /\ Size(i)' = Size(i) /\ End(i)' = End(i) /\ TextOf(i)' = TextOf(i)
                  /\ IsMessage(i)' = IsMessage(i) /\ Harmful(i)' = Harmful(i)
    BY DEF Sent, Dispatched, Size, End, TextOf, IsMessage, Harmful
  <1>2. \A i : Trusted(i)' <=> Trusted(i)
    BY <1>1 DEF Trusted
  <1>3. Sent \in Nat /\ taken \in Nat /\ TypeOK
    BY SentType DEF ParserInv
  <1>4. arrived' \in 0 .. Sent' /\ taken' \in 0 .. arrived'
    BY <1>1, <1>3
  <1>5. TypeOK'
    BY <1>3, <1>4 DEF TypeOK
  <1>6. Stream'
    BY <1>1 DEF ParserInv, Stream
  <1>7. Aligned'
    BY <1>1, <1>2 DEF ParserInv, Aligned
  <1>8. Origin'
    BY <1>1 DEF ParserInv, Origin
  <1>9. InStep'
    BY <1>1, <1>2 DEF ParserInv, InStep
  <1>10. Genuine'
    BY <1>1 DEF ParserInv, Genuine
  <1> QED BY <1>1, <1>5, <1>6, <1>7, <1>8, <1>9, <1>10 DEF ParserInv

LEMMA ArriveStep ==
    ASSUME ParserInv, Arrive
    PROVE  ParserInv'
  <1>1. arrived' \in arrived + 1 .. Sent /\ UNCHANGED <<frames, taken, need, dispatched, open>>
    BY DEF Arrive
  <1>2. TypeOK
    BY DEF ParserInv
  <1>3. arrived' \in taken .. Sent /\ open' \in BOOLEAN
    BY <1>1, <1>2, SentType DEF TypeOK
  <1> QED BY <1>1, <1>3, QuietStep

LEMMA EndStep ==
    ASSUME ParserInv, UNCHANGED <<frames, arrived, taken, need, dispatched>>, open' \in BOOLEAN
    PROVE  ParserInv'
  <1>1. TypeOK
    BY DEF ParserInv
  <1>2. arrived' \in taken .. Sent
    BY <1>1, SentType
  <1> QED BY <1>2, QuietStep

-----------------------------------------------------------------------------
(* The results. *)

LEMMA Initially ==
    ASSUME Init
    PROVE  ParserInv
  <1>1. /\ frames = <<>> /\ Len(frames) = 0 /\ Len(dispatched) = 0 /\ Sent = 0
        /\ arrived = 0 /\ taken = 0 /\ need = 0 /\ open = TRUE /\ dispatched = <<>>
    BY DEF Init, Sent
  <1>2. Dispatched = {}
    BY <1>1 DEF Dispatched
  <1>3. TypeOK
    BY <1>1, BaseAssumption, SizesAssumption DEF TypeOK
  <1>4. Stream /\ Aligned /\ Origin
    BY <1>1 DEF Stream, Aligned, Origin
  <1>5. InStep /\ Genuine
    BY <1>1, <1>2 DEF InStep, Genuine
  <1> QED BY <1>1, <1>2, <1>3, <1>4, <1>5 DEF ParserInv

LEMMA Inductive ==
    ASSUME ParserInv, [Next]_vars
    PROVE  ParserInv'
  <1>1. CASE FrameTimeout
    BY <1>1, EndStep DEF FrameTimeout
  <1>2. CASE LoopEnds
    BY <1>2, EndStep DEF LoopEnds
  <1>3. CASE UNCHANGED vars
    <2>1. open' \in BOOLEAN
      BY <1>3 DEF ParserInv, TypeOK, vars
    <2> QED BY <1>3, <2>1, EndStep DEF vars
  <1> QED BY <1>1, <1>2, <1>3, SendStep, ArriveStep, ReadSizeStep, ReadTextStep DEF Next

\* parse_message keeps the invariant for every base, largest size, set of sizes and
\* cutting of the stream, and for every content of the texts: what was dispatched lies
\* behind it, and up to a harmful text it stands where the frames tell.
THEOREM ParserInvariance == Spec => []ParserInv
  <1>1. Init => ParserInv
    BY Initially
  <1>2. ParserInv /\ [Next]_vars => ParserInv'
    BY Inductive
  <1> QED BY <1>1, <1>2, PTL DEF Spec

\* A frame that is refused unread leads the parser astray only when its text may hold
\* an acceptable size or has a length that is no multiple of four: the messages up to
\* such a frame are dispatched when they are read, and before it nothing else is.
THEOREM StaysInStep == Spec => []InStep
  <1>1. ParserInv => InStep
    BY DEF ParserInv
  <1> QED BY <1>1, ParserInvariance, PTL

\* Whatever the parser misreads, what it hands to dispatch comes in the order of the
\* stream and no byte of it twice, and was sent as a message, or was announced by a size
\* within a frame that build_frame did not make.
THEOREM DispatchesWhatWasSent == Spec => []Genuine
  <1>1. ParserInv => Genuine
    BY DEF ParserInv
  <1> QED BY <1>1, ParserInvariance, PTL
=============================================================================
