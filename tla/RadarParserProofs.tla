------------------------- MODULE RadarParserProofs -------------------------
(***************************************************************************)
(* Proofs about RadarParser for any bytes, any payload length and any      *)
(* checksum.                                                               *)
(***************************************************************************)
EXTENDS RadarParser, Integers, TLAPS

LEMMA Joined ==
  ASSUME NEW s \in Seq(Bytes), NEW t \in Seq(Bytes)
  PROVE  /\ s \o t \in Seq(Bytes)
         /\ Len(s \o t) = Len(s) + Len(t)
         /\ \A i \in 1 .. Len(s) + Len(t) :
              (s \o t)[i] = IF i <= Len(s) THEN s[i] ELSE t[i - Len(s)]
  OBVIOUS

LEMMA FrameFacts ==
  ASSUME NEW p \in Payloads
  PROVE  /\ p \in Seq(Bytes)
         /\ Len(p) = PayloadLength
         /\ Checksum[p] \in Bytes
         /\ Frame(p) \in Seq(Bytes)
         /\ Len(Frame(p)) = FrameLength
         /\ Frame(p)[1] = Head1
         /\ Frame(p)[2] = Head2
         /\ \A i \in 1 .. PayloadLength : Frame(p)[i + 2] = p[i]
         /\ Frame(p)[FrameLength] = Checksum[p]
<1> USE ParserAssumption
<1>1. p \in Seq(Bytes) /\ Len(p) = PayloadLength
  BY DEF Payloads
<1>2. Checksum[p] \in Bytes
  OBVIOUS
<1> DEFINE head == <<Head1, Head2>>
           check == <<Checksum[p]>>
<1>3. /\ head \in Seq(Bytes) /\ Len(head) = 2
      /\ head[1] = Head1 /\ head[2] = Head2
      /\ check \in Seq(Bytes) /\ Len(check) = 1 /\ check[1] = Checksum[p]
  BY <1>2
<1> HIDE DEF head, check
<1>4. /\ head \o p \in Seq(Bytes)
      /\ Len(head \o p) = 2 + PayloadLength
      /\ \A i \in 1 .. 2 + PayloadLength :
           (head \o p)[i] = IF i <= 2 THEN head[i] ELSE p[i - 2]
  <2>1. /\ head \o p \in Seq(Bytes)
        /\ Len(head \o p) = Len(head) + Len(p)
        /\ \A i \in 1 .. Len(head) + Len(p) :
             (head \o p)[i] = IF i <= Len(head) THEN head[i]
                                               ELSE p[i - Len(head)]
    BY <1>1, <1>3, Joined, Zenon
  <2>2. QED
    BY <1>1, <1>3, <2>1, Zenon
<1>5. /\ (head \o p) \o check \in Seq(Bytes)
      /\ Len((head \o p) \o check) = 3 + PayloadLength
      /\ \A i \in 1 .. 3 + PayloadLength :
           ((head \o p) \o check)[i] =
             IF i <= 2 + PayloadLength THEN (head \o p)[i]
                                       ELSE check[i - (2 + PayloadLength)]
  <2>1. /\ (head \o p) \o check \in Seq(Bytes)
        /\ Len((head \o p) \o check) = Len(head \o p) + Len(check)
        /\ \A i \in 1 .. Len(head \o p) + Len(check) :
             ((head \o p) \o check)[i] =
               IF i <= Len(head \o p) THEN (head \o p)[i]
                                      ELSE check[i - Len(head \o p)]
    BY <1>3, <1>4, Joined, Zenon
  <2>2. 3 + PayloadLength = (2 + PayloadLength) + 1
    OBVIOUS
  <2>3. QED
    BY <1>3, <1>4, <2>1, <2>2, Zenon
<1>6. Frame(p) = (head \o p) \o check
  BY DEF Frame, head, check
<1>7. QED
  BY <1>1, <1>2, <1>3, <1>4, <1>5, <1>6 DEF FrameLength

LEMMA WindowFacts ==
  ASSUME NEW w \in Seq(Bytes), NEW b \in Bytes, Len(w) <= FrameLength,
         NEW v \in {Window(Append(w, b))}
  PROVE  /\ v \in Seq(Bytes)
         /\ Len(v) = IF Len(w) < FrameLength THEN Len(w) + 1 ELSE FrameLength
         /\ v[Len(v)] = b
         /\ \A d \in Nat : d < Len(w) /\ d + 1 < FrameLength =>
              v[Len(v) - (d + 1)] = w[Len(w) - d]
<1> USE ParserAssumption DEF FrameLength
<1> DEFINE a == Append(w, b)
<1>0. v = Window(Append(w, b))
  OBVIOUS
<1>1. /\ a \in Seq(Bytes) /\ Len(a) = Len(w) + 1 /\ a[Len(a)] = b
      /\ \A i \in 1 .. Len(w) : a[i] = w[i]
  OBVIOUS
<1> HIDE DEF a
<1>2. CASE Len(w) < FrameLength
  <2>1. v = a
    BY <1>0, <1>1, <1>2 DEF a, Window
  <2>2. QED
    BY <1>1, <1>2, <2>1
<1>3. CASE Len(w) = FrameLength
  <2>1. v = Tail(a)
    BY <1>0, <1>1, <1>3 DEF a, Window
  <2>2. /\ v \in Seq(Bytes) /\ Len(v) = FrameLength
        /\ \A i \in 1 .. Len(v) : v[i] = a[i + 1]
    BY <1>1, <1>3, <2>1
  <2>3. QED
    BY <1>1, <1>3, <2>2
<1>4. QED
  BY <1>2, <1>3

-----------------------------------------------------------------------------
(* What the automaton knows of the bytes read: in each state they end in   *)
(* the part of a frame that the state and the buffer stand for.            *)

FromEnd(bytes, d) == bytes[Len(bytes) - d]

EndsInPart == /\ Len(wire) >= Len(buf) + 2
              /\ FromEnd(wire, Len(buf) + 1) = Head1
              /\ FromEnd(wire, Len(buf)) = Head2
              /\ \A i \in 1 .. Len(buf) : FromEnd(wire, Len(buf) - i) = buf[i]

EndsInFrame == /\ detection \in Payloads
               /\ Len(wire) = FrameLength
               /\ wire[1] = Head1
               /\ wire[2] = Head2
               /\ \A i \in 1 .. PayloadLength : wire[i + 2] = detection[i]
               /\ wire[FrameLength] = Checksum[detection]

WireInv == /\ TypeOK
           /\ Len(wire) <= FrameLength
           /\ state = "HEAD1" => Len(wire) >= 1 /\ FromEnd(wire, 0) = Head1
           /\ state \in {"DATA", "CHECK"} => EndsInPart
           /\ caller = "back" => state = "IDLE" /\ EndsInFrame

LEMMA WireInvInit == Init => WireInv
<1> SUFFICES ASSUME Init PROVE WireInv
  OBVIOUS
<1> USE ParserAssumption DEF Init, FrameLength
<1>1. /\ line \in Seq(Bytes) /\ buf \in Seq(Bytes) /\ wire \in Seq(Bytes)
      /\ Len(buf) = 0 /\ Len(wire) = 0
  OBVIOUS
<1>2. TypeOK
  <2>1. PayloadLength >= 0 /\ 0 \in Nat
    OBVIOUS
  <2>2. QED
    BY <1>1, <2>1, Zenon DEF TypeOK, States
<1>3. QED
  BY <1>1, <1>2 DEF WireInv

(* What every reading step does to the line and the history.               *)
LEMMA ReadFacts ==
  ASSUME WireInv, Read
  PROVE  /\ Head(line) \in Bytes
         /\ line' \in Seq(Bytes)
         /\ wire' \in Seq(Bytes)
         /\ Len(wire') = IF Len(wire) < FrameLength THEN Len(wire) + 1
                                                    ELSE FrameLength
         /\ FromEnd(wire', 0) = Head(line)
         /\ \A d \in Nat : d < Len(wire) /\ d + 1 < FrameLength =>
              FromEnd(wire', d + 1) = FromEnd(wire, d)
         /\ noisy' \in BOOLEAN
         /\ intact' \in BOOLEAN
<1>1. Head(line) \in Bytes /\ line' \in Seq(Bytes)
  BY DEF WireInv, TypeOK, Read
<1>2. wire' = Window(Append(wire, Head(line)))
  BY DEF Read
<1>3. wire \in Seq(Bytes) /\ Len(wire) <= FrameLength
  BY DEF WireInv, TypeOK
<1>4. /\ wire' \in Seq(Bytes)
      /\ Len(wire') = IF Len(wire) < FrameLength THEN Len(wire) + 1
                                                 ELSE FrameLength
      /\ wire'[Len(wire')] = Head(line)
      /\ \A d \in Nat : d < Len(wire) /\ d + 1 < FrameLength =>
           wire'[Len(wire') - (d + 1)] = wire[Len(wire) - d]
  <2>1. wire' \in {Window(Append(wire, Head(line)))}
    BY <1>2
  <2>2. QED
    BY <1>1, <1>3, <2>1, WindowFacts, Zenon
<1>5. QED
  BY <1>1, <1>4 DEF FromEnd, Read, WireInv, TypeOK

LEMMA WireInvIdle == WireInv /\ Idle => WireInv'
<1> SUFFICES ASSUME WireInv, Idle PROVE WireInv'
  OBVIOUS
<1> USE ParserAssumption DEF FrameLength
<1>1. Read
  BY DEF Idle
<1>2. TypeOK'
  <2>1. /\ state' \in States
        /\ state' # "CHECK"
        /\ buf' \in Seq(Bytes) /\ Len(buf') <= PayloadLength
        /\ state' = "DATA" => Len(buf') < PayloadLength
    BY DEF Idle, WireInv, TypeOK, States
  <2>2. missed' \in Nat /\ caller' = caller /\ detection' = detection
    BY DEF Idle, GoesOn, WireInv, TypeOK
  <2>3. QED
    BY <1>1, <2>1, <2>2, ReadFacts DEF WireInv, TypeOK
<1>3. QED
  BY <1>1, <1>2, ReadFacts DEF Idle, GoesOn, WireInv, Read

LEMMA WireInvHeader == WireInv /\ Header => WireInv'
<1> SUFFICES ASSUME WireInv, Header PROVE WireInv'
  OBVIOUS
<1> USE ParserAssumption DEF FrameLength
<1>1. Read
  BY DEF Header
<1>2. TypeOK'
  <2>1. /\ state' \in States
        /\ state' # "CHECK"
        /\ buf' \in Seq(Bytes) /\ Len(buf') <= PayloadLength
        /\ state' = "DATA" => Len(buf') < PayloadLength
    <3>1. CASE Head(line) = Head2
      <4>1. state' = "DATA" /\ buf' = << >>
        BY <3>1 DEF Header
      <4>2. buf' \in Seq(Bytes) /\ Len(buf') = 0
        BY <4>1
      <4>3. QED
        BY <4>1, <4>2 DEF States
    <3>2. CASE Head(line) # Head2
      BY <3>2 DEF Header, WireInv, TypeOK, States
    <3>3. QED
      BY <3>1, <3>2
  <2>2. missed' \in Nat /\ caller' = caller /\ detection' = detection
    BY DEF Header, GoesOn, WireInv, TypeOK
  <2>3. QED
    BY <1>1, <2>1, <2>2, ReadFacts DEF WireInv, TypeOK
<1>3. Len(wire') >= 2 /\ FromEnd(wire', 1) = Head1 /\ FromEnd(wire', 0) = Head(line)
  BY <1>1, ReadFacts DEF Header, WireInv
<1>4. CASE Head(line) = Head2
  <2>1. EndsInPart'
    BY <1>3, <1>4 DEF EndsInPart, Header
  <2>2. QED
    BY <1>1, <1>2, <1>4, <2>1, ReadFacts DEF Header, GoesOn, WireInv, Read
<1>5. CASE Head(line) # Head2
  BY <1>1, <1>2, <1>5, ReadFacts DEF Header, GoesOn, WireInv, Read
<1>6. QED
  BY <1>4, <1>5

LEMMA WireInvData == WireInv /\ Data => WireInv'
<1> SUFFICES ASSUME WireInv, Data PROVE WireInv'
  OBVIOUS
<1> USE ParserAssumption DEF FrameLength
<1>1. Read
  BY DEF Data
<1>2. /\ buf \in Seq(Bytes) /\ Len(buf) < PayloadLength
      /\ Head(line) \in Bytes
      /\ buf' = Append(buf, Head(line))
  BY <1>1, ReadFacts DEF Data, WireInv, TypeOK
<1>3. /\ buf' \in Seq(Bytes) /\ Len(buf') = Len(buf) + 1
      /\ buf'[Len(buf')] = Head(line)
      /\ \A i \in 1 .. Len(buf) : buf'[i] = buf[i]
  BY <1>2
<1>4. TypeOK'
  BY <1>1, <1>2, <1>3, ReadFacts
  DEF Data, GoesOn, LastOfFrame, WireInv, TypeOK, States, Read
<1>5. EndsInPart
  BY DEF Data, WireInv
<1>6. EndsInPart'
  <2>1. Len(buf) \in Nat /\ Len(wire) \in Nat
    BY DEF WireInv, TypeOK
  <2>2. /\ Len(wire') >= Len(buf') + 2
        /\ FromEnd(wire', 0) = Head(line)
        /\ \A d \in 0 .. Len(buf) + 1 : FromEnd(wire', d + 1) = FromEnd(wire, d)
    BY <1>1, <1>2, <1>3, <1>5, <2>1, ReadFacts DEF EndsInPart
  <2>3. FromEnd(wire', Len(buf) + 2) = Head1 /\ FromEnd(wire', Len(buf) + 1) = Head2
    BY <1>5, <2>1, <2>2 DEF EndsInPart
  <2>4. ASSUME NEW i \in 1 .. Len(buf)
        PROVE  FromEnd(wire', Len(buf) + 1 - i) = buf[i]
    BY <1>5, <2>1, <2>2 DEF EndsInPart
  <2>5. FromEnd(wire', Len(buf')) = FromEnd(wire', Len(buf) + 1) /\ FromEnd(wire', Len(buf') + 1) = FromEnd(wire', Len(buf) + 2)
    BY <1>3, <2>1
  <2>6. ASSUME NEW i \in 1 .. Len(buf')
        PROVE  FromEnd(wire', Len(buf') - i) = buf'[i]
    <3>1. CASE i = Len(buf')
      BY <1>3, <2>1, <2>2, <3>1
    <3>2. CASE i \in 1 .. Len(buf)
      BY <1>3, <2>1, <2>4, <3>2
    <3>3. QED
      BY <1>3, <2>1, <3>1, <3>2
  <2>7. QED
    BY <2>2, <2>3, <2>5, <2>6 DEF EndsInPart
<1>7. QED
  BY <1>1, <1>4, <1>6, ReadFacts DEF Data, GoesOn, WireInv, Read

LEMMA WireInvReject == WireInv /\ Reject => WireInv'
<1> SUFFICES ASSUME WireInv, Reject PROVE WireInv'
  OBVIOUS
<1>1. Read
  BY DEF Reject
<1>2. missed' \in Nat /\ caller' = caller /\ detection' = detection
  BY DEF Reject, GoesOn, WireInv, TypeOK
<1>3. state' = "IDLE" /\ buf' = buf /\ caller = "reading"
  BY DEF Reject, Read
<1>4. TypeOK'
  BY <1>1, <1>2, <1>3, ReadFacts DEF WireInv, TypeOK, States
<1>5. Len(wire') <= FrameLength
  BY <1>1, ReadFacts, ParserAssumption DEF WireInv, TypeOK, FrameLength
<1>6. QED
  BY <1>2, <1>3, <1>4, <1>5 DEF WireInv

LEMMA WireInvAccept == WireInv /\ Accept => WireInv'
<1> SUFFICES ASSUME WireInv, Accept PROVE WireInv'
  OBVIOUS
<1> USE ParserAssumption DEF FrameLength
<1>1. Read
  BY DEF Accept
<1>2. /\ state' = "IDLE" /\ buf' = buf /\ caller' = "back"
      /\ detection' = buf
      /\ Head(line) = Checksum[buf]
  BY DEF Accept
<1>3. buf \in Seq(Bytes) /\ Len(buf) = PayloadLength /\ EndsInPart
  BY DEF Accept, WireInv, TypeOK
<1>4. buf \in Payloads
  BY <1>3 DEF Payloads
<1>5. missed' \in Nat
  BY DEF Accept, WireInv, TypeOK
<1>6. TypeOK'
  BY <1>1, <1>2, <1>3, <1>4, <1>5, ReadFacts DEF WireInv, TypeOK, States
<1>7. wire \in Seq(Bytes) /\ Len(wire) \in Nat /\ Len(wire) >= PayloadLength + 2
  BY <1>3 DEF EndsInPart, WireInv, TypeOK
<1>8. Len(wire') = FrameLength
  BY <1>1, <1>7, ReadFacts DEF WireInv
<1>9. wire'[FrameLength] = Checksum[buf]
  BY <1>1, <1>2, <1>8, ReadFacts DEF FromEnd
<1>10. ASSUME NEW d \in 0 .. PayloadLength + 1
       PROVE  wire'[FrameLength - (d + 1)] = FromEnd(wire, d)
  <2>1. d \in Nat /\ d < Len(wire) /\ d + 1 < FrameLength
    BY <1>7
  <2>2. FromEnd(wire', d + 1) = FromEnd(wire, d)
    BY <1>1, <2>1, ReadFacts
  <2>3. QED
    BY <1>8, <2>2, Zenon DEF FromEnd
<1>11. wire'[1] = Head1 /\ wire'[2] = Head2
  <2>1. wire'[FrameLength - ((PayloadLength + 1) + 1)] = Head1
    BY <1>3, <1>10 DEF EndsInPart
  <2>2. wire'[FrameLength - (PayloadLength + 1)] = Head2
    BY <1>3, <1>10 DEF EndsInPart
  <2>3. /\ FrameLength - ((PayloadLength + 1) + 1) = 1
        /\ FrameLength - (PayloadLength + 1) = 2
    OBVIOUS
  <2>4. QED
    BY <2>1, <2>2, <2>3, Zenon
<1>12. ASSUME NEW i \in 1 .. PayloadLength
       PROVE  wire'[i + 2] = buf[i]
  <2>1. /\ PayloadLength - i \in 0 .. PayloadLength + 1
        /\ FrameLength - ((PayloadLength - i) + 1) = i + 2
    OBVIOUS
  <2>2. wire'[FrameLength - ((PayloadLength - i) + 1)]
          = FromEnd(wire, PayloadLength - i)
    BY <1>10, <2>1
  <2>3. FromEnd(wire, PayloadLength - i) = buf[i]
    BY <1>3 DEF EndsInPart
  <2>4. QED
    BY <2>1, <2>2, <2>3, Zenon
<1>13. EndsInFrame'
  BY <1>2, <1>4, <1>8, <1>9, <1>11, <1>12, Zenon DEF EndsInFrame
<1>14. QED
  BY <1>2, <1>6, <1>8, <1>13 DEF WireInv

(* A step of the line or of the thread outside the automaton.              *)
LEMMA WireInvAway ==
  ASSUME WireInv, \/ \E p \in Payloads : SendFrame(p)
                  \/ \E b \in Bytes : Noise(b)
                  \/ Lose \/ Quiet \/ Call \/ NothingYet
  PROVE  WireInv'
<1>1. line' \in Seq(Bytes)
  <2>1. CASE \E p \in Payloads : SendFrame(p)
    <3>1. PICK p \in Payloads : line' = Frame(p)
      BY <2>1 DEF SendFrame
    <3>2. Frame(p) \in Seq(Bytes)
      BY FrameFacts, Zenon
    <3>3. QED
      BY <3>1, <3>2, Zenon
  <2>2. CASE \E b \in Bytes : Noise(b)
    <3>1. PICK b \in Bytes : line' = <<b>>
      BY <2>2 DEF Noise
    <3>2. QED
      BY <3>1
  <2>3. CASE Lose \/ Quiet \/ Call \/ NothingYet
    <3>1. line' = << >> \/ line' = line
      BY <2>3 DEF Lose, Quiet, Call, NothingYet
    <3>2. << >> \in Seq(Bytes) /\ line \in Seq(Bytes)
      BY DEF WireInv, TypeOK
    <3>3. QED
      BY <3>1, <3>2, Zenon
  <2>4. QED
    BY <2>1, <2>2, <2>3
<1>2. /\ missed' \in Nat
      /\ caller' \in {"away", "reading", "back"}
      /\ caller' = "back" => caller = "back"
  BY DEF SendFrame, Noise, Lose, Quiet, Call, NothingYet, WireInv, TypeOK
<1>5. intact' \in BOOLEAN /\ noisy' \in BOOLEAN
  <2>1. \A p : Clean(p) \in BOOLEAN
    BY DEF Clean
  <2>2. QED
    BY <2>1, Zenon
    DEF SendFrame, Noise, Lose, Quiet, Call, NothingYet, WireInv, TypeOK
<1>3. UNCHANGED <<state, buf, detection, wire>>
  BY DEF SendFrame, Noise, Lose, Quiet, Call, NothingYet
<1>4. QED
  BY <1>1, <1>2, <1>3, <1>5 DEF WireInv, TypeOK, EndsInPart, EndsInFrame

LEMMA WireInvHandOver == WireInv /\ HandOver => WireInv'
<1> SUFFICES ASSUME WireInv, HandOver PROVE WireInv'
  OBVIOUS
<1>1. wire' \in Seq(Bytes) /\ Len(wire') = 0
  BY DEF HandOver
<1>2. state = "IDLE"
  BY DEF HandOver, WireInv
<1>3. QED
  BY <1>1, <1>2, ParserAssumption DEF HandOver, WireInv, TypeOK, FrameLength

LEMMA WireInvNext == WireInv /\ [Next]_vars => WireInv'
<1> SUFFICES ASSUME WireInv, [Next]_vars PROVE WireInv'
  OBVIOUS
<1>1. CASE Byte
  BY <1>1, WireInvIdle, WireInvHeader, WireInvData, WireInvReject, WireInvAccept
  DEF Byte
<1>2. CASE HandOver
  BY <1>2, WireInvHandOver
<1>3. CASE UNCHANGED vars
  BY <1>3 DEF vars, WireInv, TypeOK, EndsInPart, EndsInFrame
<1>4. QED
  BY <1>1, <1>2, <1>3, WireInvAway DEF Next

(* What has come over the line since the last detection explains the state *)
(* and the buffer of the automaton (radar_processor.c:184-225).            *)
THEOREM WireCorrect == Spec => []WireInv
  BY WireInvInit, WireInvNext, PTL DEF Spec

(* The buffer of the automaton never overflows, whatever comes over the    *)
(* line and wherever its calls are cut (radar_processor.c:197-202).        *)
THEOREM ParserTypeCorrect == Spec => []TypeOK
<1>1. WireInv => TypeOK
  BY DEF WireInv
<1>2. QED
  BY <1>1, WireCorrect, PTL

(* Only whole frames with a right check byte, read without a gap since the *)
(* previous one, are handed to the engine (radar_processor.c:203-218).     *)
THEOREM FramesCorrect == Spec => []OnlyValidFrames
<1>1. WireInv => OnlyValidFrames
  <2> SUFFICES ASSUME WireInv, caller = "back"
               PROVE  /\ detection # NoFrame
                      /\ Len(wire) >= FrameLength
                      /\ SubSeq(wire, Len(wire) - FrameLength + 1, Len(wire))
                           = Frame(detection)
    BY DEF OnlyValidFrames
  <2>1. EndsInFrame /\ wire \in Seq(Bytes)
    BY DEF WireInv, TypeOK
  <2>2. detection \in Payloads /\ detection # NoFrame
    BY <2>1, ParserAssumption DEF EndsInFrame
  <2> DEFINE f == Frame(detection)
  <2>3. /\ f \in Seq(Bytes) /\ Len(f) = FrameLength
        /\ f[1] = Head1 /\ f[2] = Head2
        /\ \A i \in 1 .. PayloadLength : f[i + 2] = detection[i]
        /\ f[FrameLength] = Checksum[detection]
    BY <2>2, FrameFacts
  <2> HIDE DEF f
  <2>4. ASSUME NEW i \in 1 .. FrameLength
        PROVE  wire[i] = f[i]
    <3>1. CASE i \in {1, 2, FrameLength}
      BY <2>1, <2>3, <3>1 DEF EndsInFrame
    <3>2. CASE i - 2 \in 1 .. PayloadLength
      <4>1. i = (i - 2) + 2
        OBVIOUS
      <4>2. QED
        BY <2>1, <2>3, <3>2, <4>1 DEF EndsInFrame
    <3>3. QED
      BY <3>1, <3>2, ParserAssumption DEF FrameLength
  <2>5. wire = f
    BY <2>1, <2>3, <2>4, ParserAssumption DEF EndsInFrame, FrameLength
  <2>6. /\ Len(wire) = FrameLength
        /\ SubSeq(wire, 1, Len(wire)) = wire
    BY <2>1 DEF EndsInFrame
  <2>7. QED
    BY <2>2, <2>5, <2>6, ParserAssumption DEF f, FrameLength
<1>2. QED
  BY <1>1, WireCorrect, PTL

-----------------------------------------------------------------------------
(* Recovery.  While a clean whole frame p is read, the automaton is either *)
(* in step with it or out of step, and then in IDLE before the frame ends: *)
(* what it still swallows is shorter than the rest of the frame.           *)

Pos == FrameLength - Len(line)

OnLine(p) == /\ p \in Payloads
             /\ Clean(p)
             /\ Len(line) <= FrameLength
             /\ \A i \in 1 .. Len(line) : line[i] = Frame(p)[Pos + i]

InStep(p) ==
  \/ Pos = 0 /\ state = "IDLE"
  \/ Pos = 1 /\ state = "HEAD1"
  \/ /\ Pos >= 2 /\ state = "DATA" /\ Len(buf) = Pos - 2
     /\ \A i \in 1 .. Len(buf) : buf[i] = p[i]
  \/ Pos = PayloadLength + 2 /\ state = "CHECK" /\ buf = p

OutOfStep == \/ Pos >= 1 /\ state = "IDLE"
             \/ Pos = 0 /\ state = "HEAD1"
             \/ state = "DATA" /\ Len(buf) > Pos - 2
             \/ Pos < PayloadLength + 2 /\ state = "CHECK"

Follows(p) == /\ OnLine(p)
              /\ InStep(p) \/ OutOfStep
              /\ missed = 1 => line = << >> \/ InStep(p)

MissInv == /\ missed \in {0, 1}
           /\ missed = 1 => intact
           /\ intact => \E p : Follows(p)

(* What is known of the byte read at each position of a frame.             *)
LEMMA OnLineRead ==
  ASSUME TypeOK, Read, NEW p, OnLine(p)
  PROVE  /\ OnLine(p)'
         /\ Pos \in 0 .. PayloadLength + 2
         /\ Pos' = Pos + 1
         /\ line' = << >> <=> Pos = PayloadLength + 2
         /\ Len(line) = 1 <=> Pos = PayloadLength + 2
         /\ Pos = 0 => Head(line) = Head1
         /\ Pos = 1 => Head(line) = Head2
         /\ Pos \in 2 .. PayloadLength + 1 => Head(line) = p[Pos - 1]
         /\ Pos = PayloadLength + 2 => Head(line) = Checksum[p]
         /\ Pos >= 1 => Head(line) # Head1
<1> USE ParserAssumption DEF FrameLength
<1>1. p \in Payloads /\ Clean(p) /\ Len(line) <= FrameLength
  BY DEF OnLine
<1>2. /\ line \in Seq(Bytes) /\ line # << >> /\ Len(line) \in Nat
      /\ Len(line) >= 1
      /\ line' = Tail(line)
  BY DEF TypeOK, Read
<1>3. /\ line' \in Seq(Bytes) /\ Len(line') = Len(line) - 1
      /\ \A i \in 1 .. Len(line') : line'[i] = line[i + 1]
      /\ Head(line) = line[1]
  BY <1>2
<1>4. Pos \in 0 .. PayloadLength + 2 /\ Pos' = Pos + 1
  BY <1>1, <1>2, <1>3 DEF Pos
<1>5. OnLine(p)'
  <2>1. ASSUME NEW i \in 1 .. Len(line')
        PROVE  line'[i] = Frame(p)[Pos' + i]
    <3>1. /\ i + 1 \in 1 .. Len(line)
          /\ Pos + (i + 1) = Pos' + i
      BY <1>2, <1>3, <1>4
    <3>2. line[i + 1] = Frame(p)[Pos + (i + 1)]
      BY <3>1 DEF OnLine
    <3>3. QED
      BY <1>3, <3>1, <3>2
  <2>2. Len(line') <= FrameLength
    BY <1>1, <1>2, <1>3
  <2>3. QED
    BY <1>1, <2>1, <2>2 DEF OnLine, Clean
<1>6. /\ Len(line) = 1 <=> Pos = PayloadLength + 2
      /\ line' = << >> <=> Pos = PayloadLength + 2
  <2>1. Len(line) = 1 <=> Pos = PayloadLength + 2
    <3>1. ASSUME Len(line) = 1 PROVE Pos = PayloadLength + 2
      BY <1>2, <3>1 DEF Pos
    <3>2. ASSUME Pos = PayloadLength + 2 PROVE Len(line) = 1
      <4>1. \A n, k \in Int : (k + 3) - n = k + 2 => n = 1
        OBVIOUS
      <4>2. Len(line) \in Int /\ PayloadLength \in Int
        BY <1>2
      <4>3. (PayloadLength + 3) - Len(line) = PayloadLength + 2
        BY <3>2 DEF Pos
      <4>4. QED
        BY <4>1, <4>2, <4>3, Zenon
    <3>3. QED
      BY <3>1, <3>2
  <2>2. line' = << >> <=> Len(line') = 0
    BY <1>3
  <2>3. QED
    BY <1>2, <1>3, <2>1, <2>2
<1>7. Head(line) = Frame(p)[Pos + 1]
  BY <1>2, <1>3 DEF OnLine
<1>8. /\ Frame(p)[1] = Head1
      /\ Frame(p)[2] = Head2
      /\ \A i \in 1 .. PayloadLength : Frame(p)[i + 2] = p[i]
      /\ Frame(p)[FrameLength] = Checksum[p]
  BY <1>1, FrameFacts, Zenon
<1>9. /\ Pos = 0 => Head(line) = Head1
      /\ Pos = 1 => Head(line) = Head2
      /\ Pos = PayloadLength + 2 => Head(line) = Checksum[p]
  BY <1>7, <1>8
<1>10. ASSUME Pos \in 2 .. PayloadLength + 1
       PROVE  Head(line) = p[Pos - 1]
  <2>1. Pos - 1 \in 1 .. PayloadLength /\ Pos + 1 = (Pos - 1) + 2
    BY <1>10
  <2>2. QED
    BY <1>7, <1>8, <2>1
<1>11. ASSUME Pos >= 1 PROVE Head(line) # Head1
  <2>1. Pos \in 2 .. PayloadLength + 1 => Pos - 1 \in 1 .. PayloadLength
    OBVIOUS
  <2>2. Pos = 1 \/ Pos \in 2 .. PayloadLength + 1 \/ Pos = PayloadLength + 2
    BY <1>4, <1>11
  <2>3. QED
    BY <1>1, <1>9, <1>10, <2>1, <2>2 DEF Clean
<1>12. QED
  BY <1>4, <1>5, <1>6, <1>9, <1>10, <1>11

LEMMA FollowsIdle ==
  ASSUME TypeOK, Idle, NEW p, Follows(p), missed \in {0, 1}, intact
  PROVE  Follows(p)' /\ missed' \in {0, 1}
<1> USE ParserAssumption
<1>1. Read /\ OnLine(p)
  BY DEF Idle, Follows
<1>2. line # << >>
  BY DEF Idle, Read
<1>3. CASE Pos = 0
  <2>1. state' = "HEAD1" /\ Pos' = 1 /\ missed' = missed /\ OnLine(p)'
    BY <1>1, <1>3, OnLineRead DEF Idle, GoesOn, LastOfFrame
  <2>2. QED
    BY <2>1 DEF Follows, InStep
<1>4. CASE Pos >= 1
  <2>1. missed = 0
    BY <1>2, <1>4 DEF Follows, InStep, Idle
  <2>2. /\ state' = "IDLE" /\ Pos' >= 1 /\ OnLine(p)'
        /\ missed' = IF Pos = PayloadLength + 2 THEN 1 ELSE 0
        /\ line' = << >> <=> Pos = PayloadLength + 2
    BY <1>1, <1>4, <2>1, OnLineRead DEF Idle, GoesOn, LastOfFrame
  <2>3. QED
    BY <2>2 DEF Follows, OutOfStep
<1>5. QED
  BY <1>1, <1>3, <1>4, OnLineRead

LEMMA FollowsHeader ==
  ASSUME TypeOK, Header, NEW p, Follows(p), missed \in {0, 1}, intact
  PROVE  Follows(p)' /\ missed' \in {0, 1}
<1> USE ParserAssumption
<1>1. Read /\ OnLine(p)
  BY DEF Header, Follows
<1>2. line # << >>
  BY DEF Header, Read
<1>3. CASE Pos = 1
  <2>1. /\ state' = "DATA" /\ buf' = << >> /\ Pos' = 2
        /\ missed' = missed /\ OnLine(p)'
    BY <1>1, <1>3, OnLineRead DEF Header, GoesOn, LastOfFrame
  <2>2. Len(buf') = 0
    BY <2>1
  <2>3. QED
    BY <2>1, <2>2 DEF Follows, InStep
<1>4. CASE Pos = 0
  <2>1. missed = 0
    BY <1>2, <1>4 DEF Follows, InStep, Header
  <2>2. state' = "IDLE" /\ Pos' = 1 /\ OnLine(p)' /\ missed' = 0
    BY <1>1, <1>4, <2>1, OnLineRead DEF Header, GoesOn, LastOfFrame
  <2>3. QED
    BY <2>2 DEF Follows, OutOfStep
<1>5. Pos \in {0, 1}
  <2>1. state = "HEAD1" /\ (InStep(p) \/ OutOfStep)
    BY DEF Follows, Header
  <2>2. QED
    BY <2>1 DEF InStep, OutOfStep
<1>6. QED
  BY <1>3, <1>4, <1>5

LEMMA FollowsData ==
  ASSUME TypeOK, Data, NEW p, Follows(p), missed \in {0, 1}, intact
  PROVE  Follows(p)' /\ missed' \in {0, 1}
<1> USE ParserAssumption
<1>1. Read /\ OnLine(p) /\ state = "DATA" /\ line # << >>
  BY DEF Data, Follows, Read
<1>2. /\ Pos \in 0 .. PayloadLength + 2 /\ Pos' = Pos + 1 /\ OnLine(p)'
      /\ Len(line) = 1 <=> Pos = PayloadLength + 2
  BY <1>1, OnLineRead
<1>3. /\ buf \in Seq(Bytes) /\ Len(buf) \in Nat /\ Len(buf) < PayloadLength
      /\ buf' \in Seq(Bytes) /\ Len(buf') = Len(buf) + 1
      /\ buf'[Len(buf) + 1] = Head(line)
      /\ \A i \in 1 .. Len(buf) : buf'[i] = buf[i]
      /\ Head(line) \in Bytes
      /\ state' = IF Len(buf') >= PayloadLength THEN "CHECK" ELSE "DATA"
  BY <1>1 DEF Data, TypeOK
<1>4. CASE InStep(p)
  <2>1. /\ Len(buf) = Pos - 2 /\ Pos >= 2
        /\ \A i \in 1 .. Len(buf) : buf[i] = p[i]
    BY <1>1, <1>4 DEF InStep
  <2>2. Head(line) = p[Pos - 1]
    BY <1>1, <1>2, <1>3, <2>1, OnLineRead
  <2>3. missed' = missed
    BY <1>2, <1>3, <2>1 DEF Data, GoesOn, LastOfFrame
  <2>4. /\ Len(buf') = Pos' - 2 /\ Pos' >= 2
        /\ \A i \in 1 .. Len(buf') : buf'[i] = p[i]
    BY <1>2, <1>3, <2>1, <2>2
  <2>5. CASE Len(buf') >= PayloadLength
    <3>1. Len(buf') = PayloadLength /\ Pos' = PayloadLength + 2
      BY <1>2, <1>3, <2>4, <2>5
    <3>2. p \in Seq(Bytes) /\ Len(p) = PayloadLength
      BY <1>1, FrameFacts DEF OnLine
    <3>3. buf' = p
      BY <1>3, <2>4, <3>1, <3>2
    <3>4. InStep(p)'
      BY <1>3, <2>5, <3>1, <3>3 DEF InStep
    <3>5. QED
      BY <1>2, <2>3, <3>4 DEF Follows
  <2>6. CASE Len(buf') < PayloadLength
    <3>1. InStep(p)'
      BY <1>3, <2>4, <2>6 DEF InStep
    <3>2. QED
      BY <1>2, <2>3, <3>1 DEF Follows
  <2>7. QED
    BY <1>3, <2>5, <2>6
<1>5. CASE ~InStep(p)
  <2>1. missed = 0 /\ Len(buf) > Pos - 2
    BY <1>1, <1>5 DEF Follows, OutOfStep
  <2>2. missed' = 0
    BY <1>2, <1>3, <2>1 DEF Data, GoesOn, LastOfFrame
  <2>3. Len(buf') > Pos' - 2
    BY <1>2, <1>3, <2>1
  <2>4. OutOfStep'
    BY <1>2, <1>3, <2>3 DEF OutOfStep
  <2>5. QED
    BY <1>2, <2>2, <2>4 DEF Follows
<1>6. QED
  BY <1>4, <1>5

LEMMA FollowsCheck ==
  ASSUME TypeOK, Reject \/ Accept, NEW p, Follows(p), missed \in {0, 1}, intact
  PROVE  Follows(p)' /\ missed' \in {0, 1}
<1> USE ParserAssumption
<1>1. Read /\ OnLine(p) /\ state = "CHECK" /\ line # << >> /\ state' = "IDLE"
  BY DEF Reject, Accept, Follows, Read
<1>2. /\ Pos \in 0 .. PayloadLength + 2 /\ Pos' = Pos + 1 /\ OnLine(p)'
      /\ Len(line) = 1 <=> Pos = PayloadLength + 2
      /\ Pos = PayloadLength + 2 => Head(line) = Checksum[p]
  BY <1>1, OnLineRead
<1>3. missed' = 0
  <2>1. CASE InStep(p)
    <3>1. Pos = PayloadLength + 2 /\ buf = p
      BY <1>1, <2>1 DEF InStep
    <3>2. Head(line) = Checksum[buf] /\ Len(line) = 1
      BY <1>2, <3>1
    <3>3. QED
      BY <3>2 DEF Reject, Accept, LastOfFrame
  <2>2. CASE ~InStep(p)
    <3>1. missed = 0 /\ Pos < PayloadLength + 2
      BY <1>1, <2>2 DEF Follows, OutOfStep
    <3>2. Len(line) # 1
      BY <1>2, <3>1
    <3>3. QED
      BY <3>1, <3>2 DEF Reject, Accept, GoesOn, LastOfFrame
  <2>3. QED
    BY <2>1, <2>2
<1>4. OutOfStep'
  BY <1>1, <1>2 DEF OutOfStep
<1>5. QED
  BY <1>2, <1>3, <1>4 DEF Follows

LEMMA MissInvByte == TypeOK /\ MissInv /\ Byte => MissInv'
<1> SUFFICES ASSUME TypeOK, MissInv, Byte PROVE MissInv'
  OBVIOUS
<1>1. intact' = intact
  BY DEF Byte, Idle, Header, Data, Reject, Accept, Read
<1>2. CASE intact
  <2>1. PICK p : Follows(p)
    BY <1>2 DEF MissInv
  <2>2. Follows(p)' /\ missed' \in {0, 1}
    BY <1>2, <2>1, FollowsIdle, FollowsHeader, FollowsData, FollowsCheck
    DEF Byte, MissInv
  <2>3. QED
    BY <1>1, <1>2, <2>2 DEF MissInv
<1>3. CASE ~intact
  <2>1. missed = 0
    BY <1>3 DEF MissInv
  <2>2. missed' = 0
    BY <1>3, <2>1
    DEF Byte, Idle, Header, Data, Reject, Accept, GoesOn, LastOfFrame
  <2>3. QED
    BY <1>1, <1>3, <2>2 DEF MissInv
<1>4. QED
  BY <1>2, <1>3 DEF TypeOK

LEMMA MissInvSend ==
  ASSUME TypeOK, MissInv, NEW p \in Payloads, SendFrame(p)
  PROVE  MissInv'
<1> USE ParserAssumption
<1>1. CASE Clean(p)
  <2>1. line' = Frame(p) /\ Len(line') = FrameLength
    BY FrameFacts DEF SendFrame
  <2>2. FrameLength \in Nat
    BY DEF FrameLength
  <2>3. Pos' = 0
    BY <2>1, <2>2 DEF Pos
  <2>4. OnLine(p)'
    BY <1>1, <2>1, <2>2, <2>3 DEF OnLine, Clean
  <2>5. missed' = missed /\ state' = state /\ buf' = buf /\ intact' = Clean(p)
    BY <1>1 DEF SendFrame
  <2>6. InStep(p)' \/ OutOfStep'
    <3>1. state \in States /\ Len(buf) \in Nat
      BY DEF TypeOK
    <3>2. QED
      BY <2>3, <2>5, <3>1 DEF InStep, OutOfStep, States
  <2>7. ASSUME missed = 1 PROVE InStep(p)'
    <3>1. PICK q : Follows(q)
      BY <2>7 DEF MissInv
    <3>2. Pos = FrameLength
      BY <2>2 DEF SendFrame, Pos
    <3>3. state = "IDLE"
      BY <3>1, <3>2
      DEF Follows, InStep, OutOfStep, FrameLength, TypeOK
    <3>4. QED
      BY <2>3, <2>5, <3>3 DEF InStep
  <2>8. QED
    BY <1>1, <2>4, <2>5, <2>6, <2>7 DEF MissInv, Follows
<1>2. CASE ~Clean(p)
  BY <1>2 DEF SendFrame, MissInv
<1>3. QED
  BY <1>1, <1>2

LEMMA MissInvNext == TypeOK /\ MissInv /\ [Next]_vars => MissInv'
<1> SUFFICES ASSUME TypeOK, MissInv, [Next]_vars PROVE MissInv'
  OBVIOUS
<1>1. CASE Byte
  BY <1>1, MissInvByte
<1>2. CASE \E p \in Payloads : SendFrame(p)
  BY <1>2, MissInvSend
<1>3. CASE (\E b \in Bytes : Noise(b)) \/ Lose
  BY <1>3 DEF Noise, Lose, MissInv
<1>4. CASE Quiet \/ Call \/ NothingYet \/ HandOver \/ UNCHANGED vars
  <2>1. UNCHANGED <<line, state, buf, intact, missed>>
    BY <1>4 DEF Quiet, Call, NothingYet, HandOver, vars
  <2>2. QED
    BY <2>1 DEF MissInv, Follows, OnLine, InStep, OutOfStep, Pos, Clean
<1>5. QED
  BY <1>1, <1>2, <1>3, <1>4 DEF Next

(* After any disturbance at most one whole frame goes by unrecognised, as  *)
(* long as no byte behind the header equals the first header byte          *)
(* (radar_processor.c:185-224).                                            *)
THEOREM RecoveryCorrect == Spec => []MissesAtMostOne
<1>1. Init => MissInv
  BY DEF Init, MissInv
<1>2. MissInv => MissesAtMostOne
  BY DEF MissInv, MissesAtMostOne
<1>3. QED
  BY <1>1, <1>2, MissInvNext, ParserTypeCorrect, PTL DEF Spec
=============================================================================
