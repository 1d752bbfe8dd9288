---------------------------- MODULE FramingProof ----------------------------
(***************************************************************************)
(* Proofs about Framing, for any lengths of frames, prefix and limits, any *)
(* number of frames and any way the bytes are cut up.                      *)
(***************************************************************************)
EXTENDS Framing, TLAPS

LEMMA Lengths ==
  /\ PrefixLen \in Nat /\ HeadLen \in Nat /\ MaxPacket \in Nat /\ Flag \in Nat
  /\ 0 < PrefixLen /\ PrefixLen < HeadLen /\ HeadLen <= MaxPacket /\ MaxPacket < Flag
  /\ \A n \in Totals : n \in Nat /\ PrefixLen <= n /\ n < Flag
  BY LengthsAssumption

\* The flag bit comes off again.
LEMMA FrameTypes ==
  ASSUME NEW f \in SentFrames
  PROVE  f.start \in Nat /\ f.total \in Totals /\ f.encrypted \in BOOLEAN
  BY DEF SentFrames

LEMMA LengthOfPrefix ==
  ASSUME NEW f \in SentFrames
  PROVE  LengthIn(Prefix(f)) = f.total
<1>1. f.total \in Nat /\ f.total < Flag /\ Flag \in Nat
  BY Lengths, FrameTypes
<1>2. CASE f.encrypted
  BY <1>1, <1>2 DEF LengthIn, Prefix
<1>3. CASE ~f.encrypted
  BY <1>1, <1>3 DEF LengthIn, Prefix
<1> QED
  BY <1>2, <1>3

-----------------------------------------------------------------------------
(* The frames lie end to end in the stream, and the reader is at the front *)
(* of the next one or inside it.                                           *)

EndToEnd ==
  /\ \A i \in 1..Len(sent) : sent[i].start = End(i - 1)
  /\ \A i, j \in 1..Len(sent) : i < j => sent[i].start + sent[i].total <= sent[j].start
  /\ arrived <= End(Len(sent))

InStep ==
  LET next == Len(frames) + 1 IN
  /\ line = "prefix" => remaining <= PrefixLen
  /\ line = "body" => /\ next <= Len(sent) /\ total = sent[next].total
                      /\ total \in LegalTotals
                      /\ remaining <= total - PrefixLen
  /\ line = "refused" => next <= Len(sent)

\* The parts of FramesInOrder.
NextTotal == sent[Len(frames) + 1].total
Order ==
  Len(frames) <= Len(sent) /\ \A i \in 1..Len(frames) : frames[i] = sent[i].total
Position ==
  /\ line = "prefix" => read = End(Len(frames)) + PrefixLen - remaining
  /\ line = "body" => read = End(Len(frames)) + NextTotal - remaining
  /\ line = "refused" => NextTotal \notin LegalTotals

LEMMA Parts == FramesInOrder <=> Order /\ Position
  BY DEF FramesInOrder, Order, Position, NextTotal

FrameInv == TypeOK /\ EndToEnd /\ InStep /\ Order /\ Position

LEMMA FrameInit == Init => FrameInv
<1> SUFFICES ASSUME Init PROVE FrameInv
  OBVIOUS
<1>1. TypeOK
  BY Lengths DEF Init, TypeOK
<1>2. EndToEnd /\ InStep
  BY Lengths DEF Init, EndToEnd, InStep, End
<1>3. Order /\ Position
  BY Lengths DEF Init, Order, Position, End
<1> QED
  BY <1>1, <1>2, <1>3 DEF FrameInv

\* The types a proof step needs most.
LEMMA Types ==
  ASSUME TypeOK
  PROVE  /\ Len(sent) \in Nat /\ Len(frames) \in Nat /\ arrived \in Nat /\ read \in Nat
         /\ read <= arrived /\ remaining \in Nat /\ 0 < remaining /\ total \in Nat
<1>1. Len(sent) \in Nat /\ Len(frames) \in Nat
  BY DEF TypeOK
<1>2. arrived \in Nat /\ read \in 0..arrived /\ remaining \in Nat \ {0} /\ total \in Nat
  BY DEF TypeOK
<1> QED
  BY <1>1, <1>2

LEMMA SentTypes ==
  ASSUME TypeOK, NEW i \in 1..Len(sent)
  PROVE  /\ sent[i] \in SentFrames
         /\ sent[i].start \in Nat /\ sent[i].total \in Nat /\ sent[i].total > 0
<1>1. sent[i] \in SentFrames
  BY DEF TypeOK
<1> QED
  BY <1>1, Lengths, FrameTypes

LEMMA EndTypes == ASSUME TypeOK, NEW i \in 0..Len(sent) PROVE End(i) \in Nat
<1>1. CASE i = 0
  BY <1>1 DEF End
<1>2. CASE i # 0
  <2>1. i \in 1..Len(sent)
    BY <1>2, Types
  <2> QED
    BY <1>2, <2>1, SentTypes DEF End
<1> QED
  BY <1>1, <1>2

LEMMA LegalTypes == ASSUME NEW n \in Nat
                    PROVE  n \in LegalTotals <=> ~(n < HeadLen \/ n > MaxPacket)
  BY Lengths DEF LegalTotals

LEMMA EndKept == ASSUME sent' = sent PROVE \A i : End(i)' = End(i)
  BY DEF End

\* A prefix read where the next frame starts is the next frame's.
LEMMA PrefixIsNext ==
  ASSUME FrameInv, NEW byte \in Nat, byte = End(Len(frames)) + PrefixLen, byte <= arrived,
         NEW prefix \in PrefixesAt(byte)
  PROVE  /\ Len(frames) + 1 \in 1..Len(sent)
         /\ LengthIn(prefix) = NextTotal
<1> DEFINE next == Len(frames) + 1
<1>0. TypeOK /\ EndToEnd /\ Len(frames) <= Len(sent)
  BY DEF FrameInv, Order
<1>1. next \in 1..Len(sent)
  <2>1. Len(frames) # Len(sent)
    BY <1>0, Lengths, Types, EndTypes DEF EndToEnd
  <2> QED
    BY <1>0, <2>1, Types
<1>2. sent[next].start = End(Len(frames))
  BY <1>0, <1>1, Types DEF EndToEnd
<1>3. next \in StartingAt(byte)
  BY <1>0, <1>1, <1>2 DEF StartingAt, TypeOK
<1>4. \A i \in StartingAt(byte) : i = next
  <2> SUFFICES ASSUME NEW i \in StartingAt(byte), i # next PROVE FALSE
    OBVIOUS
  <2>1. i \in 1..Len(sent) /\ sent[i].start + PrefixLen = byte
    BY <1>0 DEF StartingAt, TypeOK
  <2>2. /\ sent[i].total \in Nat /\ sent[next].total \in Nat
        /\ sent[i].start \in Nat /\ sent[next].start \in Nat
        /\ sent[i].total > 0 /\ sent[next].total > 0
    BY <1>0, <1>1, <2>1, SentTypes
  <2>3. sent[i].start = sent[next].start
    BY <1>2, <2>1, <2>2, Lengths
  <2>4. /\ i < next => sent[i].start + sent[i].total <= sent[next].start
        /\ next < i => sent[next].start + sent[next].total <= sent[i].start
    BY <1>0, <1>1, <2>1 DEF EndToEnd
  <2>5. i < next \/ next < i
    BY <1>0, <1>1, <2>1, Types
  <2> QED
    BY <2>2, <2>3, <2>4, <2>5
<1>5. prefix = Prefix(sent[next])
  BY <1>3, <1>4 DEF PrefixesAt
<1>6. sent[next] \in SentFrames
  BY <1>0, <1>1, SentTypes
<1> QED
  BY <1>1, <1>5, <1>6, LengthOfPrefix DEF NextTotal

-----------------------------------------------------------------------------
(* The steps.                                                              *)

LEMMA FrameReadMore == ASSUME FrameInv, ReadMore PROVE FrameInv'
<1>0. TypeOK /\ EndToEnd /\ InStep /\ Order /\ Position
  BY DEF FrameInv
<1>1. PICK n \in 1..remaining - 1 : Recv(n) /\ remaining' = remaining - n
  BY DEF ReadMore
<1>2. /\ UNCHANGED <<line, total, frames, sent, arrived, up>>
      /\ line \in {"prefix", "body"} /\ n \in Nat \ {0} /\ n < remaining
      /\ read' = read + n /\ read + n <= arrived /\ remaining' = remaining - n
  BY <1>0, <1>1, Types DEF ReadMore, Recv, netVars
<1>3. TypeOK'
  <2>1. read' \in 0..arrived' /\ remaining' \in Nat \ {0}
    BY <1>0, <1>2, Types
  <2> QED
    BY <1>0, <1>2, <2>1 DEF TypeOK
<1>4. EndToEnd' /\ Order'
  BY <1>0, <1>2, EndKept DEF EndToEnd, Order
<1>5. InStep'
  BY <1>0, <1>2, Types, Lengths DEF InStep, LegalTotals
<1>6. Position'
  <2> DEFINE W == End(Len(frames))
             T == NextTotal
  <2>1. W \in Nat /\ (End(Len(frames)))' = W /\ NextTotal' = T
    BY <1>0, <1>2, Types, EndTypes, EndKept DEF Order, NextTotal
  <2>2. line = "body" => T \in Nat
    BY <1>0, Types DEF InStep, NextTotal
  <2>3. /\ line = "prefix" => read = W + PrefixLen - remaining
        /\ line = "body" => read = W + T - remaining
    BY <1>0 DEF Position
  <2> HIDE DEF W, T
  <2>n. remaining \in Nat /\ read' = read + n /\ remaining' = remaining - n /\ n \in Nat
    BY <1>0, <1>2, Types
  <2>4. CASE line = "prefix"
    <3>1. read = W + PrefixLen - remaining /\ PrefixLen \in Nat /\ W \in Nat
      BY <2>1, <2>3, <2>4, Lengths
    <3>2. read' = W + PrefixLen - remaining'
      BY <2>n, <3>1
    <3> QED
      BY <1>2, <2>1, <2>4, <3>2 DEF Position
  <2>5. CASE line = "body"
    <3>1. read = W + T - remaining /\ T \in Nat /\ W \in Nat
      BY <2>1, <2>2, <2>3, <2>5
    <3>2. read' = W + T - remaining'
      BY <2>n, <3>1
    <3> QED
      BY <1>2, <2>1, <2>5, <3>2 DEF Position
  <2> QED
    BY <1>2, <2>4, <2>5
<1> QED
  BY <1>3, <1>4, <1>5, <1>6 DEF FrameInv

LEMMA FrameReadPrefix == ASSUME FrameInv, ReadPrefix PROVE FrameInv'
<1>0. TypeOK /\ EndToEnd /\ InStep /\ Order /\ Position
  BY DEF FrameInv
<1> DEFINE W == End(Len(frames))
           T == NextTotal
<1>1. /\ line = "prefix" /\ UNCHANGED <<frames, sent, arrived, up>>
      /\ read' = read + remaining /\ read + remaining <= arrived
  BY <1>0, Types DEF ReadPrefix, Recv, netVars
<1>2. W \in Nat /\ read = W + PrefixLen - remaining
  BY <1>0, <1>1, Types, EndTypes DEF Order, Position
<1>3. read' = W + PrefixLen /\ read' \in Nat /\ read' \in 0..arrived'
  <2> HIDE DEF W
  <2> QED BY <1>0, <1>1, <1>2, Types, Lengths
<1>4. PICK prefix \in PrefixesAt(read') :
        IF LengthIn(prefix) < HeadLen \/ LengthIn(prefix) > MaxPacket
        THEN line' = "refused" /\ UNCHANGED <<remaining, total>>
        ELSE /\ line' = "body" /\ remaining' = LengthIn(prefix) - PrefixLen
             /\ total' = LengthIn(prefix)
  BY DEF ReadPrefix
<1>5. Len(frames) + 1 \in 1..Len(sent) /\ LengthIn(prefix) = T
  BY <1>1, <1>3, PrefixIsNext
<1>6. T \in Nat
  BY <1>0, <1>5, SentTypes DEF NextTotal
<1>7. (End(Len(frames)))' = W /\ NextTotal' = T /\ EndToEnd' /\ Order'
  BY <1>0, <1>1, EndKept DEF EndToEnd, Order, NextTotal
<1>8. Len(frames) + 1 <= Len(sent)
  BY <1>0, <1>5, Types
<1> HIDE DEF W, T
<1>9. CASE T < HeadLen \/ T > MaxPacket
  <2>1. line' = "refused" /\ UNCHANGED <<remaining, total>>
    BY <1>4, <1>5, <1>9
  <2>2. TypeOK'
    BY <1>0, <1>1, <1>3, <2>1 DEF TypeOK
  <2>3. InStep'
    BY <1>1, <1>8, <2>1 DEF InStep
  <2>4. T \notin LegalTotals
    BY <1>6, <1>9, LegalTypes
  <2>5. Position'
    BY <1>7, <2>1, <2>4 DEF Position
  <2> QED
    BY <1>7, <2>2, <2>3, <2>5 DEF FrameInv
<1>10. CASE ~(T < HeadLen \/ T > MaxPacket)
  <2>1. line' = "body" /\ remaining' = T - PrefixLen /\ total' = T
    BY <1>4, <1>5, <1>10
  <2>2. remaining' \in Nat \ {0} /\ T \in LegalTotals
    BY <1>6, <1>10, <2>1, LegalTypes, Lengths
  <2>3. TypeOK'
    BY <1>0, <1>1, <1>3, <1>6, <2>1, <2>2 DEF TypeOK
  <2>4. InStep'
    <3>1. remaining' <= total' - PrefixLen
      BY <1>6, <2>1, Lengths
    <3>2. total' = sent'[Len(frames') + 1].total
      BY <1>7, <2>1 DEF NextTotal
    <3> QED
      BY <1>1, <1>8, <2>1, <2>2, <3>1, <3>2 DEF InStep
  <2>5. read' = W + T - remaining'
    BY <1>2, <1>3, <1>6, <2>1, Lengths
  <2>6. Position'
    BY <1>7, <2>1, <2>5 DEF Position
  <2> QED
    BY <1>7, <2>3, <2>4, <2>6 DEF FrameInv
<1> QED
  BY <1>9, <1>10

LEMMA FrameReadBody == ASSUME FrameInv, ReadBody PROVE FrameInv'
<1> DEFINE next == Len(frames) + 1
           W == End(Len(frames))
<1>0. TypeOK /\ EndToEnd /\ InStep /\ Order /\ Position
  BY DEF FrameInv
<1>1. /\ line = "body" /\ line' = "prefix" /\ remaining' = PrefixLen
      /\ UNCHANGED <<total, sent, arrived, up>> /\ frames' = Append(frames, total)
      /\ read' = read + remaining /\ read + remaining <= arrived
  BY <1>0, Types DEF ReadBody, Recv, netVars
<1>2. /\ next \in 1..Len(sent) /\ total = sent[next].total /\ total \in LegalTotals
      /\ W \in Nat /\ read = W + total - remaining
  BY <1>0, <1>1, Types, EndTypes DEF InStep, Order, Position, NextTotal
<1>3. /\ frames' \in Seq(LegalTotals) /\ Len(frames') = next /\ frames'[next] = total
      /\ \A i \in 1..Len(frames) : frames'[i] = frames[i]
  BY <1>0, <1>1, <1>2 DEF TypeOK
<1>4. End(next) = W + total
  <2>1. W = sent[next].start
    BY <1>0, <1>2, Types DEF EndToEnd
  <2>2. End(next) = sent[next].start + sent[next].total
    BY <1>0, <1>2, Types DEF End
  <2> QED
    BY <1>2, <2>1, <2>2
<1>5. (End(Len(frames)))' = W + total
  BY <1>1, <1>3, <1>4, EndKept
<1>6. EndToEnd'
  BY <1>0, <1>1, EndKept DEF EndToEnd
<1>7. Order'
  <2>1. \A i \in 1..next : frames'[i] = sent[i].total
    BY <1>0, <1>2, <1>3, Types DEF Order
  <2>2. next <= Len(sent)
    BY <1>0, <1>2, Types
  <2> QED
    BY <1>1, <1>3, <2>1, <2>2 DEF Order
<1> HIDE DEF W
<1>8. read' = W + total /\ read' \in 0..arrived'
  <2>1. /\ W \in Nat /\ total \in Nat /\ remaining \in Nat /\ read = W + total - remaining
        /\ arrived' \in Nat
    BY <1>0, <1>1, <1>2, Types
  <2>2. read' = read + remaining /\ read' <= arrived'
    BY <1>1
  <2> QED
    BY <2>1, <2>2
<1>9. TypeOK'
  BY <1>0, <1>1, <1>3, <1>8, Lengths DEF TypeOK
<1>10. InStep'
  BY <1>1, Lengths DEF InStep
<1>11. Position'
  <2>1. W + total \in Nat /\ PrefixLen \in Nat
    BY <1>0, <1>2, Types, Lengths
  <2>2. read' = (End(Len(frames)))' + PrefixLen - remaining'
    BY <1>1, <1>5, <1>8, <2>1
  <2> QED
    BY <1>1, <2>2 DEF Position
<1> QED
  BY <1>6, <1>7, <1>9, <1>10, <1>11 DEF FrameInv

LEMMA FrameOther == ASSUME FrameInv, ReadEof \/ Arrive \/ Shut PROVE FrameInv'
<1>0. TypeOK /\ EndToEnd /\ InStep /\ Order /\ Position
  BY DEF FrameInv
<1>1. /\ UNCHANGED <<read, remaining, total, frames, sent>>
      /\ line' = line \/ line' = "eof"
      /\ arrived' \in Nat /\ arrived <= arrived' /\ arrived' <= End(Len(sent))
  <2>0. arrived \in Nat /\ arrived <= End(Len(sent)) /\ End(Len(sent)) \in Nat
    BY <1>0, Types, EndTypes DEF EndToEnd
  <2>1. CASE ReadEof
    BY <2>0, <2>1 DEF ReadEof, netVars
  <2>2. CASE Arrive
    BY <2>0, <2>2 DEF Arrive, readVars
  <2>3. CASE Shut
    BY <2>0, <2>3 DEF Shut, readVars
  <2> QED
    BY <2>1, <2>2, <2>3
<1>2. TypeOK'
  <2>1. read' \in 0..arrived'
    BY <1>0, <1>1, Types
  <2>2. up' \in BOOLEAN
    BY <1>0 DEF ReadEof, Arrive, Shut, netVars, TypeOK
  <2> QED
    BY <1>0, <1>1, <2>1, <2>2 DEF TypeOK
<1>3. EndToEnd' /\ InStep' /\ Order'
  BY <1>0, <1>1, EndKept DEF EndToEnd, InStep, Order
<1>4. Position'
  BY <1>0, <1>1, EndKept DEF Position, NextTotal
<1> QED
  BY <1>2, <1>3, <1>4 DEF FrameInv

LEMMA FrameSend == ASSUME FrameInv, Send PROVE FrameInv'
<1>0. TypeOK /\ EndToEnd /\ InStep /\ Order /\ Position
  BY DEF FrameInv
<1>a. PICK old \in Nat : old = Len(sent)
  BY <1>0, Types
<1>1. PICK n \in Totals, e \in BOOLEAN :
        sent' = Append(sent, [start |-> End(old), total |-> n, encrypted |-> e])
  BY <1>a DEF Send
<1>2. UNCHANGED <<read, line, remaining, total, frames, arrived, up>>
  BY DEF Send, readVars
<1> DEFINE f == [start |-> End(old), total |-> n, encrypted |-> e]
<1>3. f \in SentFrames /\ f.start = End(old) /\ f.total = n /\ End(old) \in Nat /\ n \in Nat
  BY <1>0, <1>a, Types, EndTypes, Lengths DEF SentFrames
<1> HIDE DEF f
<1>4. sent' = Append(sent, f) /\ sent \in Seq(SentFrames) /\ old \in Nat
  BY <1>0, <1>a, <1>1 DEF TypeOK, f
<1>5. /\ sent' \in Seq(SentFrames) /\ Len(sent') = old + 1 /\ sent'[old + 1] = f
      /\ \A i \in 1..old : sent'[i] = sent[i]
  BY <1>3, <1>a, <1>4
<1>6. \A i \in 0..old : End(i)' = End(i)
  BY <1>a, <1>4, <1>5 DEF End
<1>7. TypeOK'
  BY <1>0, <1>2, <1>5 DEF TypeOK
<1>8. EndToEnd'
  <2>1. \A i \in 1..old + 1 : sent'[i].start = End(i - 1)'
    <3> SUFFICES ASSUME NEW i \in 1..old + 1 PROVE sent'[i].start = End(i - 1)'
      OBVIOUS
    <3>1. End(i - 1)' = End(i - 1)
      BY <1>a, <1>4, <1>6
    <3>2. CASE i \in 1..old
      BY <1>a, <1>0, <1>5, <3>1, <3>2 DEF EndToEnd
    <3>3. CASE i = old + 1
      BY <1>3, <1>a, <1>4, <1>5, <3>1, <3>3
    <3> QED
      BY <1>a, <1>4, <3>2, <3>3
  <2>2. \A i \in 1..old : sent[i].start + sent[i].total <= End(old)
    <3> SUFFICES ASSUME NEW i \in 1..old PROVE sent[i].start + sent[i].total <= End(old)
      OBVIOUS
    <3>1. End(old) = sent[old].start + sent[old].total
      BY <1>a, <1>4 DEF End
    <3>2. /\ sent[i].start \in Nat /\ sent[i].total \in Nat
          /\ sent[old].start \in Nat /\ sent[old].total \in Nat
      BY <1>0, <1>a, <1>4, SentTypes
    <3>3. CASE i = old
      BY <3>1, <3>2, <3>3
    <3>4. CASE i # old
      <4>1. sent[i].start + sent[i].total <= sent[old].start
        BY <1>0, <1>a, <1>4, <3>4 DEF EndToEnd
      <4> QED
        BY <3>1, <3>2, <4>1
    <3> QED
      BY <3>3, <3>4
  <2>3. \A i, j \in 1..old + 1 : i < j => sent'[i].start + sent'[i].total <= sent'[j].start
    <3> SUFFICES ASSUME NEW i \in 1..old + 1, NEW j \in 1..old + 1, i < j
                 PROVE  sent'[i].start + sent'[i].total <= sent'[j].start
      OBVIOUS
    <3>1. i \in 1..old /\ sent'[i] = sent[i]
      BY <1>a, <1>4, <1>5
    <3>2. CASE j \in 1..old
      BY <1>a, <1>0, <1>5, <3>1, <3>2 DEF EndToEnd
    <3>3. CASE j = old + 1
      BY <1>3, <1>5, <2>2, <3>1, <3>3
    <3> QED
      BY <1>a, <1>4, <3>2, <3>3
  <2>4. arrived' <= End(old + 1)'
    <3>1. End(old + 1)' = End(old) + n
      BY <1>3, <1>a, <1>4, <1>5 DEF End
    <3>2. arrived <= End(old) /\ arrived \in Nat
      BY <1>0, <1>a, Types DEF EndToEnd
    <3> QED
      BY <1>2, <1>3, <3>1, <3>2
  <2> QED
    BY <1>5, <2>1, <2>3, <2>4 DEF EndToEnd
<1>9. Len(frames) \in 0..old
  BY <1>0, <1>a, <1>4, Types DEF Order
<1>10. Order'
  BY <1>0, <1>2, <1>a, <1>4, <1>5, <1>9 DEF Order
<1>11. ASSUME line \in {"body", "refused"}
       PROVE  sent'[Len(frames) + 1] = sent[Len(frames) + 1]
  BY <1>0, <1>a, <1>4, <1>5, <1>9, <1>11 DEF InStep
<1>12. InStep'
  BY <1>0, <1>2, <1>a, <1>4, <1>5, <1>9, <1>11 DEF InStep
<1>13. Position'
  <2>1. (End(Len(frames)))' = End(Len(frames))
    BY <1>2, <1>6, <1>9
  <2> QED
    BY <1>0, <1>2, <1>11, <2>1 DEF Position, NextTotal
<1> QED
  BY <1>7, <1>8, <1>10, <1>12, <1>13 DEF FrameInv

LEMMA FrameNext == FrameInv /\ [Next]_vars => FrameInv'
<1>1. ASSUME FrameInv, UNCHANGED vars PROVE FrameInv'
  BY <1>1 DEF vars, readVars, netVars, FrameInv, TypeOK, EndToEnd, InStep, Order, Position,
         NextTotal, End
<1> QED
  BY <1>1, FrameReadMore, FrameReadPrefix, FrameReadBody, FrameOther, FrameSend DEF Next, Read

\* The types of Framing hold in every reachable state.
THEOREM TypeCorrect == Spec => []TypeOK
<1>1. FrameInv => TypeOK
  BY DEF FrameInv
<1> QED
  BY <1>1, FrameInit, FrameNext, PTL DEF Spec

\* read_raw_frame: the frames returned are the first frames sent, whole and in
\* order, and the reader is in step with the stream.
THEOREM FramesReturnedInOrder == Spec => []FramesInOrder
<1>1. FrameInv => FramesInOrder
  BY Parts DEF FrameInv
<1> QED
  BY <1>1, FrameInit, FrameNext, PTL DEF Spec
=============================================================================
