----------------------------- MODULE WireProof -----------------------------
(***************************************************************************)
(* Proofs about Wire, for every length an application's strings may have:  *)
(* every field is where a reader looks for it, the front of the frame      *)
(* tells its length and kind, and the head tells the key of the body.      *)
(***************************************************************************)
EXTENDS Wire, TLAPS

Write == [kind : {"text", "number"}, size : Nat]
Field == [kind : {"text", "number"}, at : Nat, says : Nat, size : Nat, bytes : Nat]

(***************************************************************************)
(* The invariants.                                                         *)
(***************************************************************************)

\* What an encoder has still to write and what it wrote.
TypeInv ==
  /\ codec \in {"jhead", "android", "ios"} /\ command \in Commands
  /\ todo \in Seq(Write) /\ body \in Seq(Field) /\ frame.size \in Nat

\* What a field takes is what its reader skips, and a string says its length.
FieldRight(f) ==
  /\ f.at + f.bytes = ReadEnd(f)
  /\ f.kind = "text" => f.says = f.size \/ (f.says = 0 /\ f.size > MaxText)

\* Every field is written where the one before it ends.
FieldsInv ==
  \A i \in 1..Len(body) :
    /\ FieldRight(body[i])
    /\ body[i].at = IF i = 1 THEN 0 ELSE body[i - 1].at + body[i - 1].bytes

\* What the front of a plain and of an encrypted frame say of it.
PlainFront ==
  /\ frame.size = HeadLen + Bytes(body)
  /\ frame.prefix = frame.size % 65536
EncryptedFront ==
  /\ frame.size = HeadLen + Bytes(body) + Pad(Bytes(body))
  /\ frame.prefix = (frame.size % Flag) + Flag
  /\ frame.pad = Pad(Bytes(body))

\* The frame is that of the whole body; nothing is written after it.
FrameInv ==
  frame.size > 0 =>
    /\ todo = <<>>
    /\ frame.seed = HeadNumbers.seed /\ frame.juid = HeadNumbers.juid
    /\ frame.key = <<"transform", KeySeed>>
    /\ codec = "jhead" => PlainFront
    /\ codec # "jhead" => EncryptedFront

\* What an iOS register request has written, and what it has still to write, are
\* the fields decode_ios_register_body reads.
RegisterInv ==
  codec = "ios" /\ command = "register" =>
    /\ Len(body) + Len(todo) = Len(CaptureReads)
    /\ \A i \in 1..Len(body) : ReadOf(body[i]) = CaptureReads[i]
    /\ \A i \in 1..Len(todo) : ReadOf(todo[i]) = CaptureReads[Len(body) + i]

\* Only a whole, encrypted frame is looked at, and its key is among the tries.
OpenedInv ==
  opened # {} =>
    /\ frame.size > 0 /\ codec # "jhead"
    /\ \E c \in opened :
         /\ c.found = "body" /\ c.length = Bytes(body)
         /\ c.mode = <<"transform", IF command = "register" THEN frame.seed ELSE frame.juid>>

WireInv == TypeInv /\ FieldsInv /\ FrameInv /\ RegisterInv /\ OpenedInv

(***************************************************************************)
(* Lengths.                                                                *)
(***************************************************************************)

\* The end of what is written is a length.
LEMMA BytesNat == ASSUME NEW fields \in Seq(Field) PROVE Bytes(fields) \in Nat
<1>1. CASE fields = <<>> BY <1>1 DEF Bytes
<1>2. CASE fields # <<>>
  <2>1. Len(fields) \in 1..Len(fields) /\ fields[Len(fields)] \in Field BY <1>2
  <2> QED BY <2>1, <1>2 DEF Bytes, Field
<1> QED BY <1>1, <1>2

\* The padding fills a body up to whole blocks, with at least one byte.
LEMMA PadFills ==
  ASSUME NEW n \in Nat
  PROVE  Pad(n) \in 1..Block /\ (n + Pad(n)) % Block = 0
BY DEF Pad, Block

\* The writes of every encoder are numbers of a width and strings of a length.
LEMMA WritesTyped ==
  ASSUME NEW cmd \in Commands, NEW m \in Nat, NEW n \in Nat, NEW ios \in BOOLEAN
  PROVE  JHeadWrites(cmd, m, n) \in Seq(Write) /\ JCoreWrites(cmd, ios, m, n) \in Seq(Write)
<1>1. \A k \in Nat : Number(k) \in Write /\ App(k) \in Write
  BY DEF Number, App, Text, Write
<1>2. Own \in Write BY DEF Own, Text, Write
<1>3. JHeadWrites(cmd, m, n) \in Seq(Write)
  <2>1. CASE cmd = "register" BY <2>1, <1>1, <1>2 DEF JHeadWrites
  <2>2. CASE cmd = "login" BY <2>2, <1>1, <1>2 DEF JHeadWrites
  <2>3. CASE cmd = "alias" BY <2>3, <1>1, <1>2 DEF JHeadWrites
  <2>4. CASE cmd = "heartbeat" BY <2>4 DEF JHeadWrites
  <2>5. CASE cmd = "pushack" BY <2>5, <1>1 DEF JHeadWrites
  <2> QED BY <2>1, <2>2, <2>3, <2>4, <2>5 DEF Commands
<1>4. JCoreWrites(cmd, ios, m, n) \in Seq(Write)
  <2>1. CASE cmd = "register" /\ ios BY <2>1, <1>1, <1>2 DEF JCoreWrites
  <2>2. CASE cmd = "register" /\ ~ios BY <2>2, <1>1, <1>2 DEF JCoreWrites
  <2>3. CASE cmd = "login" /\ ios BY <2>3, <1>1, <1>2 DEF JCoreWrites
  <2>4. CASE cmd = "alias" BY <2>4, <1>1 DEF JCoreWrites
  <2>5. CASE ~(cmd = "register" \/ cmd = "alias" \/ (cmd = "login" /\ ios))
    BY <2>5, <1>3 DEF JCoreWrites
  <2> QED BY <2>1, <2>2, <2>3, <2>4, <2>5
<1> QED BY <1>3, <1>4

LEMMA FlagInt == Flag \in Int /\ MaxText \in Int
BY SMT DEF Flag, MaxText

LEMMA CaptureLayout == CaptureReads \in Seq(Nat) /\ Len(CaptureReads) = 11
BY DEF CaptureReads

\* A length below the flag is read from a plain and from an encrypted front.
LEMMA FlagBits ==
  ASSUME NEW n \in Int, 1 <= n, n <= Flag - 1
  PROVE  /\ (n % 65536) % Flag = n /\ n % 65536 < Flag
         /\ ((n % Flag) + Flag) % Flag = n /\ (n % Flag) + Flag >= Flag
BY SMT DEF Flag

(***************************************************************************)
(* The steps.                                                              *)
(***************************************************************************)

LEMMA WireInit == Init => WireInv
<1> SUFFICES ASSUME Init PROVE WireInv OBVIOUS
<1>1. PICK m, n \in Sizes : todo = IF codec = "jhead" THEN JHeadWrites(command, m, n)
                                   ELSE JCoreWrites(command, codec = "ios", m, n)
  BY DEF Init
<1>2. m \in Nat /\ n \in Nat BY SizesAssumption
<1>3. TypeInv
  <2>1. (codec = "ios") \in BOOLEAN OBVIOUS
  <2>2. /\ JHeadWrites(command, m, n) \in Seq(Write)
        /\ JCoreWrites(command, codec = "ios", m, n) \in Seq(Write)
    BY <1>2, <2>1, WritesTyped DEF Init
  <2>3. todo \in Seq(Write) BY <1>1, <2>2
  <2>4. frame.size \in Nat BY DEF Init, NoFrame
  <2> QED BY <2>3, <2>4 DEF Init, TypeInv
<1>4. RegisterInv
  <2> SUFFICES ASSUME codec = "ios", command = "register"
               PROVE  /\ Len(body) + Len(todo) = Len(CaptureReads)
                      /\ \A i \in 1..Len(body) : ReadOf(body[i]) = CaptureReads[i]
                      /\ \A i \in 1..Len(todo) :
                           ReadOf(todo[i]) = CaptureReads[Len(body) + i]
    BY DEF RegisterInv
  <2>1. todo = <<App(m), App(n), Own, Own, Own, Number(1), Number(1), Number(1), Own,
                 Number(4), Own>>
    BY <1>1 DEF JCoreWrites
  <2>2. /\ ReadOf(App(m)) = 0 /\ ReadOf(App(n)) = 0 /\ ReadOf(Own) = 0
        /\ ReadOf(Number(1)) = 1 /\ ReadOf(Number(4)) = 4
    BY DEF ReadOf, App, Own, Text, Number
  <2>3. Len(todo) = 11 /\ Len(body) = 0 /\ Len(CaptureReads) = 11
    BY <2>1 DEF Init, CaptureReads
  <2>4. \A i \in 1..11 : ReadOf(todo[i]) = CaptureReads[i]
    BY <2>1, <2>2 DEF CaptureReads
  <2> QED BY <2>3, <2>4
<1> QED BY <1>3, <1>4 DEF Init, WireInv, FieldsInv, FrameInv, OpenedInv, NoFrame

\* The field that Put writes.
NewField == IF Head(todo).kind = "text" THEN TextField(Head(todo).size)
            ELSE NumberField(Head(todo).size)

LEMMA NewFieldRight ==
  ASSUME TypeInv, todo # <<>>
  PROVE  /\ NewField \in Field /\ FieldRight(NewField) /\ NewField.at = Bytes(body)
         /\ ReadOf(NewField) = ReadOf(Head(todo))
<1>1. Head(todo) \in Write BY DEF TypeInv
<1>2. Bytes(body) \in Nat BY BytesNat DEF TypeInv
<1>3. CASE Head(todo).kind = "text"
  BY <1>1, <1>2, <1>3
     DEF NewField, TextField, Field, FieldRight, ReadEnd, ReadOf, Write
<1>4. CASE Head(todo).kind = "number"
  BY <1>1, <1>2, <1>4 DEF NewField, NumberField, Field, FieldRight, ReadEnd, ReadOf, Write
<1> QED BY <1>1, <1>3, <1>4 DEF Write

LEMMA PutStep == WireInv /\ Put => WireInv'
<1> SUFFICES ASSUME WireInv, Put PROVE WireInv' OBVIOUS
<1> USE DEF WireInv
<1>1. /\ todo # <<>> /\ body' = Append(body, NewField) /\ todo' = Tail(todo)
      /\ UNCHANGED <<codec, command, keyJuid, frame, opened>>
  BY DEF Put, NewField
<1>2. /\ NewField \in Field /\ FieldRight(NewField) /\ NewField.at = Bytes(body)
      /\ ReadOf(NewField) = ReadOf(Head(todo))
  BY <1>1, NewFieldRight
<1>3. TypeInv' BY <1>1, <1>2 DEF TypeInv
<1>4. /\ Len(body) \in Nat /\ Len(body') = Len(body) + 1
      /\ body'[Len(body) + 1] = NewField
      /\ \A i \in 1..Len(body) : body'[i] = body[i]
  BY <1>1, <1>2 DEF TypeInv
<1>5. FieldsInv'
  <2> SUFFICES ASSUME NEW i \in 1..Len(body')
               PROVE  /\ FieldRight(body'[i])
                      /\ body'[i].at = IF i = 1 THEN 0
                                       ELSE body'[i - 1].at + body'[i - 1].bytes
    BY DEF FieldsInv, FieldRight, ReadEnd
  <2>1. CASE i \in 1..Len(body)
    <3>1. i # 1 => body'[i - 1] = body[i - 1] BY <2>1, <1>4
    <3> QED BY <2>1, <3>1, <1>4 DEF FieldsInv
  <2>2. CASE i = Len(body) + 1
    <3>1. CASE body = <<>> BY <3>1, <2>2, <1>2, <1>4 DEF Bytes
    <3>2. CASE body # <<>>
      <4>1. Len(body) # 0 BY <3>2 DEF TypeInv
      <4>2. i # 1 /\ body'[i - 1] = body[Len(body)] BY <4>1, <2>2, <1>4
      <4> QED BY <4>2, <3>2, <2>2, <1>2, <1>4 DEF Bytes
    <3> QED BY <3>1, <3>2
  <2> QED BY <2>1, <2>2, <1>4
<1>6. RegisterInv'
  <2> SUFFICES ASSUME codec = "ios", command = "register"
               PROVE  /\ Len(body') + Len(todo') = Len(CaptureReads)
                      /\ \A i \in 1..Len(body') : ReadOf(body'[i]) = CaptureReads[i]
                      /\ \A i \in 1..Len(todo') :
                           ReadOf(todo'[i]) = CaptureReads[Len(body') + i]
    BY <1>1 DEF RegisterInv, ReadOf
  <2>1. /\ Len(todo) \in Nat \ {0} /\ Len(todo') = Len(todo) - 1
        /\ \A i \in 1..Len(todo') : todo'[i] = todo[i + 1]
        /\ Head(todo) = todo[1]
    BY <1>1 DEF TypeInv
  <2>2. Len(body') + Len(todo') = Len(CaptureReads)
    BY <2>1, <1>4, CaptureLayout DEF RegisterInv
  <2>3. ReadOf(NewField) = CaptureReads[Len(body) + 1]
    BY <2>1, <1>2 DEF RegisterInv
  <2>4. ASSUME NEW i \in 1..Len(body') PROVE ReadOf(body'[i]) = CaptureReads[i]
    BY <2>3, <1>4 DEF RegisterInv
  <2>5. ASSUME NEW i \in 1..Len(todo')
        PROVE  ReadOf(todo'[i]) = CaptureReads[Len(body') + i]
    <3>1. i + 1 \in 1..Len(todo) /\ Len(body) + (i + 1) = Len(body') + i BY <2>1, <1>4
    <3> QED BY <3>1, <2>1 DEF RegisterInv
  <2> QED BY <2>2, <2>4, <2>5
<1>7. FrameInv' BY <1>1 DEF FrameInv
<1>8. OpenedInv' BY <1>1 DEF OpenedInv, FrameInv
<1> QED BY <1>3, <1>5, <1>6, <1>7, <1>8

LEMMA FrameStep == WireInv /\ Frame => WireInv'
<1> SUFFICES ASSUME WireInv, Frame PROVE WireInv' OBVIOUS
<1> USE DEF WireInv
<1>1. /\ todo = <<>> /\ UNCHANGED <<codec, command, todo, body, opened>> BY DEF Frame
<1>2. TypeInv'
  <2>1. Bytes(body) \in Nat BY BytesNat DEF TypeInv
  <2>2. Pad(Bytes(body)) \in Nat BY <2>1, PadFills DEF Block
  <2>3. CASE codec = "jhead"
    <3>1. frame'.size = HeadLen + Bytes(body) BY <2>3 DEF Frame, PlainFrame
    <3> QED BY <1>1, <2>1, <3>1 DEF TypeInv, HeadLen
  <2>4. CASE codec # "jhead"
    <3>1. frame'.size = HeadLen + Bytes(body) + Pad(Bytes(body))
      BY <2>4 DEF Frame, EncryptedFrame
    <3> QED BY <1>1, <2>1, <2>2, <3>1 DEF TypeInv, HeadLen
  <2> QED BY <2>3, <2>4
<1>3. FieldsInv' BY <1>1 DEF FieldsInv, FieldRight, ReadEnd
<1>4. RegisterInv' BY <1>1 DEF RegisterInv, ReadOf
<1>5. FrameInv'
  <2>1. /\ Bytes(body)' = Bytes(body) /\ Pad(Bytes(body))' = Pad(Bytes(body))
        /\ HeadNumbers' = HeadNumbers /\ KeySeed' = KeySeed
    BY <1>1 DEF Bytes, Pad, HeadNumbers, KeySeed
  <2>2. /\ frame'.seed = HeadNumbers.seed /\ frame'.juid = HeadNumbers.juid
        /\ frame'.key = <<"transform", KeySeed>>
    BY DEF Frame
  <2>3. ASSUME codec = "jhead" PROVE PlainFront'
    BY <2>1, <2>3 DEF Frame, PlainFrame, PlainFront
  <2>4. ASSUME codec # "jhead" PROVE EncryptedFront'
    BY <2>1, <2>4 DEF Frame, EncryptedFrame, EncryptedFront
  <2> QED BY <1>1, <2>1, <2>2, <2>3, <2>4 DEF FrameInv
<1>6. OpenedInv'
  <2>1. opened = {} BY DEF Frame, OpenedInv
  <2> QED BY <2>1, <1>1 DEF OpenedInv
<1> QED BY <1>2, <1>3, <1>4, <1>5, <1>6

\* The key of a body is derived from the number of the head that its reader takes.
LEMMA HeadTellsKey ==
  ASSUME command \in Commands, codec \in {"android", "ios"}
  PROVE  KeySeed = IF command = "register" THEN HeadNumbers.seed ELSE HeadNumbers.juid
BY DEF KeySeed, HeadNumbers, Commands

LEMMA InspectStep == WireInv /\ Inspect => WireInv'
<1> SUFFICES ASSUME WireInv, Inspect PROVE WireInv' OBVIOUS
<1> USE DEF WireInv
<1>1. /\ frame.size > 0 /\ codec # "jhead"
      /\ UNCHANGED <<codec, command, keyJuid, todo, body, frame>>
  BY DEF Inspect
<1>2. TypeInv' BY <1>1 DEF TypeInv
<1>3. FieldsInv' BY <1>1 DEF FieldsInv, FieldRight, ReadEnd
<1>4. RegisterInv' BY <1>1 DEF RegisterInv, ReadOf
<1>5. FrameInv'
  <2>1. /\ Bytes(body)' = Bytes(body) /\ Pad(Bytes(body))' = Pad(Bytes(body))
        /\ HeadNumbers' = HeadNumbers /\ KeySeed' = KeySeed
    BY <1>1 DEF Bytes, Pad, HeadNumbers, KeySeed
  <2> QED BY <1>1, <2>1 DEF FrameInv, PlainFront, EncryptedFront
<1>7. /\ Bytes(body) \in Nat /\ Pad(Bytes(body)) \in 1..16
      /\ (Bytes(body) + Pad(Bytes(body))) % 16 = 0
  BY BytesNat, PadFills DEF TypeInv, Block
<1>8. /\ frame.size = 24 + Bytes(body) + Pad(Bytes(body))
      /\ frame.pad = Pad(Bytes(body)) /\ frame.key = <<"transform", KeySeed>>
      /\ frame.seed = HeadNumbers.seed /\ frame.juid = HeadNumbers.juid
  BY <1>1 DEF FrameInv, EncryptedFront, HeadLen
<1>9. KeySeed = IF command = "register" THEN frame.seed ELSE frame.juid
  <2>1. codec \in {"android", "ios"} /\ command \in Commands BY <1>1 DEF TypeInv
  <2> QED BY <2>1, <1>8, HeadTellsKey
<1>10. frame.key \in Modes BY <1>8, <1>9 DEF Modes
<1>11. PICK rubbish \in SUBSET Modes :
        opened' = {[offset |-> o, mode |-> m, found |-> Found(o, m, rubbish),
                    length |-> frame.size - o - frame.pad] : o \in Offsets, m \in Modes}
  BY DEF Inspect
<1> DEFINE c == [offset |-> 24, mode |-> frame.key, found |-> Found(24, frame.key, rubbish),
                 length |-> frame.size - 24 - frame.pad]
<1>12. c \in opened' BY <1>10, <1>11 DEF Offsets
<1>13. c.found = "body"
  <2>1. (frame.size - 24) % 16 = 0
    <3>1. frame.size - 24 = Bytes(body) + Pad(Bytes(body)) BY <1>7, <1>8
    <3> QED BY <3>1, <1>7
  <2>2. frame.pad # 0
    <3>1. Pad(Bytes(body)) >= 1 BY <1>7
    <3> QED BY <3>1, <1>8
  <2> QED BY <2>1, <2>2 DEF Found, Block, HeadLen
<1>14. c.length = Bytes(body) BY <1>7, <1>8
<1>15. c.mode = <<"transform", IF command = "register" THEN frame.seed ELSE frame.juid>>
  BY <1>8, <1>9
<1>16. Bytes(body)' = Bytes(body) BY <1>1 DEF Bytes
<1> HIDE DEF c
<1>17. OpenedInv' BY <1>1, <1>12, <1>13, <1>14, <1>15, <1>16 DEF OpenedInv
<1> QED BY <1>2, <1>3, <1>4, <1>5, <1>17

LEMMA Invariance == Spec => []WireInv
<1>1. Init => WireInv BY WireInit
<1>2. WireInv /\ [Next]_vars => WireInv'
  <2>1. ASSUME WireInv, UNCHANGED vars PROVE WireInv'
    <3>1. TypeInv' BY <2>1 DEF WireInv, TypeInv, vars
    <3>2. FieldsInv' BY <2>1 DEF WireInv, FieldsInv, FieldRight, ReadEnd, vars
    <3>3. FrameInv'
      <4>1. /\ Bytes(body)' = Bytes(body) /\ Pad(Bytes(body))' = Pad(Bytes(body))
            /\ HeadNumbers' = HeadNumbers /\ KeySeed' = KeySeed
        BY <2>1 DEF Bytes, Pad, HeadNumbers, KeySeed, vars
      <4> QED BY <2>1, <4>1 DEF WireInv, FrameInv, PlainFront, EncryptedFront, vars
    <3>4. RegisterInv' BY <2>1 DEF WireInv, RegisterInv, ReadOf, vars
    <3>5. OpenedInv' BY <2>1 DEF WireInv, OpenedInv, Bytes, vars
    <3> QED BY <3>1, <3>2, <3>3, <3>4, <3>5 DEF WireInv
  <2> QED BY <2>1, PutStep, FrameStep, InspectStep DEF Next
<1> QED BY <1>1, <1>2, PTL DEF Spec

(***************************************************************************)
(* The theorems.                                                           *)
(***************************************************************************)

\* Whatever an encoder writes (Writer, packet.py:55), a reader that knows the
\* layout finds every field where it is, whole or, if too long, empty.
THEOREM ReadersFindFields == Spec => []FieldsReadBack
<1>1. WireInv => FieldsReadBack
  <2> SUFFICES ASSUME WireInv PROVE FieldsReadBack OBVIOUS
  <2>0. body \in Seq(Field) /\ DOMAIN body = 1..Len(body) BY DEF WireInv, TypeInv
  <2>1. ASSUME NEW i \in DOMAIN body
        PROVE  /\ body[i].at = IF i = 1 THEN 0 ELSE ReadEnd(body[i - 1])
               /\ body[i].kind = "text" =>
                    body[i].says = body[i].size
                      \/ (body[i].says = 0 /\ body[i].size > MaxText)
    <3>1. i # 1 => i - 1 \in 1..Len(body) BY <2>0
    <3> QED BY <2>0, <3>1 DEF WireInv, FieldsInv, FieldRight
  <2>2. ASSUME body # <<>> PROVE Bytes(body) = ReadEnd(body[Len(body)])
    <3>1. Len(body) \in 1..Len(body) BY <2>0, <2>2
    <3> QED BY <3>1, <2>2 DEF Bytes, WireInv, FieldsInv, FieldRight
  <2> QED BY <2>1, <2>2 DEF FieldsReadBack
<1> QED BY <1>1, Invariance, PTL

\* The two bytes in front of a frame of less than 2^15 bytes give its length, and
\* tell an encrypted body, made of whole blocks, from a plain one (Head.encode,
\* JCore473Codec._frame).
THEOREM PrefixesTell == Spec => []PrefixTellsFrame
<1>1. WireInv => PrefixTellsFrame
  <2> SUFFICES ASSUME WireInv, 1 <= frame.size, frame.size <= Flag - 1
               PROVE  /\ frame.prefix % Flag = frame.size
                      /\ frame.prefix >= Flag <=> codec # "jhead"
                      /\ codec # "jhead" => (frame.size - HeadLen) % Block = 0
    BY FlagInt DEF PrefixTellsFrame
  <2>1. /\ Bytes(body) \in Nat /\ Pad(Bytes(body)) \in 1..16
        /\ (Bytes(body) + Pad(Bytes(body))) % 16 = 0
    BY BytesNat, PadFills DEF WireInv, TypeInv, Block
  <2>2. frame.size \in Int /\ frame.size > 0 /\ Flag \in Int
    BY FlagInt DEF WireInv, TypeInv
  <2>3. CASE codec = "jhead"
    <3>1. frame.prefix = frame.size % 65536
      BY <2>2, <2>3, SMT DEF WireInv, FrameInv, PlainFront
    <3>2. frame.prefix % Flag = frame.size /\ frame.prefix < Flag
      BY <3>1, <2>2, FlagBits
    <3>3. frame.prefix \in Int BY <3>1, <2>2, SMT
    <3> QED BY <3>2, <3>3, <2>2, <2>3
  <2>4. CASE codec # "jhead"
    <3>1. /\ frame.prefix = (frame.size % Flag) + Flag
          /\ frame.size = HeadLen + Bytes(body) + Pad(Bytes(body))
      BY <2>2, <2>4, SMT DEF WireInv, FrameInv, EncryptedFront
    <3>2. frame.prefix % Flag = frame.size /\ frame.prefix >= Flag
      BY <3>1, <2>2, FlagBits
    <3>3. frame.size - HeadLen = Bytes(body) + Pad(Bytes(body))
      BY <3>1, <2>1 DEF HeadLen
    <3> QED BY <3>2, <3>3, <2>1, <2>4 DEF Block
  <2> QED BY <2>3, <2>4
<1> QED BY <1>1, Invariance, PTL

\* One of the keys that inspect_frame derives from the head opens every request of
\* a JCore codec, and an iOS register body is written in the order in which
\* decode_ios_register_body reads it (capture.py:115).
THEOREM CapturesOpen == Spec => []InspectionOpens
<1>1. WireInv => InspectionOpens
  <2> SUFFICES ASSUME WireInv, opened # {}, codec = "ios", command = "register"
               PROVE  CaptureReads = [i \in DOMAIN body |-> ReadOf(body[i])]
    BY DEF WireInv, OpenedInv, InspectionOpens
  <2>1. todo = <<>> /\ body \in Seq(Field)
    BY DEF WireInv, OpenedInv, FrameInv, TypeInv
  <2>2. /\ Len(body) = Len(CaptureReads)
        /\ \A i \in 1..Len(body) : ReadOf(body[i]) = CaptureReads[i]
    BY <2>1, CaptureLayout DEF WireInv, RegisterInv
  <2>3. DOMAIN body = 1..Len(CaptureReads) BY <2>1, <2>2
  <2>4. CaptureReads = [i \in 1..Len(CaptureReads) |-> CaptureReads[i]]
    BY CaptureLayout
  <2> QED BY <2>2, <2>3, <2>4
<1> QED BY <1>1, Invariance, PTL
=============================================================================
