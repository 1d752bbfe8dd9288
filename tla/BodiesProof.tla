---------------------------- MODULE BodiesProof ----------------------------
(***************************************************************************)
(* Proofs about Bodies, for all codes and strings a response may carry:    *)
(* what decode returns is what the server wrote, and it returns all of it  *)
(* when the body is whole.                                                 *)
(***************************************************************************)
EXTENDS Bodies, SequenceTheorems, TLAPS

Kinds == {Number(1), Number(2), Number(4), Number(8), Text, Optional}

(***************************************************************************)
(* Layouts.                                                                *)
(***************************************************************************)

\* What a read needs: a number its width, a string the two bytes of its length.
LEMMA KindsTyped ==
  ASSUME NEW r \in Kinds
  PROVE  /\ r.kind = "int" => r.width \in {1, 2, 4, 8}
         /\ r.kind = "optional" <=> r = Optional
BY DEF Kinds, Number, Text, Optional

\* A layout is a list of reads in which only optional ones follow an optional one.
Regular(plan) ==
  /\ plan \in Seq(Kinds)
  /\ \A i, j \in 1..Len(plan) : i <= j /\ plan[i] = Optional => plan[j] = Optional

LEMMA KindsDiffer ==
  /\ \A n \in {1, 2, 4, 8} : Number(n) \in Kinds /\ Number(n) # Optional
  /\ Text \in Kinds /\ Text # Optional /\ Optional \in Kinds
BY DEF Kinds, Number, Text, Optional

LEMMA RegularAfterCode ==
  ASSUME NEW c, NEW cmd, NEW code
  PROVE  Regular(AfterCode(c, cmd, code))
<1> DEFINE last == IF c = "jhead" THEN Text ELSE Optional
<1>1. AfterCode(c, cmd, code) \in
        {<<>>, <<Optional>>, <<Optional, Optional>>,
         <<Number(4), Number(2), Text, Number(4)>>, <<Number(8), Text, Text, last>>}
  BY DEF AfterCode
<1>2. last \in Kinds BY KindsDiffer
<1> HIDE DEF last
<1>3. Regular(<<>>) BY DEF Regular
<1>4. Regular(<<Optional>>) BY KindsDiffer DEF Regular
<1>5. Regular(<<Optional, Optional>>) BY KindsDiffer DEF Regular
<1>6. Regular(<<Number(4), Number(2), Text, Number(4)>>) BY KindsDiffer DEF Regular
<1>7. Regular(<<Number(8), Text, Text, last>>) BY <1>2, KindsDiffer DEF Regular
<1> QED BY <1>1, <1>3, <1>4, <1>5, <1>6, <1>7

LEMMA RegularPlan ==
  ASSUME NEW c \in {"jhead", "jcore"}, NEW cmd \in Commands(c), NEW got
  PROVE  /\ Regular(Plan(c, cmd, got))
         /\ HasCode(cmd) => /\ Len(Plan(c, cmd, got)) \in Nat \ {0}
                            /\ Plan(c, cmd, got)[1] = Number(2)
<1>1. CASE HasCode(cmd) /\ got = <<>>
  <2>1. Plan(c, cmd, got) = <<Number(2)>> BY <1>1 DEF Plan, HasCode
  <2> QED BY <2>1, KindsDiffer DEF Regular
<1>2. CASE HasCode(cmd) /\ got # <<>>
  <2> DEFINE rest == AfterCode(c, cmd, Unpack2(got[1]))
             plan == <<Number(2)>> \o rest
  <2>1. Plan(c, cmd, got) = plan BY <1>2 DEF Plan, HasCode
  <2>2. Regular(rest) BY RegularAfterCode
  <2> HIDE DEF rest
  <2>3. rest \in Seq(Kinds) /\ Number(2) \in Kinds BY <2>2, KindsDiffer DEF Regular
  <2>4. /\ plan \in Seq(Kinds) /\ Len(plan) = Len(rest) + 1 /\ Len(rest) \in Nat
        /\ plan[1] = Number(2)
    BY <2>3
  <2>5. \A i \in 2..Len(plan) : i - 1 \in 1..Len(rest) /\ plan[i] = rest[i - 1]
    BY <2>3, <2>4
  <2> HIDE DEF plan
  <2>6. ASSUME NEW i \in 1..Len(plan), NEW j \in 1..Len(plan), i <= j, plan[i] = Optional
        PROVE  plan[j] = Optional
    <3>1. i # 1 BY <2>4, <2>6, KindsDiffer
    <3>2. i \in 2..Len(plan) /\ j \in 2..Len(plan) BY <2>4, <2>6, <3>1
    <3>3. i - 1 <= j - 1 BY <2>6
    <3> QED BY <2>2, <2>5, <2>6, <3>2, <3>3 DEF Regular
  <2> QED BY <2>1, <2>4, <2>6 DEF Regular
<1>3. CASE ~HasCode(cmd)
  <2>1. cmd \in {"push", "ack", "alias2"} BY <1>3 DEF Commands, HasCode
  <2>2. Plan(c, cmd, got) \in
          {<<Number(1), Number(8), Text>>, <<Number(1), Number(1), Number(1), Number(8)>>,
           <<Text>>}
    BY <1>3, <2>1 DEF Plan, HasCode
  <2>3. Regular(<<Number(1), Number(8), Text>>) BY KindsDiffer DEF Regular
  <2>4. Regular(<<Number(1), Number(1), Number(1), Number(8)>>) BY KindsDiffer DEF Regular
  <2>5. Regular(<<Text>>) BY KindsDiffer DEF Regular
  <2> QED BY <1>3, <2>2, <2>3, <2>4, <2>5
<1> QED BY <1>1, <1>2, <1>3

\* The layout is known from the first value, if it depends on any.
LEMMA FirstDecides ==
  ASSUME NEW c \in {"jhead", "jcore"}, NEW cmd \in Commands(c), NEW got1, NEW got2,
         HasCode(cmd) => got1 # <<>> /\ got2 # <<>> /\ got1[1] = got2[1]
  PROVE  Plan(c, cmd, got1) = Plan(c, cmd, got2)
<1>1. CASE HasCode(cmd) BY <1>1 DEF Plan, HasCode
<1>2. CASE ~HasCode(cmd)
  <2>1. cmd \in {"push", "ack", "alias2"} BY <1>2 DEF Commands, HasCode
  <2> QED BY <1>2, <2>1 DEF Plan, HasCode
<1> QED BY <1>1, <1>2

(***************************************************************************)
(* Bytes.                                                                  *)
(***************************************************************************)

LEMMA PackLength ==
  ASSUME NEW n \in Nat, n <= 65535
  PROVE  /\ Pack2(n) \in Seq(Byte) /\ Len(Pack2(n)) = 2
         /\ 256 * Pack2(n)[1] + Pack2(n)[2] = n
<1>1. n % 65536 = n BY SMT
<1>2. Pack2(n) = <<n \div 256, n % 256>> BY <1>1 DEF Pack2
<1>3. /\ n \div 256 \in Nat /\ n \div 256 <= 255
      /\ n % 256 \in Nat /\ n % 256 <= 255
  BY SMT
<1>4. 256 * (n \div 256) + (n % 256) = n BY SMT
<1> QED BY <1>2, <1>3, <1>4 DEF Byte

LEMMA PackCode ==
  ASSUME NEW n \in Int
  PROVE  Pack2(n) \in Seq(Byte) /\ Len(Pack2(n)) = 2
<1>1. n % 65536 >= 0 /\ n % 65536 < 65536 /\ n % 65536 \in Int BY SMT
<1>2. ASSUME NEW u \in Int, u >= 0, u < 65536
      PROVE  u \div 256 \in 0..255 /\ u % 256 \in 0..255
  BY <1>2, SMT
<1>3. Pack2(n) = <<(n % 65536) \div 256, (n % 65536) % 256>> BY DEF Pack2
<1> QED BY <1>1, <1>2, <1>3 DEF Byte

\* n bytes that follow the first a ones.
LEMMA Slice ==
  ASSUME NEW s \in Seq(Byte), NEW a \in Nat, NEW n \in Nat, a + n <= Len(s)
  PROVE  /\ SubSeq(s, a + 1, a + n) \in Seq(Byte) /\ Len(SubSeq(s, a + 1, a + n)) = n
         /\ \A i \in 1..n : SubSeq(s, a + 1, a + n)[i] = s[a + i]
<1>1. /\ a + 1 \in Int /\ a + n \in Int /\ (a + n) - (a + 1) + 1 = n
      /\ \A i \in 1..n : (a + 1) + i - 1 = a + i
      /\ IF a + 1 <= a + n THEN n >= 1 ELSE n = 0
  OBVIOUS
<1>2. \A i \in a + 1 .. a + n : s[i] \in Byte
  <2> TAKE i \in a + 1 .. a + n
  <2>1. i \in 1..Len(s) OBVIOUS
  <2> QED BY <2>1, ElementOfSeq
<1>3. /\ SubSeq(s, a + 1, a + n) \in Seq(Byte)
      /\ Len(SubSeq(s, a + 1, a + n)) =
           IF a + 1 <= a + n THEN (a + n) - (a + 1) + 1 ELSE 0
      /\ \A i \in 1 .. (a + n) - (a + 1) + 1 :
           SubSeq(s, a + 1, a + n)[i] = s[(a + 1) + i - 1]
  BY <1>1, <1>2, SubSeqProperties
<1> QED BY <1>1, <1>3

\* Two bytes in front of others, and what is behind them.
LEMMA TwoInFront ==
  ASSUME NEW p \in Seq(Byte), NEW t \in Seq(Byte), Len(p) = 2
  PROVE  /\ p \o t \in Seq(Byte) /\ Len(p \o t) = 2 + Len(t)
         /\ (p \o t)[1] = p[1] /\ (p \o t)[2] = p[2]
         /\ SubSeq(p \o t, 3, 2 + Len(t)) = t
<1> DEFINE q == p \o t
           s == SubSeq(q, 3, 2 + Len(t))
<1>1. /\ q \in Seq(Byte) /\ Len(q) = Len(p) + Len(t)
      /\ \A i \in 1 .. Len(p) + Len(t) : q[i] = IF i <= Len(p) THEN p[i] ELSE t[i - Len(p)]
  BY ConcatProperties
<1> HIDE DEF q
<1>2. Len(t) \in Nat OBVIOUS
<1>3. q[1] = p[1] /\ q[2] = p[2]
  <2>1. 1 \in 1..Len(p) + Len(t) /\ 2 \in 1..Len(p) + Len(t) BY <1>2
  <2> QED BY <1>1, <2>1
<1>4. \A i \in 1..Len(t) : q[2 + i] = t[i]
  <2> TAKE i \in 1..Len(t)
  <2>1. 2 + i \in 1..Len(p) + Len(t) /\ ~(2 + i <= Len(p)) /\ 2 + i - Len(p) = i BY <1>2
  <2> QED BY <1>1, <2>1
<1>5. s \in Seq(Byte) /\ Len(s) = Len(t) /\ \A i \in 1..Len(t) : s[i] = q[2 + i]
  <2>1. Len(q) = 2 + Len(t) BY <1>1
  <2>2. 2 + 1 = 3 OBVIOUS
  <2> QED BY <1>1, <1>2, <2>1, <2>2, Slice
<1>6. \A i \in 1..Len(s) : s[i] = t[i] BY <1>4, <1>5
<1> HIDE DEF s
<1>7. s = t BY <1>5, <1>6, SeqEqual
<1> QED BY <1>1, <1>3, <1>7 DEF q, s

\* The length in front of a string is that of the string.
LEMMA TlvBytes ==
  ASSUME NEW t \in Texts
  PROVE  /\ Tlv(t) \in Seq(Byte) /\ Len(Tlv(t)) = 2 + Len(t) /\ Len(t) \in Nat
         /\ Length(Tlv(t)) = Len(t)
         /\ SubSeq(Tlv(t), 3, Len(Tlv(t))) = t
<1>1. t \in Seq(Byte) /\ Len(t) \in Nat /\ Len(t) <= 65535 BY TextsAssumption, SMT
<1> DEFINE p == Pack2(Len(t))
<1>2. p \in Seq(Byte) /\ Len(p) = 2 /\ 256 * p[1] + p[2] = Len(t) BY <1>1, PackLength
<1>3. Tlv(t) = p \o t BY DEF Tlv
<1> HIDE DEF p
<1>4. /\ p \o t \in Seq(Byte) /\ Len(p \o t) = 2 + Len(t)
      /\ (p \o t)[1] = p[1] /\ (p \o t)[2] = p[2]
      /\ SubSeq(p \o t, 3, 2 + Len(t)) = t
  <2> HIDE DEF p
  <2>1. p \in Seq(Byte) /\ t \in Seq(Byte) /\ Len(p) = 2 BY <1>1, <1>2
  <2> QED BY <2>1, TwoInFront
<1> QED BY <1>1, <1>2, <1>3, <1>4 DEF Length

(***************************************************************************)
(* The invariants.                                                         *)
(***************************************************************************)

\* What a server writes for a read.
Fits(b, r) ==
  /\ b \in Seq(Byte)
  /\ r.kind = "int" => Len(b) = r.width
  /\ r.kind # "int" => \E t \in Texts : b = Tlv(t)

\* Where the i-th field begins, or the body ends.
StartOf(i) == IF i <= Len(fields) THEN starts[i] ELSE Len(body)

\* The fields follow the layout and lie one behind the other in the body.
ServerInv ==
  /\ fields \in Seq(Seq(Byte)) /\ starts \in Seq(Nat) /\ body \in Seq(Byte)
  /\ Len(starts) = Len(fields) /\ Len(fields) <= Len(Layout)
  /\ StartOf(1) = 0
  /\ \A i \in 1..Len(fields) :
       /\ Fits(fields[i], Layout[i])
       /\ StartOf(i) + Len(fields[i]) = StartOf(i + 1)
       /\ \A j \in 1..Len(fields[i]) : body[StartOf(i) + j] = fields[i][j]
  /\ \A i \in 1..Len(fields) + 1 : StartOf(i) \in Nat /\ StartOf(i) <= Len(body)

\* Only optional fields were left off, and the frame holds the front of the body.
FrameInv ==
  outcome # "writing" =>
    /\ \A i \in Len(fields) + 1 .. Len(Layout) : Layout[i] = Optional
    /\ Len(buf) <= Len(body)
    /\ \A j \in 1..Len(buf) : buf[j] = body[j]

ReaderInv ==
  /\ values \in Seq(Seq(Byte))
  /\ outcome = "writing" => buf = <<>> /\ pos = 0 /\ ~error /\ done = 0 /\ values = <<>>
  /\ outcome = "returned" => ~error /\ done = Len(Reads)
  /\ outcome = "raised" => error /\ done = Len(Reads)

\* The reads that were done returned the first fields, and the cursor is where the
\* next one begins; what was passed over are optional strings, with no room left.
InStep ==
  /\ Len(values) <= Len(fields) /\ \A i \in 1..Len(values) : values[i] = fields[i]
  /\ pos = StartOf(Len(values) + 1)
  /\ error <=> \E i \in 1..Len(values) : IsMalformed(i)
  /\ done # Len(values) =>
       /\ done > Len(values) /\ Remaining < 2
       /\ \A i \in Len(values) + 1 .. Len(Reads) : Reads[i] = Optional

\* Decoding stays in step until a read finds too little of the body.
StepInv == outcome # "writing" => InStep \/ (error /\ Len(buf) < Len(body))

BodiesInv == TypeOK /\ ServerInv /\ FrameInv /\ ReaderInv /\ StepInv

(***************************************************************************)
(* What the server does.                                                   *)
(***************************************************************************)

LEMMA BodiesInit == Init => BodiesInv
<1> SUFFICES ASSUME Init PROVE BodiesInv OBVIOUS
<1>1. /\ codec \in {"jhead", "jcore"} /\ command \in Commands(codec)
      /\ fields = <<>> /\ starts = <<>> /\ body = <<>>
      /\ buf = <<>> /\ pos = 0 /\ error = FALSE /\ done = 0 /\ values = <<>>
      /\ outcome = "writing"
  BY DEF Init
<1>2. Len(Reads) \in Nat /\ Len(Layout) \in Nat
  BY <1>1, RegularPlan DEF Reads, Layout, Regular
<1>3. TypeOK
  <2>1. <<>> \in Seq(Byte) /\ Len(<<>>) = 0 OBVIOUS
  <2>2. buf \in Seq(Byte) /\ pos \in 0..Len(buf) BY <1>1, <2>1
  <2>3. done \in 0..Len(Reads) BY <1>1, <1>2
  <2>4. \A i \in 1..Len(values) : values[i] \in Seq(Byte) BY <1>1
  <2>5. fields \in Seq(Seq(Byte)) /\ starts \in Seq(Nat) /\ body \in Seq(Byte)
    BY <1>1
  <2>6. outcome \in {"writing", "reading", "returned", "raised"} /\ error \in BOOLEAN
    BY <1>1
  <2> QED BY <1>1, <2>2, <2>3, <2>4, <2>5, <2>6 DEF TypeOK
<1>4. ServerInv
  <2>1. StartOf(1) = 0 BY <1>1 DEF StartOf
  <2> QED BY <1>1, <1>2, <2>1 DEF ServerInv
<1> QED BY <1>1, <1>3, <1>4 DEF BodiesInv, FrameInv, ReaderInv, StepInv

\* What a server may write fits the read.
LEMMA WrittenFits ==
  ASSUME NEW r \in Kinds, NEW b \in Written(r)
  PROVE  Fits(b, r)
<1>1. CASE r.kind = "int"
  <2>1. r.width \in {1, 2, 4, 8} BY <1>1, KindsTyped
  <2>2. Juid \in Seq(Byte) /\ Len(Juid) = 8 BY JuidAssumption
  <2>3. Int4 \in Seq(Byte) /\ Len(Int4) = 4 BY DEF Int4, Byte
  <2>4. /\ <<0, 3>> \in Seq(Byte) /\ Len(<<0, 3>>) = 2
        /\ <<1>> \in Seq(Byte) /\ Len(<<1>>) = 1
    BY DEF Byte
  <2>5. b = CASE r.width = 8 -> Juid [] r.width = 4 -> Int4
              [] r.width = 2 -> <<0, 3>> [] r.width = 1 -> <<1>>
    BY <1>1 DEF Written
  <2> QED BY <1>1, <2>1, <2>2, <2>3, <2>4, <2>5 DEF Fits
<1>2. CASE r.kind # "int"
  <2>1. PICK t \in Texts : b = Tlv(t) BY <1>2 DEF Written
  <2> QED BY <1>2, <2>1, TlvBytes DEF Fits
<1> QED BY <1>1, <1>2

\* Only what decides the rest of a layout is read from what is written.
LEMMA LayoutGrows ==
  ASSUME TypeOK, ServerInv, NEW b \in Seq(Byte), fields' = Append(fields, b),
         UNCHANGED <<codec, command>>
  PROVE  /\ \A i \in 1 .. Len(fields) + 1 : i <= Len(Layout) => Layout'[i] = Layout[i]
         /\ Len(fields) + 1 <= Len(Layout) => Len(fields) + 1 <= Len(Layout')
<1>1. fields \in Seq(Seq(Byte)) /\ fields' # <<>> BY AppendProperties DEF ServerInv
<1>2. codec \in {"jhead", "jcore"} /\ command \in Commands(codec) BY DEF TypeOK
<1>3. Layout' = Plan(codec, command, fields') BY DEF Layout
<1>4. CASE HasCode(command) /\ fields = <<>>
  <2>1. /\ Len(Layout) \in Nat \ {0} /\ Layout[1] = Number(2)
        /\ Len(Layout') \in Nat \ {0} /\ Layout'[1] = Number(2)
    BY <1>2, <1>3, <1>4, RegularPlan DEF Layout
  <2> QED BY <1>4, <2>1
<1>5. CASE HasCode(command) /\ fields # <<>>
  <2>1. fields'[1] = fields[1]
    <3>1. 1 \in 1..Len(fields) BY <1>1, <1>5
    <3> QED BY <1>1, <3>1, AppendProperties
  <2>2. Layout' = Layout BY <1>1, <1>2, <1>3, <1>5, <2>1, FirstDecides DEF Layout
  <2> QED BY <2>2
<1>6. CASE ~HasCode(command)
  <2>1. Layout' = Layout BY <1>2, <1>3, <1>6, FirstDecides DEF Layout
  <2> QED BY <2>1
<1> QED BY <1>4, <1>5, <1>6

\* A command of the server's is an integer: stated apart, of any interval, since
\* the solver is slow on the bounds of a signed 16-bit field.
LEMMA IntervalOfIntegers == \A lo, hi \in Int : lo..hi \subseteq Int
OBVIOUS

LEMMA CodesAreIntegers == \A code \in Codes : code \in Int
<1>1. -32768 \in Int /\ 32767 \in Int OBVIOUS
<1>2. Int16 \subseteq Int
  <2> DEFINE lo == -32768
             hi == 32767
  <2>1. lo \in Int /\ hi \in Int BY <1>1
  <2>2. Int16 = lo..hi BY DEF Int16
  <2> HIDE DEF lo, hi
  <2>3. lo..hi \subseteq Int BY <2>1, IntervalOfIntegers
  <2> QED BY <2>2, <2>3
<1> QED BY <1>2, CodesAssumption

LEMMA WriteFieldStep == BodiesInv /\ WriteField => BodiesInv'
<1> SUFFICES ASSUME BodiesInv, WriteField PROVE BodiesInv' OBVIOUS
<1> USE DEF BodiesInv
<1>1. /\ outcome = "writing" /\ Len(fields) < Len(Layout)
      /\ UNCHANGED <<codec, command, buf, pos, error, done, values, outcome>>
  BY DEF WriteField, reader
<1>2. PICK b \in IF HasCode(command) /\ fields = <<>> THEN {Pack2(code) : code \in Codes}
                 ELSE Written(Layout[Len(fields) + 1]) :
        /\ fields' = Append(fields, b) /\ starts' = Append(starts, Len(body))
        /\ body' = body \o b
  BY DEF WriteField
<1>3. /\ codec \in {"jhead", "jcore"} /\ command \in Commands(codec)
      /\ fields \in Seq(Seq(Byte)) /\ starts \in Seq(Nat) /\ body \in Seq(Byte)
      /\ Len(starts) = Len(fields) /\ Len(fields) \in Nat /\ Len(body) \in Nat
  BY DEF TypeOK, ServerInv
<1>4. /\ Layout \in Seq(Kinds) /\ Len(Layout) \in Nat
      /\ HasCode(command) => Layout[1] = Number(2)
  BY <1>3, RegularPlan DEF Layout, Regular
<1>5. Layout[Len(fields) + 1] \in Kinds
  <2>1. Len(fields) + 1 \in 1..Len(Layout) BY <1>1, <1>3, <1>4
  <2> QED BY <1>4, <2>1, ElementOfSeq
<1>6. Fits(b, Layout[Len(fields) + 1])
  <2>1. CASE HasCode(command) /\ fields = <<>>
    <3>1. PICK code \in Codes : b = Pack2(code) BY <1>2, <2>1
    <3>2. code \in Int BY CodesAreIntegers
    <3>3. b \in Seq(Byte) /\ Len(b) = 2 BY <3>1, <3>2, PackCode
    <3>4. Layout[Len(fields) + 1] = Number(2) BY <1>4, <2>1
    <3> QED BY <3>3, <3>4 DEF Fits, Number
  <2>2. CASE ~(HasCode(command) /\ fields = <<>>)
    BY <1>2, <1>5, <2>2, WrittenFits
  <2> QED BY <2>1, <2>2
<1>7. b \in Seq(Byte) /\ Len(b) \in Nat BY <1>6 DEF Fits
<1>8. /\ fields' \in Seq(Seq(Byte)) /\ Len(fields') = Len(fields) + 1
      /\ \A i \in 1..Len(fields) : fields'[i] = fields[i]
      /\ fields'[Len(fields) + 1] = b
  BY <1>2, <1>3, <1>7, AppendProperties
<1>9. /\ starts' \in Seq(Nat) /\ Len(starts') = Len(fields) + 1
      /\ \A i \in 1..Len(fields) : starts'[i] = starts[i]
      /\ starts'[Len(fields) + 1] = Len(body)
  BY <1>2, <1>3, AppendProperties
<1>10. /\ body' \in Seq(Byte) /\ Len(body') = Len(body) + Len(b)
       /\ \A j \in 1 .. Len(body) + Len(b) :
            body'[j] = IF j <= Len(body) THEN body[j] ELSE b[j - Len(body)]
  BY <1>2, <1>3, <1>7, ConcatProperties
<1>11. /\ \A i \in 1 .. Len(fields) + 1 : Layout'[i] = Layout[i]
       /\ Len(fields) + 1 <= Len(Layout')
  <2>1. /\ \A i \in 1 .. Len(fields) + 1 : i <= Len(Layout) => Layout'[i] = Layout[i]
        /\ Len(fields) + 1 <= Len(Layout) => Len(fields) + 1 <= Len(Layout')
    BY <1>1, <1>2, <1>7, LayoutGrows
  <2> QED BY <1>1, <1>3, <1>4, <2>1
<1>12. PICK n \in Nat : n = Len(fields) BY <1>3
<1>13. /\ Len(fields') = n + 1 /\ StartOf(n + 2)' = Len(body) + Len(b)
       /\ StartOf(n + 1)' = Len(body) /\ StartOf(n + 1) = Len(body)
       /\ \A i \in 1..n : StartOf(i)' = StartOf(i)
  <2>1. Len(fields') = n + 1 BY <1>8, <1>12
  <2>2. ~(n + 2 <= n + 1) /\ n + 1 <= n + 1 /\ ~(n + 1 <= n) BY <1>12
  <2>3. StartOf(n + 2)' = Len(body') BY <2>1, <2>2 DEF StartOf
  <2>4. StartOf(n + 1)' = starts'[n + 1] BY <2>1, <2>2 DEF StartOf
  <2>5. StartOf(n + 1) = Len(body) BY <1>12, <2>2 DEF StartOf
  <2>6. ASSUME NEW i \in 1..n PROVE StartOf(i)' = StartOf(i)
    <3>1. i <= n + 1 /\ i <= n BY <1>12
    <3>2. StartOf(i)' = starts'[i] /\ StartOf(i) = starts[i]
      BY <3>1, <2>1, <1>12 DEF StartOf
    <3> QED BY <3>2, <1>9, <1>12
  <2> QED BY <2>1, <2>3, <2>4, <2>5, <2>6, <1>9, <1>10, <1>12
<1>14. \A i \in 1 .. Len(fields) + 1 : StartOf(i) \in Nat /\ StartOf(i) <= Len(body)
  BY DEF ServerInv
<1>15. ASSUME NEW i \in 1..Len(fields')
       PROVE  /\ Fits(fields'[i], Layout'[i])
              /\ StartOf(i)' + Len(fields'[i]) = StartOf(i + 1)'
              /\ \A j \in 1..Len(fields'[i]) : body'[StartOf(i)' + j] = fields'[i][j]
  <2>1. CASE i \in 1..n
    <3>1. i \in 1..Len(fields) BY <2>1, <1>12
    <3>2. /\ Fits(fields[i], Layout[i])
          /\ StartOf(i) + Len(fields[i]) = StartOf(i + 1)
          /\ \A j \in 1..Len(fields[i]) : body[StartOf(i) + j] = fields[i][j]
      BY <3>1 DEF ServerInv
    <3>3. i \in 1..Len(fields) + 1 /\ i + 1 \in 1..Len(fields) + 1 BY <3>1, <1>3
    <3>4. StartOf(i + 1)' = StartOf(i + 1)
      <4>1. i + 1 \in 1..n \/ i + 1 = n + 1 BY <2>1, <1>12
      <4> QED BY <4>1, <1>13
    <3>5. /\ StartOf(i)' = StartOf(i) /\ StartOf(i) \in Nat
          /\ StartOf(i + 1) <= Len(body) /\ StartOf(i + 1) \in Nat
          /\ fields'[i] = fields[i] /\ Layout'[i] = Layout[i]
      BY <2>1, <3>1, <3>3, <1>8, <1>11, <1>13, <1>14
    <3>6. ASSUME NEW j \in 1..Len(fields[i]) PROVE body'[StartOf(i) + j] = fields[i][j]
      <4>1. Len(fields[i]) \in Nat BY <3>2 DEF Fits
      <4>2. StartOf(i) + Len(fields[i]) <= Len(body) BY <3>2, <3>5
      <4>3. StartOf(i) \in Nat /\ Len(body) \in Nat /\ Len(b) \in Nat BY <3>5, <1>3, <1>7
      <4>4. /\ StartOf(i) + j \in 1..Len(body) + Len(b)
            /\ StartOf(i) + j <= Len(body)
        BY <4>1, <4>2, <4>3
      <4> QED BY <4>4, <3>2, <1>10
    <3> QED BY <3>2, <3>4, <3>5, <3>6
  <2>2. CASE i = n + 1
    <3>1. i = Len(fields) + 1 /\ i + 1 = n + 2 BY <2>2, <1>12
    <3>2. i \in 1 .. Len(fields) + 1 BY <3>1, <1>3
    <3>3. fields'[i] = b /\ Layout'[i] = Layout[i] BY <3>1, <3>2, <1>8, <1>11
    <3>4. StartOf(i)' = Len(body) /\ StartOf(i + 1)' = Len(body) + Len(b)
      BY <2>2, <3>1, <1>13
    <3>5. ASSUME NEW j \in 1..Len(b) PROVE body'[Len(body) + j] = b[j]
      <4>1. /\ Len(body) + j \in 1 .. Len(body) + Len(b)
            /\ ~(Len(body) + j <= Len(body)) /\ Len(body) + j - Len(body) = j
        BY <1>3, <1>7
      <4> QED BY <4>1, <1>10
    <3> QED BY <3>1, <3>3, <3>4, <3>5, <1>6
  <2> QED BY <2>1, <2>2, <1>12, <1>13
<1>16. ASSUME NEW i \in 1 .. Len(fields') + 1
       PROVE  StartOf(i)' \in Nat /\ StartOf(i)' <= Len(body')
  <2>1. Len(body) \in Nat /\ Len(body') = Len(body) + Len(b) /\ Len(b) \in Nat
    BY <1>3, <1>7, <1>10
  <2>2. CASE i \in 1..n
    <3>1. i \in 1 .. Len(fields) + 1 BY <2>2, <1>12
    <3>2. StartOf(i) \in Nat /\ StartOf(i) <= Len(body) BY <3>1, <1>14
    <3> QED BY <2>1, <2>2, <3>2, <1>13
  <2>3. CASE i = n + 1 BY <2>1, <2>3, <1>13
  <2>4. CASE i = n + 2 BY <2>1, <2>4, <1>13
  <2> QED BY <2>2, <2>3, <2>4, <1>12, <1>13
<1>17. ServerInv'
  <2>1. StartOf(1)' = 0
    <3>1. StartOf(1) = 0 BY DEF ServerInv
    <3>2. 1 \in 1..n \/ 1 = n + 1 BY <1>12
    <3> QED BY <3>1, <3>2, <1>13
  <2> QED BY <1>8, <1>9, <1>10, <1>11, <1>15, <1>16, <2>1 DEF ServerInv, Fits
<1>18. Reads' = Reads BY <1>1 DEF Reads
<1>19. TypeOK' BY <1>1, <1>8, <1>9, <1>10, <1>18 DEF TypeOK
<1>20. ReaderInv' /\ FrameInv' /\ StepInv'
  BY <1>1, <1>18 DEF ReaderInv, FrameInv, StepInv
<1> QED BY <1>17, <1>19, <1>20

LEMMA DeliverStep == BodiesInv /\ Deliver => BodiesInv'
<1> SUFFICES ASSUME BodiesInv, Deliver PROVE BodiesInv' OBVIOUS
<1> USE DEF BodiesInv
<1>1. /\ outcome = "writing" /\ outcome' = "reading"
      /\ \A i \in Len(fields) + 1 .. Len(Layout) : Layout[i] = Optional
      /\ UNCHANGED <<codec, command, server, pos, error, done, values>>
  BY DEF Deliver
<1>2. PICK size \in 0..Len(body) : buf' = SubSeq(body, 1, size) BY DEF Deliver
<1>3. body \in Seq(Byte) /\ Len(body) \in Nat BY DEF ServerInv
<1>4. /\ buf' \in Seq(Byte) /\ Len(buf') = size
      /\ \A j \in 1..size : buf'[j] = body[j]
  <2>1. size \in Nat /\ 0 + size <= Len(body) /\ 0 + 1 = 1 /\ 0 + size = size BY <1>3
  <2>2. /\ SubSeq(body, 0 + 1, 0 + size) \in Seq(Byte)
        /\ Len(SubSeq(body, 0 + 1, 0 + size)) = size
        /\ \A j \in 1..size : SubSeq(body, 0 + 1, 0 + size)[j] = body[0 + j]
    BY <2>1, <1>3, Slice
  <2>3. \A j \in 1..size : 0 + j = j OBVIOUS
  <2> QED BY <2>1, <2>2, <2>3, <1>2
<1>5. Layout' = Layout /\ Reads' = Reads /\ \A i : StartOf(i)' = StartOf(i)
  BY <1>1 DEF Layout, Reads, StartOf, server
<1>6. /\ buf = <<>> /\ pos = 0 /\ ~error /\ done = 0 /\ values = <<>>
  BY <1>1 DEF ReaderInv
<1>7. TypeOK'
  <2>1. pos' \in 0..Len(buf') BY <1>1, <1>4, <1>6
  <2> QED BY <1>1, <1>4, <1>5, <2>1 DEF TypeOK, server
<1>8. ServerInv' BY <1>1, <1>5 DEF ServerInv, server
<1>9. FrameInv'
  <2>1. Len(buf') <= Len(body) BY <1>3, <1>4
  <2> QED BY <1>1, <1>4, <1>5, <2>1 DEF FrameInv, server
<1>10. ReaderInv' BY <1>1 DEF ReaderInv
<1>11. InStep'
  <2>1. Len(values) = 0 /\ 0 <= Len(fields) BY <1>6 DEF ServerInv
  <2>2. pos = StartOf(Len(values) + 1) BY <1>6, <2>1 DEF ServerInv
  <2>3. values' = values /\ fields' = fields /\ pos' = pos /\ error' = error /\ done' = done
    BY <1>1 DEF server
  <2>4. StartOf(Len(values) + 1)' = StartOf(Len(values) + 1)
    BY <1>1, <2>3 DEF StartOf, server
  <2>5. done' = Len(values') /\ Len(values') <= Len(fields') /\ 1..Len(values') = {}
    BY <1>6, <2>1, <2>3
  <2> QED BY <1>6, <2>2, <2>3, <2>4, <2>5 DEF InStep
<1> QED BY <1>7, <1>8, <1>9, <1>10, <1>11 DEF StepInv

(***************************************************************************)
(* What a read does.                                                       *)
(***************************************************************************)

LEMMA EmptyTlv == Tlv(<<>>) \in Seq(Byte)
<1>1. Pack2(0) \in Seq(Byte) BY PackCode
<1> QED BY <1>1, ConcatEmptySeq DEF Tlv

LEMMA ZeroBytes == ASSUME NEW n \in Nat PROVE Zero(n) \in Seq(Byte)
<1>1. 0 \in Byte BY DEF Byte
<1> QED BY <1>1 DEF Zero

\* The bytes at the cursor.
LEMMA AtCursor ==
  ASSUME TypeOK, NEW n \in Nat, n <= Remaining
  PROVE  /\ At(n) \in Seq(Byte) /\ Len(At(n)) = n
         /\ \A j \in 1..n : At(n)[j] = buf[pos + j]
<1>1. buf \in Seq(Byte) /\ pos \in Nat /\ pos + n <= Len(buf)
  BY DEF TypeOK, Remaining
<1> QED BY <1>1, Slice DEF At

\* The length of a string is that of no more than two bytes.
LEMMA LengthNat ==
  ASSUME NEW b \in Seq(Byte), Len(b) = 2
  PROVE  Length(b) \in Nat
<1>1. b[1] \in Byte /\ b[2] \in Byte BY ElementOfSeq
<1>2. \A x \in Byte : x \in Nat BY DEF Byte
<1>3. b[1] \in Nat /\ b[2] \in Nat BY <1>1, <1>2
<1> QED BY <1>3 DEF Length

\* The read that comes next.
NextRead == Reads[done + 1]

LEMMA NextReadKind ==
  ASSUME TypeOK, done < Len(Reads)
  PROVE  NextRead \in Kinds
<1>1. Reads \in Seq(Kinds) BY RegularPlan DEF TypeOK, Reads, Regular
<1>2. done + 1 \in 1..Len(Reads) BY <1>1 DEF TypeOK
<1> QED BY <1>1, <1>2, ElementOfSeq DEF NextRead

\* No read passes the end of the body.
LEMMA ReadStays ==
  ASSUME TypeOK, Read
  PROVE  \E v \in Seq(Byte), n \in Nat, g \in BOOLEAN : n <= Remaining /\ Step(v, n, g)
<1>1. Remaining \in Nat BY DEF Remaining, TypeOK
<1>2. NextRead \in Kinds BY NextReadKind DEF Read
<1>3. CASE NextRead.kind = "int"
  <2>1. NextRead.width \in Nat BY <1>2, <1>3, KindsTyped
  <2>2. ReadInt(NextRead.width) BY <1>3 DEF Read, NextRead
  <2>3. CASE Remaining < NextRead.width
    <3>1. Step(Zero(NextRead.width), 0, FALSE) BY <2>2, <2>3 DEF ReadInt
    <3>2. Zero(NextRead.width) \in Seq(Byte) BY <2>1, ZeroBytes
    <3>3. 0 \in Nat /\ 0 <= Remaining /\ FALSE \in BOOLEAN BY <1>1
    <3> QED BY <3>1, <3>2, <3>3, Zenon
  <2>4. CASE ~(Remaining < NextRead.width)
    <3>1. Step(At(NextRead.width), NextRead.width, TRUE) BY <2>2, <2>4 DEF ReadInt
    <3>2. NextRead.width <= Remaining BY <2>1, <2>4, <1>1
    <3> QED BY <3>1, <3>2, <2>1, AtCursor
  <2> QED BY <2>3, <2>4
<1>4. CASE NextRead.kind # "int"
  <2>1. ReadText BY <1>4 DEF Read, NextRead
  <2>2. CASE Remaining < 2
    <3>1. Step(Tlv(<<>>), 0, FALSE) BY <2>1, <2>2 DEF ReadText
    <3>2. 0 \in Nat /\ 0 <= Remaining /\ FALSE \in BOOLEAN BY <1>1
    <3> QED BY <3>1, <3>2, EmptyTlv, Zenon
  <2>3. CASE ~(Remaining < 2)
    <3> DEFINE size == 2 + Length(At(2))
    <3>1. 2 <= Remaining BY <2>3, <1>1
    <3>2. At(2) \in Seq(Byte) /\ Len(At(2)) = 2 BY <3>1, AtCursor
    <3>3. size \in Nat BY <3>2, LengthNat
    <3>4. CASE Remaining < size
      <4>1. Step(Tlv(<<>>), 2, FALSE) BY <2>1, <2>3, <3>4 DEF ReadText
      <4> QED BY <4>1, <3>1, EmptyTlv
    <3>5. CASE ~(Remaining < size)
      <4>1. Step(At(size), size, SubSeq(At(size), 3, size) \notin Malformed)
        BY <2>1, <2>3, <3>5 DEF ReadText
      <4> HIDE DEF size
      <4>2. size <= Remaining BY <3>3, <3>5, <1>1
      <4>3. At(size) \in Seq(Byte) BY <3>3, <4>2, AtCursor
      <4>4. (SubSeq(At(size), 3, size) \notin Malformed) \in BOOLEAN OBVIOUS
      <4> QED BY <4>1, <4>2, <4>3, <4>4, <3>3
    <3> QED BY <3>4, <3>5
  <2> QED BY <2>2, <2>3
<1> QED BY <1>3, <1>4

\* A field that is there is read as it was written, with an error only if it is a
\* string that is not UTF-8.
LEMMA WholeFieldRead ==
  ASSUME TypeOK, Read, NEW f, Fits(f, NextRead), Len(f) <= Remaining,
         \A j \in 1..Len(f) : buf[pos + j] = f[j]
  PROVE  Step(f, Len(f), ~(NextRead.kind # "int" /\ \E t \in Malformed : f = Tlv(t)))
<1>1. Remaining \in Nat /\ f \in Seq(Byte) /\ Len(f) \in Nat
  BY DEF Remaining, TypeOK, Fits
<1>2. At(Len(f)) = f
  <2>1. /\ At(Len(f)) \in Seq(Byte) /\ Len(At(Len(f))) = Len(f)
        /\ \A j \in 1..Len(f) : At(Len(f))[j] = buf[pos + j]
    BY <1>1, AtCursor
  <2>2. \A j \in 1..Len(At(Len(f))) : At(Len(f))[j] = f[j] BY <2>1
  <2> QED BY <1>1, <2>1, <2>2, SeqEqual
<1>3. CASE NextRead.kind = "int"
  <2>1. NextRead.width = Len(f) BY <1>3 DEF Fits
  <2>2. ReadInt(Len(f)) BY <1>3, <2>1 DEF Read, NextRead
  <2>3. ~(Remaining < Len(f)) BY <1>1
  <2>4. Step(f, Len(f), TRUE) BY <1>2, <2>2, <2>3 DEF ReadInt
  <2>5. ~(NextRead.kind # "int" /\ \E t \in Malformed : f = Tlv(t)) = TRUE BY <1>3
  <2> QED BY <2>4, <2>5
<1>4. CASE NextRead.kind # "int"
  <2>1. PICK t \in Texts : f = Tlv(t) BY <1>4 DEF Fits
  <2>2. /\ Len(f) = 2 + Len(t) /\ Len(t) \in Nat /\ Length(f) = Len(t)
        /\ SubSeq(f, 3, Len(f)) = t
    BY <2>1, TlvBytes
  <2>3. ReadText BY <1>4 DEF Read, NextRead
  <2>4. 2 <= Remaining /\ 2 <= Len(f) BY <1>1, <2>2
  <2>5. Length(At(2)) = Len(t)
    <3>1. \A j \in 1..2 : At(2)[j] = buf[pos + j] BY <2>4, AtCursor
    <3>2. At(2)[1] = f[1] /\ At(2)[2] = f[2] BY <3>1, <2>4, <1>1
    <3> QED BY <3>2, <2>2 DEF Length
  <2>6. ~(Remaining < 2) /\ 2 + Length(At(2)) = Len(f) /\ ~(Remaining < Len(f))
    BY <1>1, <2>2, <2>4, <2>5
  <2>7. Step(f, Len(f), t \notin Malformed) BY <1>2, <2>2, <2>3, <2>6 DEF ReadText
  <2>8. t \in Malformed <=> \E u \in Malformed : f = Tlv(u)
    <3>1. ASSUME NEW u \in Malformed, f = Tlv(u) PROVE t = u
      <4>1. u \in Texts BY TextsAssumption, SMT
      <4>2. SubSeq(Tlv(u), 3, Len(Tlv(u))) = u BY <4>1, TlvBytes
      <4> QED BY <4>2, <3>1, <2>2
    <3> QED BY <3>1, <2>1
  <2>9. (t \notin Malformed) = ~(NextRead.kind # "int" /\ \E u \in Malformed : f = Tlv(u))
    BY <1>4, <2>8
  <2> QED BY <2>7, <2>9
<1> QED BY <1>3, <1>4

\* A field of which the end is missing is an error.
LEMMA ShortFieldRead ==
  ASSUME TypeOK, Read, NEW f, Fits(f, NextRead), Remaining < Len(f),
         \A j \in 1..Remaining : buf[pos + j] = f[j]
  PROVE  error'
<1>1. Remaining \in Nat /\ f \in Seq(Byte) /\ Len(f) \in Nat
  BY DEF Remaining, TypeOK, Fits
<1>2. CASE NextRead.kind = "int"
  <2>1. ReadInt(Len(f)) BY <1>2 DEF Read, NextRead, Fits
  <2> QED BY <2>1 DEF ReadInt, Step
<1>3. CASE NextRead.kind # "int"
  <2>1. PICK t \in Texts : f = Tlv(t) BY <1>3 DEF Fits
  <2>2. Len(f) = 2 + Len(t) /\ Len(t) \in Nat /\ Length(f) = Len(t) BY <2>1, TlvBytes
  <2>3. ReadText BY <1>3 DEF Read, NextRead
  <2>4. CASE Remaining < 2 BY <2>3, <2>4 DEF ReadText, Step
  <2>5. CASE ~(Remaining < 2)
    <3>1. 2 <= Remaining BY <1>1, <2>5
    <3>2. \A j \in 1..2 : At(2)[j] = buf[pos + j] BY <3>1, AtCursor
    <3>3. At(2)[1] = f[1] /\ At(2)[2] = f[2] BY <3>1, <3>2, <1>1
    <3>4. Length(At(2)) = Len(t) BY <3>3, <2>2 DEF Length
    <3>5. Remaining < 2 + Length(At(2)) BY <3>4, <2>2
    <3> QED BY <2>3, <2>5, <3>5 DEF ReadText, Step
  <2> QED BY <2>4, <2>5
<1> QED BY <1>2, <1>3

(***************************************************************************)
(* What decode does.                                                       *)
(***************************************************************************)

\* As long as decoding is in step, the reads follow the server's layout.
LEMMA SameLayout ==
  ASSUME TypeOK, ServerInv, FrameInv, ReaderInv, InStep, outcome # "writing"
  PROVE  /\ \A i \in 1..Len(Reads) : i <= Len(Layout) /\ Reads[i] = Layout[i]
         /\ done = Len(Reads) => Len(Reads) = Len(Layout)
         /\ Len(Reads) \in Nat /\ Len(Layout) \in Nat
<1>1. /\ codec \in {"jhead", "jcore"} /\ command \in Commands(codec)
      /\ values \in Seq(Seq(Byte)) /\ fields \in Seq(Seq(Byte))
      /\ Len(values) \in Nat /\ Len(fields) \in Nat
  BY DEF TypeOK, ReaderInv, ServerInv
<1>2. /\ Len(Reads) \in Nat /\ Len(Layout) \in Nat
      /\ HasCode(command) => /\ Reads[1] = Number(2) /\ Layout[1] = Number(2)
                             /\ Len(Layout) >= 1
  BY <1>1, RegularPlan DEF Reads, Layout, Regular
<1>3. CASE HasCode(command) /\ values = <<>>
  <2>1. Reads = <<Number(2)>> BY <1>3 DEF Reads, Plan, HasCode
  <2>2. Len(Reads) = 1 BY <2>1
  <2>3. done = 0
    <3>1. Len(values) = 0 BY <1>3
    <3>2. CASE done # 0
      <4>1. Reads[1] = Optional BY <2>2, <3>1, <3>2 DEF InStep
      <4> QED BY <1>2, <1>3, <4>1, KindsDiffer
    <3> QED BY <3>2
  <2> QED BY <1>2, <1>3, <2>2, <2>3
<1>4. CASE ~(HasCode(command) /\ values = <<>>)
  <2>1. HasCode(command) => fields # <<>> /\ values # <<>> /\ values[1] = fields[1]
    <3>1. ASSUME values # <<>> PROVE fields # <<>> /\ values[1] = fields[1]
      <4>1. 1 \in 1..Len(values) BY <3>1, <1>1
      <4>2. 1 <= Len(fields) BY <4>1, <1>1 DEF InStep
      <4> QED BY <4>1, <4>2, <1>1 DEF InStep
    <3> QED BY <3>1, <1>4
  <2>2. Reads = Layout BY <1>1, <2>1, FirstDecides DEF Reads, Layout
  <2> QED BY <1>2, <2>2
<1> QED BY <1>3, <1>4

\* What the reads say of the field that comes next: there is one, unless only
\* optional strings are left and the body is at its end.
LEMMA NextField ==
  ASSUME BodiesInv, InStep, outcome # "writing", Len(values) < Len(fields)
  PROVE  LET f == fields[Len(values) + 1] IN
         /\ Fits(f, Layout[Len(values) + 1]) /\ Len(f) \in Nat
         /\ pos + Len(f) = StartOf(Len(values) + 2) /\ pos + Len(f) <= Len(body)
         /\ \A j \in 1..Len(f) : pos + j <= Len(buf) => buf[pos + j] = f[j]
<1> DEFINE k == Len(values)
           f == fields[k + 1]
<1>1. k \in Nat /\ Len(fields) \in Nat BY DEF BodiesInv, ReaderInv, ServerInv
<1>2. k + 1 \in 1..Len(fields) BY <1>1
<1>3. /\ Fits(f, Layout[k + 1])
      /\ StartOf(k + 1) + Len(f) = StartOf((k + 1) + 1)
      /\ \A j \in 1..Len(f) : body[StartOf(k + 1) + j] = f[j]
  BY <1>2 DEF BodiesInv, ServerInv
<1>4. pos = StartOf(k + 1) /\ pos \in Nat /\ Len(buf) \in Nat
  BY DEF InStep, BodiesInv, TypeOK
<1>5. Len(f) \in Nat BY <1>3 DEF Fits
<1>6. StartOf((k + 1) + 1) <= Len(body)
  <2>1. (k + 1) + 1 \in 1 .. Len(fields) + 1 BY <1>1, <1>2
  <2> QED BY <2>1 DEF BodiesInv, ServerInv
<1>7. (k + 1) + 1 = k + 2 BY <1>1
<1>8. ASSUME NEW j \in 1..Len(f), pos + j <= Len(buf) PROVE buf[pos + j] = f[j]
  <2>1. pos + j \in 1..Len(buf) BY <1>4, <1>5, <1>8
  <2>2. buf[pos + j] = body[pos + j] BY <2>1 DEF BodiesInv, FrameInv
  <2> QED BY <2>2, <1>3, <1>4
<1> QED BY <1>3, <1>4, <1>5, <1>6, <1>7, <1>8

\* A read that is not passed over has a field to read.
LEMMA ReadHasField ==
  ASSUME BodiesInv, InStep, Read
  PROVE  /\ done = Len(values) /\ Len(values) < Len(fields)
         /\ NextRead = Layout[Len(values) + 1]
<1> USE DEF BodiesInv
<1>1. /\ outcome = "reading" /\ done < Len(Reads) /\ ~Skips BY DEF Read
<1>2. /\ Len(values) \in Nat /\ Len(fields) \in Nat /\ done \in Nat
      /\ pos \in Nat /\ Len(buf) \in Nat /\ pos <= Len(buf) /\ Len(body) \in Nat
  BY DEF ReaderInv, ServerInv, TypeOK
<1>3. /\ \A i \in 1..Len(Reads) : i <= Len(Layout) /\ Reads[i] = Layout[i]
      /\ Len(Reads) \in Nat /\ Len(Layout) \in Nat
  BY <1>1, SameLayout
<1>4. done + 1 \in 1..Len(Reads) BY <1>1, <1>2, <1>3
<1>5. NextRead = Optional => ~(Remaining < 2)
  BY <1>1 DEF Skips, NextRead, Optional
<1>6. done = Len(values)
  <2>1. CASE done # Len(values)
    <3>1. done + 1 \in Len(values) + 1 .. Len(Reads) BY <2>1, <1>2, <1>4 DEF InStep
    <3>2. NextRead = Optional /\ Remaining < 2 BY <2>1, <3>1 DEF InStep, NextRead
    <3> QED BY <3>2, <1>5
  <2> QED BY <2>1
<1>7. NextRead = Layout[Len(values) + 1] BY <1>3, <1>4, <1>6 DEF NextRead
<1>8. Len(values) < Len(fields)
  <2>1. CASE ~(Len(values) < Len(fields))
    <3>1. Len(values) = Len(fields) BY <2>1, <1>2 DEF InStep
    <3>2. pos = Len(body)
      <4>1. ~(Len(values) + 1 <= Len(fields)) BY <3>1, <1>2
      <4> QED BY <4>1 DEF InStep, StartOf
    <3>3. Len(buf) <= Len(body) BY <1>1 DEF FrameInv
    <3>4. Remaining = 0 BY <3>2, <3>3, <1>2 DEF Remaining
    <3>5. Len(values) + 1 \in Len(fields) + 1 .. Len(Layout) BY <3>1, <1>2, <1>3, <1>4, <1>6
    <3>6. Layout[Len(values) + 1] = Optional BY <3>5, <1>1 DEF FrameInv
    <3> QED BY <3>4, <3>6, <1>5, <1>7
  <2> QED BY <2>1
<1> QED BY <1>6, <1>7, <1>8

\* Decoding leaves what the server wrote, and the frame, as they are.
LEMMA ServerKept ==
  ASSUME ServerInv, UNCHANGED <<codec, command, server>>
  PROVE  ServerInv' /\ Layout' = Layout /\ \A i : StartOf(i)' = StartOf(i)
<1>1. Layout' = Layout /\ \A i : StartOf(i)' = StartOf(i) BY DEF Layout, StartOf, server
<1> QED BY <1>1 DEF ServerInv, server

\* A read adds a value, and the cursor stays in the frame.
LEMMA ReadTypes == TypeOK /\ ReaderInv /\ Read => TypeOK' /\ ReaderInv'
<1> SUFFICES ASSUME TypeOK, ReaderInv, Read PROVE TypeOK' /\ ReaderInv' OBVIOUS
<1>1. /\ outcome = "reading" /\ done < Len(Reads) /\ done' = done + 1
      /\ UNCHANGED <<codec, command, server, buf, outcome>>
  BY DEF Read
<1>2. PICK v \in Seq(Byte), n \in Nat, g \in BOOLEAN : n <= Remaining /\ Step(v, n, g)
  BY ReadStays
<1>3. values \in Seq(Seq(Byte)) BY DEF ReaderInv
<1>4. /\ values' \in Seq(Seq(Byte)) /\ values' # <<>>
      /\ \A i \in 1..Len(values) : values'[i] = values[i]
  BY <1>2, <1>3, AppendProperties DEF Step
<1>5. pos' \in 0..Len(buf') /\ error' \in BOOLEAN
  <2>1. pos' = pos + n /\ error' = (error \/ ~g) BY <1>2 DEF Step
  <2>2. pos \in Nat /\ Len(buf) \in Nat /\ n <= Len(buf) - pos
    BY <1>2 DEF TypeOK, Remaining
  <2> QED BY <2>1, <2>2, <1>1 DEF TypeOK
<1>6. done' \in 0..Len(Reads')
  <2>1. /\ codec \in {"jhead", "jcore"} /\ command \in Commands(codec) /\ done \in Nat
    BY DEF TypeOK
  <2>2. Reads' = Plan(codec, command, values') BY <1>1 DEF Reads
  <2>3. CASE HasCode(command) /\ values = <<>>
    <3>1. Reads = <<Number(2)>> BY <2>3 DEF Reads, Plan, HasCode
    <3>2. done = 0
      <4>1. Len(Reads) = 1 BY <3>1
      <4> QED BY <4>1, <1>1, <2>1
    <3>3. Len(Reads') \in Nat \ {0} BY <2>1, <2>2, <2>3, RegularPlan
    <3> QED BY <3>2, <3>3, <1>1
  <2>4. CASE ~(HasCode(command) /\ values = <<>>)
    <3>1. HasCode(command) => values # <<>> /\ values'[1] = values[1]
      <4>1. ASSUME values # <<>> PROVE values'[1] = values[1]
        <5>1. 1 \in 1..Len(values) BY <4>1, <1>3
        <5> QED BY <5>1, <1>4
      <4> QED BY <4>1, <2>4
    <3>2. PICK got : got = values' OBVIOUS
    <3>3. HasCode(command) => got # <<>> /\ values # <<>> /\ got[1] = values[1]
      BY <3>1, <3>2, <1>4
    <3>4. Plan(codec, command, got) = Plan(codec, command, values)
      <4>1. codec \in {"jhead", "jcore"} /\ command \in Commands(codec) BY <2>1
      <4> QED BY <4>1, <3>3, FirstDecides
    <3>5. Reads' = Reads BY <2>2, <3>2, <3>4 DEF Reads
    <3>6. Len(Reads) \in Nat BY <2>1, RegularPlan DEF Reads, Regular
    <3> QED BY <3>5, <3>6, <2>1, <1>1
  <2> QED BY <2>3, <2>4
<1>7. \A i \in 1..Len(values') : values'[i] \in Seq(Byte) BY <1>4, ElementOfSeq
<1>8. TypeOK' BY <1>1, <1>5, <1>6, <1>7 DEF TypeOK, server
<1>9. ReaderInv' BY <1>1, <1>4 DEF ReaderInv
<1> QED BY <1>8, <1>9

\* A read that finds its whole field stays in step with the server.
LEMMA WholeReadInStep ==
  ASSUME BodiesInv, InStep, Read, Len(fields[Len(values) + 1]) <= Remaining
  PROVE  InStep'
<1> USE DEF BodiesInv
<1> DEFINE f == fields[Len(values) + 1]
<1>1. /\ outcome = "reading" /\ done' = done + 1
      /\ UNCHANGED <<codec, command, server, buf, outcome>>
  BY DEF Read
<1>2. /\ done = Len(values) /\ Len(values) < Len(fields)
      /\ NextRead = Layout[Len(values) + 1]
  BY ReadHasField
<1>3. /\ Fits(f, NextRead) /\ Len(f) \in Nat
      /\ pos + Len(f) = StartOf(Len(values) + 2)
      /\ \A j \in 1..Len(f) : pos + j <= Len(buf) => buf[pos + j] = f[j]
  BY <1>1, <1>2, NextField
<1>4. pos \in Nat /\ Len(buf) \in Nat /\ Len(f) <= Len(buf) - pos
  BY DEF TypeOK, Remaining
<1>5. \A j \in 1..Len(f) : buf[pos + j] = f[j] BY <1>3, <1>4
<1>6. Step(f, Len(f), ~(NextRead.kind # "int" /\ \E t \in Malformed : f = Tlv(t)))
  BY <1>3, <1>5, WholeFieldRead
<1>7. PICK k \in Nat : k = Len(values) BY DEF ReaderInv
<1>8. Step(f, Len(f), ~IsMalformed(k + 1)) BY <1>2, <1>6, <1>7 DEF IsMalformed
<1>9. values \in Seq(Seq(Byte)) /\ f \in Seq(Byte)
  BY <1>3 DEF ReaderInv, Fits
<1>10. /\ Len(values') = k + 1 /\ values'[k + 1] = f
       /\ \A i \in 1..k : values'[i] = values[i]
  BY <1>7, <1>8, <1>9, AppendProperties DEF Step
<1>11. /\ Layout' = Layout /\ \A i : StartOf(i)' = StartOf(i)
       /\ fields' = fields
  BY <1>1, ServerKept DEF server
<1>12. \A i : IsMalformed(i)' = IsMalformed(i) BY <1>11 DEF IsMalformed
<1>13. Len(values') <= Len(fields') /\ \A i \in 1..Len(values') : values'[i] = fields'[i]
  <2>1. k + 1 <= Len(fields) /\ Len(fields) \in Nat BY <1>2, <1>7 DEF ServerInv
  <2>2. ASSUME NEW i \in 1..k + 1 PROVE values'[i] = fields[i]
    <3>1. CASE i \in 1..k BY <3>1, <1>7, <1>10 DEF InStep
    <3>2. CASE i = k + 1 BY <3>2, <1>7, <1>10
    <3> QED BY <3>1, <3>2, <1>7
  <2> QED BY <2>1, <2>2, <1>10, <1>11
<1>14. pos' = StartOf(Len(values) + 1)'
  <2>1. pos' = StartOf(k + 2) BY <1>3, <1>7, <1>8 DEF Step
  <2>2. StartOf(Len(values) + 1)' = StartOf(k + 2)
    <3>1. Len(values') + 1 = k + 2 BY <1>10, <1>7
    <3>2. StartOf(Len(values) + 1)' = StartOf(k + 2)' BY <3>1 DEF StartOf
    <3> QED BY <3>2, <1>11
  <2> QED BY <2>1, <2>2
<1>15. error' <=> \E i \in 1..Len(values') : IsMalformed(i)'
  <2>1. error' = (error \/ IsMalformed(k + 1)) BY <1>8 DEF Step
  <2>2. error <=> \E i \in 1..k : IsMalformed(i) BY <1>7 DEF InStep
  <2>3. 1..k + 1 = (1..k) \cup {k + 1} BY <1>7
  <2>4. (\E i \in 1..k + 1 : IsMalformed(i))
          <=> (\E i \in 1..k : IsMalformed(i)) \/ IsMalformed(k + 1)
    BY <2>3, Zenon
  <2> QED BY <2>1, <2>2, <2>4, <1>10, <1>12
<1>16. done' = Len(values') BY <1>1, <1>2, <1>7, <1>10
<1> QED BY <1>13, <1>14, <1>15, <1>16 DEF InStep

LEMMA ReadStep == BodiesInv /\ Read => BodiesInv'
<1> SUFFICES ASSUME BodiesInv, Read PROVE BodiesInv' OBVIOUS
<1> USE DEF BodiesInv
<1>1. /\ outcome = "reading" /\ outcome' = "reading"
      /\ UNCHANGED <<codec, command, server, buf>>
  BY DEF Read
<1>2. TypeOK' /\ ReaderInv' BY ReadTypes
<1>3. ServerInv' /\ Layout' = Layout BY <1>1, ServerKept
<1>4. FrameInv' BY <1>1, <1>3 DEF FrameInv, server
<1>5. error => error'
  <2>1. PICK v \in Seq(Byte), n \in Nat, g \in BOOLEAN : n <= Remaining /\ Step(v, n, g)
    BY ReadStays
  <2> QED BY <2>1 DEF Step
<1>6. StepInv'
  <2>1. CASE InStep
    <3> DEFINE f == fields[Len(values) + 1]
    <3>1. /\ done = Len(values) /\ Len(values) < Len(fields)
          /\ NextRead = Layout[Len(values) + 1]
      BY <2>1, ReadHasField
    <3>2. /\ Fits(f, NextRead) /\ Len(f) \in Nat /\ pos + Len(f) <= Len(body)
          /\ \A j \in 1..Len(f) : pos + j <= Len(buf) => buf[pos + j] = f[j]
      BY <1>1, <2>1, <3>1, NextField
    <3>3. CASE Len(f) <= Remaining BY <2>1, <3>3, WholeReadInStep DEF StepInv
    <3>4. CASE ~(Len(f) <= Remaining)
      <4>1. pos \in Nat /\ Len(buf) \in Nat /\ Len(body) \in Nat
        BY DEF TypeOK, ServerInv
      <4>2. Remaining = Len(buf) - pos /\ Remaining < Len(f)
        BY <4>1, <3>2, <3>4 DEF Remaining
      <4>3. Len(buf) < Len(body) BY <4>1, <4>2, <3>2
      <4>4. \A j \in 1..Remaining : buf[pos + j] = f[j]
        <5> TAKE j \in 1..Remaining
        <5>1. j \in 1..Len(f) /\ pos + j <= Len(buf) BY <4>1, <4>2, <3>2
        <5> QED BY <5>1, <3>2
      <4>5. error' BY <3>2, <4>2, <4>4, ShortFieldRead
      <4> QED BY <4>3, <4>5, <1>1 DEF StepInv, server
    <3> QED BY <3>3, <3>4
  <2>2. CASE ~InStep BY <2>2, <1>1, <1>5 DEF StepInv, server
  <2> QED BY <2>1, <2>2
<1> QED BY <1>2, <1>3, <1>4, <1>6

LEMMA SkipStep == BodiesInv /\ Skip => BodiesInv'
<1> SUFFICES ASSUME BodiesInv, Skip PROVE BodiesInv' OBVIOUS
<1> USE DEF BodiesInv
<1>1. /\ outcome = "reading" /\ done < Len(Reads) /\ Skips /\ done' = done + 1
      /\ UNCHANGED <<codec, command, server, buf, pos, error, values, outcome>>
  BY DEF Skip
<1>2. Reads' = Reads /\ Remaining' = Remaining BY <1>1 DEF Reads, Remaining
<1>3. Regular(Reads) BY RegularPlan DEF TypeOK, Reads
<1>4. Len(Reads) \in Nat /\ done \in Nat BY <1>3 DEF Regular, TypeOK
<1>5. TypeOK' BY <1>1, <1>2, <1>4 DEF TypeOK, server
<1>6. ServerInv' /\ Layout' = Layout /\ \A i : StartOf(i)' = StartOf(i)
  BY <1>1, ServerKept
<1>7. FrameInv' BY <1>1, <1>6 DEF FrameInv, server
<1>8. ReaderInv' BY <1>1 DEF ReaderInv
<1>9. NextRead = Optional /\ Remaining < 2
  BY <1>1, NextReadKind, KindsTyped DEF Skips, NextRead
<1>10. ASSUME InStep PROVE InStep'
  <2>1. Len(values) \in Nat BY DEF ReaderInv
  <2>2. done >= Len(values) BY <2>1, <1>4, <1>10 DEF InStep
  <2>3. \A i \in Len(values) + 1 .. Len(Reads) : Reads[i] = Optional
    <3>1. CASE done # Len(values) BY <3>1, <1>10 DEF InStep
    <3>2. CASE done = Len(values)
      <4>1. Reads[Len(values) + 1] = Optional BY <3>2, <1>9 DEF NextRead
      <4>2. Len(values) + 1 \in 1..Len(Reads) BY <3>2, <2>1, <1>1, <1>4
      <4> QED BY <4>1, <4>2, <1>3, <2>1 DEF Regular
    <3> QED BY <3>1, <3>2
  <2>4. done' > Len(values) BY <2>1, <2>2, <1>1, <1>4
  <2>5. /\ Len(values) <= Len(fields) /\ \A i \in 1..Len(values) : values[i] = fields[i]
        /\ pos = StartOf(Len(values) + 1)
        /\ error <=> \E i \in 1..Len(values) : IsMalformed(i)
    BY <1>10 DEF InStep
  <2>6. /\ values' = values /\ fields' = fields /\ pos' = pos /\ error' = error
        /\ StartOf(Len(values) + 1)' = StartOf(Len(values) + 1)
        /\ \A i : IsMalformed(i)' = IsMalformed(i)
    BY <1>1, <1>6 DEF server, StartOf, IsMalformed
  <2> QED BY <2>3, <2>4, <2>5, <2>6, <1>2, <1>9 DEF InStep
<1>11. StepInv' BY <1>1, <1>10 DEF StepInv, server
<1> QED BY <1>5, <1>6, <1>7, <1>8, <1>11

LEMMA FinishStep == BodiesInv /\ Finish => BodiesInv'
<1> SUFFICES ASSUME BodiesInv, Finish PROVE BodiesInv' OBVIOUS
<1> USE DEF BodiesInv
<1>1. /\ outcome = "reading" /\ done = Len(Reads)
      /\ outcome' = IF error THEN "raised" ELSE "returned"
      /\ UNCHANGED <<codec, command, server, reader>>
  BY DEF Finish
<1>2. /\ Reads' = Reads /\ Layout' = Layout /\ Remaining' = Remaining
      /\ \A i : StartOf(i)' = StartOf(i)
  BY <1>1 DEF Reads, Layout, Remaining, StartOf, server, reader
<1>3. TypeOK' BY <1>1, <1>2 DEF TypeOK, server, reader
<1>4. ServerInv' BY <1>1, ServerKept
<1>5. FrameInv' BY <1>1, <1>2 DEF FrameInv, server, reader
<1>6. ReaderInv' BY <1>1, <1>2 DEF ReaderInv, reader
<1>7. ASSUME InStep PROVE InStep'
  <2>1. /\ \A i : IsMalformed(i)' = IsMalformed(i)
        /\ StartOf(Len(values) + 1)' = StartOf(Len(values) + 1)
        /\ values' = values /\ fields' = fields /\ pos' = pos /\ error' = error
        /\ done' = done
    BY <1>1, <1>2 DEF IsMalformed, StartOf, server, reader
  <2> QED BY <1>2, <1>7, <2>1 DEF InStep
<1>8. StepInv' BY <1>1, <1>7 DEF StepInv, server, reader
<1> QED BY <1>3, <1>4, <1>5, <1>6, <1>8

LEMMA StutterStep == BodiesInv /\ UNCHANGED vars => BodiesInv'
<1> SUFFICES ASSUME BodiesInv, UNCHANGED vars PROVE BodiesInv' OBVIOUS
<1> USE DEF BodiesInv
<1>1. UNCHANGED <<codec, command, server, reader, outcome>> BY DEF vars
<1>2. /\ Reads' = Reads /\ Layout' = Layout /\ Remaining' = Remaining
      /\ \A i : StartOf(i)' = StartOf(i)
  BY <1>1 DEF Reads, Layout, Remaining, StartOf, server, reader
<1>3. TypeOK' BY <1>1, <1>2 DEF TypeOK, server, reader
<1>4. ServerInv' BY <1>1, ServerKept
<1>5. FrameInv' BY <1>1, <1>2 DEF FrameInv, server, reader
<1>6. ReaderInv' BY <1>1, <1>2 DEF ReaderInv, reader
<1>7. ASSUME InStep PROVE InStep'
  <2>1. /\ \A i : IsMalformed(i)' = IsMalformed(i)
        /\ StartOf(Len(values) + 1)' = StartOf(Len(values) + 1)
        /\ values' = values /\ fields' = fields /\ pos' = pos /\ error' = error
        /\ done' = done
    BY <1>1, <1>2 DEF IsMalformed, StartOf, server, reader
  <2> QED BY <1>2, <1>7, <2>1 DEF InStep
<1>8. StepInv' BY <1>1, <1>7 DEF StepInv, server, reader
<1> QED BY <1>3, <1>4, <1>5, <1>6, <1>8

LEMMA Invariance == Spec => []BodiesInv
<1>1. Init => BodiesInv BY BodiesInit
<1>2. BodiesInv /\ [Next]_vars => BodiesInv'
  BY WriteFieldStep, DeliverStep, ReadStep, SkipStep, FinishStep, StutterStep DEF Next
<1> QED BY <1>1, <1>2, PTL DEF Spec

(***************************************************************************)
(* The theorems.                                                           *)
(***************************************************************************)

\* Every variable holds a value of its kind, and no read of Reader moves the cursor
\* past the end of the body (packet.py:109).
THEOREM TypeCorrect == Spec => []TypeOK
<1>1. BodiesInv => TypeOK BY DEF BodiesInv
<1> QED BY <1>1, Invariance, PTL

\* A response that decode returns holds the first fields of what the server wrote,
\* each whole and no string of it malformed, wherever the body was cut off: the
\* error of the first read that found too little is still there at the end
\* (packet.py:99, codecs.py:77).
THEOREM ReturnsWhatWasWritten == Spec => []ReturnedIsWritten
<1>1. BodiesInv => ReturnedIsWritten
  <2> SUFFICES ASSUME BodiesInv, outcome = "returned"
               PROVE  /\ Len(values) <= Len(fields)
                      /\ \A i \in 1..Len(values) : values[i] = fields[i] /\ ~IsMalformed(i)
    BY DEF ReturnedIsWritten
  <2>1. ~error BY DEF BodiesInv, ReaderInv
  <2>2. InStep BY <2>1 DEF BodiesInv, StepInv
  <2> QED BY <2>1, <2>2 DEF InStep
<1> QED BY <1>1, Invariance, PTL

\* A body of which nothing is missing is decoded into all the server wrote, with or
\* without its optional strings, unless a string in it is malformed.
THEOREM WholeBodiesDecode == Spec => []WholeBodyDecodes
<1>1. BodiesInv => WholeBodyDecodes
  <2> SUFFICES ASSUME BodiesInv, outcome \in {"returned", "raised"}, buf = body
               PROVE  IF \E i \in 1..Len(fields) : IsMalformed(i)
                      THEN outcome = "raised"
                      ELSE outcome = "returned" /\ values = fields
    BY DEF WholeBodyDecodes
  <2> USE DEF BodiesInv
  <2>1. /\ values \in Seq(Seq(Byte)) /\ fields \in Seq(Seq(Byte))
        /\ Len(values) \in Nat /\ Len(fields) \in Nat /\ Len(body) \in Nat
        /\ done = Len(Reads)
    BY DEF ReaderInv, ServerInv
  <2>2. InStep BY <2>1 DEF StepInv
  <2>11. (outcome = "returned" => ~error) /\ (outcome = "raised" => error)
    BY DEF ReaderInv
  <2>3. /\ \A i \in 1..Len(Reads) : i <= Len(Layout) /\ Reads[i] = Layout[i]
        /\ Len(Reads) = Len(Layout) /\ Len(Layout) \in Nat
    BY <2>1, <2>2, SameLayout
  <2>4. Len(fields) <= Len(Layout) BY DEF ServerInv
  <2>5. Len(values) = Len(fields)
    <3>1. CASE done = Len(values) BY <3>1, <2>1, <2>2, <2>3, <2>4 DEF InStep
    <3>2. CASE done # Len(values) /\ Len(values) < Len(fields)
      <4> DEFINE f == fields[Len(values) + 1]
      <4>1. Fits(f, Layout[Len(values) + 1]) /\ Len(f) \in Nat /\ pos + Len(f) <= Len(body)
        BY <3>2, <2>2, NextField
      <4>2. Len(values) + 1 \in Len(values) + 1 .. Len(Reads)
        BY <3>2, <2>1, <2>3, <2>4
      <4>3. Reads[Len(values) + 1] = Optional /\ Remaining < 2
        BY <3>2, <4>2, <2>2 DEF InStep
      <4>4. Layout[Len(values) + 1] = Optional
        <5>1. Len(values) + 1 \in 1..Len(Reads) BY <4>2, <2>1, <2>3
        <5> QED BY <5>1, <4>3, <2>3
      <4>5. PICK t \in Texts : f = Tlv(t) BY <4>1, <4>4 DEF Fits, Optional
      <4>6. Len(f) >= 2 BY <4>5, TlvBytes
      <4>7. pos \in Nat /\ Remaining = Len(body) - pos BY DEF TypeOK, Remaining
      <4> QED BY <4>1, <4>3, <4>6, <4>7, <2>1
    <3>3. CASE done # Len(values) /\ ~(Len(values) < Len(fields))
      BY <3>3, <2>1, <2>2 DEF InStep
    <3> QED BY <3>1, <3>2, <3>3
  <2>6. \A i \in 1..Len(values) : values[i] = fields[i] BY <2>2 DEF InStep
  <2>7. values = fields BY <2>1, <2>5, <2>6, SeqEqual
  <2>8. error <=> \E i \in 1..Len(fields) : IsMalformed(i) BY <2>2, <2>5 DEF InStep
  <2>9. CASE error
    <3>1. outcome = "raised" BY <2>11, <2>9, Zenon
    <3> QED BY <3>1, <2>8, <2>9
  <2>10. CASE ~error
    <3>1. outcome = "returned" BY <2>11, <2>10, Zenon
    <3> QED BY <3>1, <2>7, <2>8, <2>10
  <2> QED BY <2>9, <2>10
<1> QED BY <1>1, Invariance, PTL
=============================================================================
