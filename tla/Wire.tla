-------------------------------- MODULE Wire --------------------------------
(***************************************************************************)
(* How a request becomes a frame: the writes of the encoder, Writer, and   *)
(* the two frame heads; and what a reader that knows the protocol makes of *)
(* it: the server, or the capture tools of this package.                   *)
(*                                                                         *)
(* A string is its length; a number is its width.  What matters is whether *)
(* the lengths on the wire are those of the bytes behind them, and whether *)
(* the head tells the key of the body.  Request ids are left out.          *)
(***************************************************************************)
EXTENDS Integers, Sequences

CONSTANTS
  Sizes,  \* lengths of the application's strings
  Seed,   \* the codec's register seed
  Juid,   \* the device's juid
  Sid     \* the session's sid

ASSUME SizesAssumption == Sizes \subseteq Nat
ASSUME IdsAssumption == {Seed, Juid, Sid} \subseteq Nat \ {0} /\ Seed # Juid

HeadLen == 24    \* REQUEST_HEAD_LEN
MaxText == 65535 \* 0xFFFF
Flag == 32768    \* the encryption bit of a length prefix
Block == 16      \* of AES

VARIABLES
  codec,    \* "jhead", "android" or "ios": JHeadCodec or a JCore473Codec
  command,  \* the request being encoded
  keyJuid,  \* JCore473Codec.juid, 0 before the first login
  todo,     \* the writes the encoder has still to do
  body,     \* what it wrote
  frame,    \* the frame, once it is complete
  opened    \* the candidates inspect_frame found, once it has looked

vars == <<codec, command, keyJuid, todo, body, frame, opened>>

-----------------------------------------------------------------------------
(* The encoders: which numbers and strings each writes.                    *)

Number(n) == [kind |-> "number", size |-> n]
Text(n) == [kind |-> "text", size |-> n]
Own == Text(32)    \* a string that always fits, such as an MD5
App(n) == Text(n)  \* a string of the application

Commands == {"register", "login", "alias", "heartbeat", "pushack"}

\* What JHeadCodec writes, with application strings of lengths m and n.
JHeadWrites(cmd, m, n) ==
  CASE cmd = "register" -> <<App(m), App(n), Own, Number(1), Own>>
    [] cmd = "login" -> <<Number(4), Own, Number(4), App(m), Number(1)>>
    [] cmd = "alias" -> <<App(m), App(n)>>
    [] cmd = "heartbeat" -> <<>>
    [] cmd = "pushack" -> <<Number(2), Number(1), Number(8)>>

\* What JCore473Codec writes.
JCoreWrites(cmd, ios, m, n) ==
  CASE cmd = "register" /\ ios ->
         <<App(m), App(n), Own, Own, Own, Number(1), Number(1), Number(1), Own,
           Number(4), Own>>
    [] cmd = "register" /\ ~ios ->
         <<App(m), App(n), Own, Number(1), Own, Number(4), Own>>
    [] cmd = "login" /\ ios ->
         <<Number(1), Number(1), Number(2), Own, Own, App(m), Number(1), Number(4),
           Number(1), Own, Number(1), Number(4)>>
    [] cmd = "alias" -> <<App(n)>>
    [] OTHER -> JHeadWrites(cmd, m, n)

NoFrame == [prefix |-> 0, size |-> 0, pad |-> 0]

Init ==
  /\ codec \in {"jhead", "android", "ios"} /\ command \in Commands
  /\ keyJuid \in {0, Juid}
  /\ \E m, n \in Sizes :
       todo = IF codec = "jhead" THEN JHeadWrites(command, m, n)
              ELSE JCoreWrites(command, codec = "ios", m, n)
  /\ body = <<>> /\ frame = NoFrame /\ opened = {}

\* The length of Writer.buf: each field is written at the end of the one before.
Bytes(fields) ==
  IF fields = <<>> THEN 0
  ELSE LET last == fields[Len(fields)] IN last.at + last.bytes

\* Mutant: a length that does not fit is cut, and the string is written whole.
TextCut(n) ==
  [kind |-> "text", at |-> Bytes(body), says |-> n % 65536, size |-> n, bytes |-> 2 + n]

\* tlv2: a string that is too long for its length becomes an empty one.
TextField(n) ==
  LET written == IF n > MaxText THEN 0 ELSE n
  IN  [kind |-> "text", at |-> Bytes(body), says |-> written, size |-> n,
       bytes |-> 2 + written]

\* int1, int2, int4, long8 and fixed_string.
NumberField(n) ==
  [kind |-> "number", at |-> Bytes(body), says |-> 0, size |-> n, bytes |-> n]

Put ==
  /\ todo # <<>>
  /\ body' = Append(body, IF Head(todo).kind = "text" THEN TextField(Head(todo).size)
                          ELSE NumberField(Head(todo).size))
  /\ todo' = Tail(todo)
  /\ UNCHANGED <<codec, command, keyJuid, frame, opened>>

-----------------------------------------------------------------------------
(* Head.encode and JCore473Codec._frame.                                   *)

\* pkcs7_pad adds a whole block to a body that fills its blocks.
Pad(n) == Block - (n % Block)

\* Head.encode: the length is cut to 16 bits.
PlainFrame ==
  LET size == HeadLen + Bytes(body)
  IN  [prefix |-> size % 65536, size |-> size, pad |-> 0]

\* Mutant: the length is that of the body before it was padded.
EncryptedFrameShort ==
  LET size == HeadLen + Bytes(body)
  IN  [prefix |-> (size % Flag) + Flag, size |-> size + Pad(Bytes(body)),
       pad |-> Pad(Bytes(body))]

\* JCore473Codec._frame: the length's second and third byte, under the flag.
EncryptedFrame ==
  LET size == HeadLen + Bytes(body) + Pad(Bytes(body))
  IN  [prefix |-> (size % Flag) + Flag, size |-> size, pad |-> Pad(Bytes(body))]

\* The two numbers of the head that a key may be derived from.  A register request
\* has no juid yet, and carries 0 in its place.
HeadNumbers ==
  CASE command = "register" ->
         IF codec = "jhead" THEN [seed |-> 0, juid |-> 0]
         ELSE [seed |-> Seed, juid |-> 0]
    [] command = "login" -> [seed |-> 0, juid |-> Juid]
    [] command = "alias" -> [seed |-> Sid, juid |-> Juid]
    [] command \in {"heartbeat", "pushack"} ->
         [seed |-> IF codec = "jhead" THEN Sid ELSE 0, juid |-> Juid]

\* Mutant: the body is encrypted under the key the codec decrypts with.
DecryptionKey == IF keyJuid > 0 THEN keyJuid ELSE Seed

\* The number the key of the body is derived from.
KeySeed == IF command = "register" THEN Seed ELSE Juid

\* encode_login makes the juid's key the one that answers are read with.
Frame ==
  /\ todo = <<>> /\ frame.size = 0
  /\ LET made == IF codec = "jhead" THEN PlainFrame ELSE EncryptedFrame
     IN  frame' = [prefix |-> made.prefix, size |-> made.size, pad |-> made.pad,
                   seed |-> HeadNumbers.seed, juid |-> HeadNumbers.juid,
                   key |-> <<"transform", KeySeed>>]
  /\ keyJuid' = IF command = "login" /\ codec # "jhead" THEN Juid ELSE keyJuid
  /\ UNCHANGED <<codec, command, todo, body, opened>>

-----------------------------------------------------------------------------
(* capture.py: inspect_frame and decode_ios_register_body.                 *)

Modes == {<<"transform", frame.seed>>, <<"plain", frame.seed>>,
          <<"transform", frame.juid>>, <<"plain", frame.juid>>}

Offsets == {24, 20}

\* aes_decrypt: what is no number of blocks, or has no padding, is nothing.  The
\* right key at the right place gives the body; the wrong one nothing, or
\* rubbish whose last byte happens to look like padding.
Found(offset, mode, rubbish) ==
  IF (frame.size - offset) % Block # 0 \/ frame.pad = 0 THEN "nothing"
  ELSE IF offset = HeadLen /\ mode = frame.key THEN "body"
  ELSE IF mode \in rubbish THEN "rubbish" ELSE "nothing"

\* Each key is tried on what follows a request's head, and a response's.
Inspect ==
  /\ frame.size > 0 /\ codec # "jhead" /\ opened = {}
  /\ \E rubbish \in SUBSET Modes :
       opened' = {[offset |-> o, mode |-> m, found |-> Found(o, m, rubbish),
                   length |-> frame.size - o - frame.pad] : o \in Offsets, m \in Modes}
  /\ UNCHANGED <<codec, command, keyJuid, todo, body, frame>>

\* The reads of decode_ios_register_body, 0 for a string.
CaptureReads == <<0, 0, 0, 0, 0, 1, 1, 1, 0, 4, 0>>

\* The read that takes a field: tlv2, or the number of that width.
ReadOf(f) == IF f.kind = "text" THEN 0 ELSE f.size

\* Where a reader is once it has read a field: a string is as long as it says.
ReadEnd(f) == f.at + IF f.kind = "text" THEN 2 + f.says ELSE f.size

Next == Put \/ Frame \/ Inspect
Spec == Init /\ [][Next]_vars

-----------------------------------------------------------------------------
(* What must hold.                                                         *)

\* A reader that knows the layout finds every field where the encoder put it: it
\* starts at 0, ends each field where the next one begins, and the last one where
\* the body ends; and a string is the one that was given, or empty if that one
\* does not fit its length (packet.py:84, Reader.tlv2).
FieldsReadBack ==
  /\ \A i \in DOMAIN body :
       LET f == body[i] IN
       /\ f.at = IF i = 1 THEN 0 ELSE ReadEnd(body[i - 1])
       /\ f.kind = "text" => f.says = f.size \/ (f.says = 0 /\ f.size > MaxText)
  /\ body # <<>> => Bytes(body) = ReadEnd(body[Len(body)])

\* The length and the flag at the front of a request are those of the frame, as
\* far as 15 bits go: so many bytes are the request (the limit of 7168 bytes in
\* read_raw_frame is one of the responses), and the flag tells an encrypted body
\* from a plain one (packet.py:32, codecs.py:426).
PrefixTellsFrame ==
  frame.size \in 1..(Flag - 1) =>
    /\ frame.prefix % Flag = frame.size
    /\ frame.prefix >= Flag <=> codec # "jhead"
    /\ codec # "jhead" => (frame.size - HeadLen) % Block = 0

\* The head tells the key of the body: the seed of a register request, whatever
\* juid the codec decrypts with, and else the juid, which the server knows only
\* from the head (codecs.py:359, :383, :390).  So the "offline inspection helpers for
\* captured JCore frames" (capture.py:1) open every encrypted request, and read
\* an iOS register body field by field as it was written.
InspectionOpens ==
  opened # {} =>
    /\ \E c \in opened :
         /\ c.found = "body" /\ c.length = Bytes(body)
         /\ c.mode = <<"transform", IF command = "register" THEN frame.seed ELSE frame.juid>>
    /\ codec = "ios" /\ command = "register" =>
         CaptureReads = [i \in DOMAIN body |-> ReadOf(body[i])]
=============================================================================
