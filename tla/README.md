# A verification model of jpush-python

`src/src/jpush` is a client for the JPush push service: it finds a server, registers
the device, logs in, and from then on receives pushes on one TCP connection while
the application sets an alias, waits for pushes and closes the client.  This directory
models it in TLA+, checks the models with TLC on small instances and proves what
matters most for every instance with TLAPS.

Paths below are relative to `src/src/jpush/`.

## 1. The system

| Component | Source | State | Operations |
|---|---|---|---|
| Session | `client.py` 317-499, 574-583 | `_rid`, `_write_lock`, `_close_lock`, `_done`, `_close_error`, `_conn`, `_pushes` (16), `_acks` (16) | `_read_loop`, `_heartbeat_loop`, `_write`, `_ack_push`, `set_alias`, `wait_for_push`, `run`, `close`/`_close`, `_next_queue` |
| Registration | `client.py` 104-176, 230-333, 501-520; `models.py` `Credentials` | `credentials`, `_sid`, `_loops_started`, the codec's `juid` and key | `register` = load, connect, register, save, login, start loops |
| Credential stores | `store.py` | the credential file, which several Clients may share | `FileStore.load/save`, `MemoryStore` |
| Discovery | `client.py` 178-228, 604-613; `sis.py` | none beyond one call | `resolve_servers`, `query_sis`, `_connect`, `_dial`, `_remaining` |
| Frame reading | `packet.py` 165-194 | the byte stream | `read_exact`, `read_raw_frame` |
| Primitive encodings | `packet.py` 1-160 | `Writer` bytes, `Reader` position and error | `Head`, `Writer.*`, `Reader.*` |
| Codecs | `codecs.py` | `JCore473Codec.juid`, key and crypto state | `encode_*`, `decode` |
| Capture analysis | `capture.py` | none | offline decoding of captured frames |
| Types, errors, exports | `models.py`, `errors.py`, `__init__.py` | none | none that changes state |

### How the parts interact

`register()` runs in the caller's thread: it reads the store, runs discovery, then
exchanges one request and one answer at a time on the fresh connection, saves what it was
given and starts two daemon threads.  From then on

* the **receiver** is the only reader of the socket.  It decodes a frame, acknowledges a
  push (a write) and puts it into `_pushes`, waiting there as long as it is full; an ack
  goes to `_acks`, or is dropped if that is full;
* the **heartbeat** wakes every interval, writes, and closes the client if it cannot;
* **application threads** write alias requests and take from the two queues;
* whoever fails or is asked to (`close()`) runs `_close`, which the others notice through
  `_done`, through an exception from the socket, or through an empty queue.

The threads share `_rid` (`_state_lock`), the socket (`_write_lock`), and the closing
(`_close_lock`, `_done`, `_close_error`).  The credential file outlives the process, and nothing
keeps another process from using it; the codec object outlives a Client when the application
keeps its `Config`.  `register()` may be called again while the threads of an earlier call run:
it then reads from the same socket as the receiver.

### What is hard here

* three threads write to one socket, `sendall` in pieces, while a fourth closes it;
* a push is acknowledged before it is queued, and the queue may be full;
* queues with limits behind one reader: who waits for whom, and who notices a dead peer;
* `_done` is looked at between two looks at the queue, and the cause of the closing must be
  readable by then;
* answers are matched by arrival, not by request id, so a timeout shifts them;
* a registration is issued by the server, adopted, saved and used in four steps, each of
  which can fail, time out or be cut off by a crash or by `close()`;
* a load that raises is taken for an empty store, whatever the file holds;
* one deadline is shared by SIS queries, dials and reads;
* a frame arrives in pieces, and a wrong length puts the reader out of step for good;
* Clients that share a file read, register and save without a lock;
* lengths are cut to 16 or 15 bits, and the key of a body is told by two numbers in its head.

`PROJECT.json` lists every such hazard at its line with the properties that cover it.

### What makes each component correct

* Session: frames stay whole, ids distinct, every decoded push is handed out exactly once and
  in order or is the single one lost to a close, a call ends with the first cause, an alias
  answer decides the call that asked for it, every call ends once the peer is lost.
* Registration: one identity per device, the udid the server issued it to, a stored
  identity is damaged by nobody who could load it, login answers decrypt, no socket
  outlives its client.
* Discovery: the deadline holds, the fallback is always tried, and last.
* Frame reading: whole frames, in order, never out of step.
* Stores: a save that meets no other repairs whatever the file held; Clients that take turns
  get one identity between them; a readable file settles the matter.
* Encodings and codecs: what is written can be read back, or the loss is an error; the front of
  a frame tells its length, its kind and its key.

## 2. Modules

| Module | Models | Checked by |
|---|---|---|
| `Session` | receiver, heartbeat, API threads, locks, queues, socket, server | `MCSession` |
| `PushStream` | abstract: the bounded FIFO of pushes the client promises | refined by `Session` |
| `Registration` | `register()` with store, codec key, server, close, crash, new Client | `MCRegistration` |
| `Discovery` | `resolve_servers` and `_connect` with time | `MCDiscovery` |
| `Framing` | `read_exact` and `read_raw_frame` | `MCFraming` |
| `SharedStore` | any number of Clients on one `FileStore` or `MemoryStore` | `MCSharedStore` |
| `Bodies` | `Reader` and the two codecs' `decode` | `MCBodies` |
| `Wire` | the encoders, `Writer`, the frame heads, `inspect_frame` | `MCWire` |
| `SessionProof` | types, first cause, request ids and frames of `Session` | TLAPS |
| `SessionQueues` | fate of pushes and alias answers; `Session` implements `PushStream` | TLAPS |
| `RegistrationProof` | identity, keys, file and sockets of `Registration` | TLAPS |
| `SharedStoreProof` | file and identity of `SharedStore` | TLAPS |
| `DiscoveryProof` | deadline and fallback of `Discovery` | TLAPS |
| `FramingProof` | order of frames in `Framing` | TLAPS |
| `BodiesProof` | what `decode` returns in `Bodies` | TLAPS |
| `WireProof` | fields, lengths and keys in `Wire` | TLAPS |

An operator with a comment that starts with `Mutant:` is not part of a model.  It is the
operator after it with a plausible bug; `PROJECT.json` says which property notices it.

### Session

`pc[t]` is the line thread `t` is about to execute; a step reaches to the next point where
another thread can observe or disturb it.

| `pc` | Code |
|---|---|
| `check`, `recv` | `_read_loop`: the test of `_done`; `read_raw_frame` and `decode` |
| `lock`, `send`, `flush` | `_write`: waiting for `_write_lock`; the first and the second part of a frame in `sendall` |
| `handover`, `put` | the `while not done` around `_pushes.put(timeout=0.1)`; the put |
| `wait` | `_done.wait(heartbeat_interval)` |
| `poll`, `isdone`, `get` | `_next_queue`: `get_nowait`; the look at `_done` and the deadline; the timed get |
| `close`, `setdone`, `shut` | `_close`: before `_close_lock`; before `_done.set()`; before the socket is closed under `_write_lock` |
| `idle`, `dead` | an application thread outside the API; a thread that has ended |

A frame is two halves, because `sendall` may hand it to the kernel in any number of pieces
and two are enough for pieces of different frames to mix.  `wire` holds the halves that
the server has not read; `SendRoom` of them block the next write.  `inbound` holds the frames on
their way to the client: a push, an ack, one that does not decode (`junk`), one whose length
prefix is refused (`short`), an ack of another command (`other`).  The peer is `up`, has closed
its end (`fin`: what it sent still arrives, the first whole frame written is answered with a
reset), or is gone (`rst`).  `received`, `acked`, `taken`, `gaveUp` and `ackDropped` are history
variables that only properties read.

Decryption, bodies and logging are left out.  A codec decodes or raises, as `Noise` says.  The
encoders are taken not to raise: the numbers they pack are masked, and a text that is too long
is written as an empty one (`Wire`).  `rid` is not bounded (64 bits in the code).  The callback of `run` and
the predicate of `wait_for_push` are a free choice: return, or go back for the next push.  What
a `register()` does to a Client whose loops run is part of `Registration`.

### Registration

One application thread runs `register()`, cut where it blocks, can fail or can be overtaken;
another calls `close()` at any moment; the process may crash; a closed Client may be dropped
and another built from the same `Config`, with the old codec or a new one.  `store` is the file:
absent, torn (`write_text` truncates first), or saved; it is this device's own.  `LoadFails` is a
load that raises, on an intact file too: the code goes on with what is in memory, and a Client that has
nothing there registers again.  `missed` remembers the call of `register()` that did so while
the file held the identity it `Needed`, and `forgotten` counts it.  The server issues juids in sequence and
records the udid each was issued to; a request, or its answer, may be lost or late, and an
answer on a connection the client no longer uses is never seen.  `key` is the juid whose key an
answer is encrypted with.

A `register()` on a live Client (`Live`) overwrites `_conn` while the receiver is blocked on the old
connection.  `rx` says which one it reads: a frame or the end of the old one moves it on or closes
the Client (`RxMoves`, `SessionEnds`); on the new one it competes for the bytes of register()'s answers
(`RxSteals`).  Of the session that module `Session` describes, its end is left, which takes
`_close_lock` and closes the socket in two steps like any other close, and the writes that such a close may have to
wait for: `_close` takes `_write_lock`, which the heartbeat, the receiver or `set_alias` may hold in a
`sendall` that does not return (`SessionWrites`, `writing`).  Writes that nobody waits for are left out.
`_set_timeout` does nothing on a connection without `settimeout`, which `Config.dial` may return; `timed` says
whether there is one.  Sockets of a Client that is dropped are assumed to be closed by the garbage
collector.

### Discovery

Time is counted in units from the call.  A query or a dial takes any time up to the timeout
`_remaining` leaves it; a timeout of 0 makes it fail at once.  `create_connection` gives the
timeout to every IP address of a name (`Resolved`).  The name lookup itself has no
timeout in the code and is not counted.

### Framing

Bytes are counted, not represented: a frame is where it starts, how long it is and whether the
flag bit is set in its length.  `recv` returns any part of what has arrived and was asked
for.  A prefix read where a frame starts is the frame's; read anywhere else it is any number, so
a reader that is out of step is seen to be.

### Bodies

A field's value is the bytes it is read from.  The server writes the fields of a response one by
one (`WriteField`), may leave optional ones off the end, and `Deliver` puts any prefix of the body
into the frame.  `Plan` lists the reads of a response, as far as the values it has got tell: a
code decides which ones follow it.  The server goes through it with what it wrote (`Layout`), `decode`
with what it read (`Reads`), which is `done` reads far in it.
What the server writes is known only from what the code reads, so the layouts say nothing about
the real server; the question is what becomes of them when a part is missing.
Decryption and the JSON of an alias answer are left out.

### Wire

A request is the list of numbers and strings its encoder writes; `Put` writes the next one at the
end of the buffer as `Writer` does, `Frame` puts the head of the codec before them, with the two numbers in it that
a key may be derived from.  A string is its length, a number its width, and a key the pair of
how and from what it is derived; AES is taken to turn the right key at the right offset into the
body and everything else into nothing, or into rubbish that happens to end like padding.
`Inspect` is `inspect_frame`, the only reader of requests in the repository: all keys that the
head allows, on what follows either head.  The head of a register request has the seed and, since the
device has no juid yet, 0 in its place; the others have the juid.

### SharedStore

Each Client goes through `register()` as `Registration` describes it, but only its accesses of
the store are steps of their own: the read, the opening that empties the file, the write.  The file is
the text of the last writer before what it did not overwrite of a longer text; a text is the number
of an identity, a length and whether there is a password, without which `Credentials.valid` refuses what
`_register` accepted.  Everything on the network is one step that works or fails.  `spoiled`, `raced`,
`missed` and `lost` are histories: a save that met another or broke off, a read of the store
while another Client was about to write it, a load that raised in a Client which needed it, and
an identity that no save put in the store or that is not valid.  They name what would have to be avoided for
the properties to hold without them.

### PushStream

A bounded FIFO that may be shut, after which one `LoseLast` may take the newest item and
end it.  `Session` implements it with `buffer` as the queue and the receiver's hand, and `phase`
from `_done` and the history of what was lost.

## 3. What TLC checks

| Run | Question | Bounds |
|---|---|---|
| `delivery` | Are pushes delivered once, in order, acknowledged first, and lost only by a close?  Is the first cause reported?  Does the session implement `PushStream`? | 2 waiting threads, one of which also closes; 3 pushes and a queue of 1, so the queue is full with one in hand and one behind; 1 frame of junk |
| `frames` | Do frames stay whole and ids distinct while all writers and a close meet?  Does every one of several alias calls get an answer? | 2 threads that set an alias, one of which also closes, a heartbeat, a push to acknowledge; room for 3 halves, so a frame can be cut by a full socket |
| `alias` | Does an answer decide its own call?  Does an answered `set_alias` return without a deadline? | 2 calls in sequence with and without deadline, silence, refusal, a push, junk or an ack of another command, both queues of 1 |
| `shutdown` | Does a lost peer end every call, does `close()` return, does the heartbeat end? | a `set_alias` call without a deadline that is never answered, and another thread that closes; 2 pushes nobody takes and a queue of 1, so the receiver is parked when the peer goes and only the heartbeat can notice |
| `rejection` | (violated) Is every refusal reported? | 1 call, a negative status |
| `identity` | Is the device's identity unique, consistent and safe in the file, over retries, failed loads, crashes, new Clients and calls on a live one?  Does `register()` return? | 3 calls, so a live Client can be asked again and fail; 2 Clients; 1 crash; answers with and without a password, connections with and without `settimeout`; 1.3 million states |
| `retry` | (violated) Does a `register()` that returns leave a receiving client? | 2 calls |
| `store` | Does a shared file stay readable?  Do Clients agree on one identity? | 3 Clients, texts of 3 lengths (shorter by one byte and by more), 3 registrations with and without a password, both kinds of store; 1.1 million states |
| `discovery` | Deadline, fallback, order | 2 SIS hosts, lists of up to 2 servers, deadline 5, 2 addresses for a name |
| `framing` | Whole frames, in step | 2 frames of lengths below, at and above the limits |
| `bodies` | Is a body that was cut short refused, and a whole one decoded? | every command of both codecs, 4 codes, 4 strings (one not UTF-8), every cut |
| `wire` | Can a request be read back?  Does its front tell what it is?  Can the capture tools open it? | every request of the three codecs with two strings of 0 and 1 bytes and around the limits: 32611-32740 (a frame of 32768, and the cipher block below it), 65535 and 65536 |

A queue of one shows what a queue of sixteen does: full, empty, and one more than fits.  Two threads
of a kind and two items per thread are enough for a wrong order to be seen.  Symmetry is used in
`store` alone, whose Clients are interchangeable and whose properties are all about safety.
Deadlock is not checked, as all of these systems stop by design: calls, pushes and beats are bounded
and a closed client does nothing.

### Fairness

`Session!LiveSpec` is weakly fair to the receiver, the heartbeat, the server's reading and each
application thread inside a call: the interpreter schedules every thread that can run, a lock that
is free is handed out, and timers fire.  It assumes nothing about the application (it need not call
anything), about the end of the connection, or about a `recv` that was blocked when another thread
closed the socket: Linux does not wake it, which is why no property claims that the receiver
thread ends.  The server's reading is fair only while it is connected; a connected peer that
never reads blocks `sendall`, and then `_close`, for ever.  `Registration!LiveSpec` is fair to
`register()`, to `close()` and to the close of a session thread: a dial keeps the timeout it is given, a store
call returns, and a send or a read has a timeout where the connection has `settimeout`.  It is not fair to
a send or a read on another connection (`Hung`), nor to the end of a `sendall` of a session thread.
`RegisterReturns` therefore has two exceptions: a `register()` that stays `Hung`, and one whose close is
`Blocked` behind writers again and again, since a Python lock need not go to who waits longest.  Without either
of them TLC finds the property violated.  The run `identity` checks its safety properties under that
specification too, which has the same reachable states.  `Discovery` and `Framing` are fair to the one thread they describe, and `Framing`
to the arrival of what was sent.

### What the checks found

* `rejection`: `set_alias` treats a status as a refusal only if it is positive, while both codecs
  decode it as a signed number.  A negative one is reported as success.
* `retry`: `_done` is never cleared.  A `register()` that follows a failed one on the same Client
  connects, logs in and returns, but its threads end at once.

Further limits are stated in the properties rather than reported.  `AliasAnswersItsCall` holds
until a call gives up: answers carry a request id, but the client does not compare it, so a late
answer decides the next call.  Two threads in `set_alias` take each other's answers as well;
`AnswersForAll` says that at least none is lost by it.  `AliasReturns` excuses an answer dropped at a
full `_acks` and one behind a push that meets a full `_pushes`; a receiver that is parked in this way
takes two pushes and is reached in `shutdown`, not in `alias`.  `PrefixTellsFrame` holds below 32768 bytes:
a longer frame is sent under a wrong length.  `OneIdentity` excludes Clients that look into the
store while another one is registering: both then get an identity, and the file keeps the last.

A load that raises on an intact file costs the device its identity: `RegisteredOnce` allows one more
registration for each, `StoredIdentityKept` lets a `register()` that missed the file replace it, and
`SessionKeepsIdentity` lets a later load bring the first identity back under a live session, if the
second one never reached the file.  `OneIdentity` and `SettledStays` exclude it too.  The comment at `client.py:150`
(custom stores may fail arbitrarily) shows that the code means to go on, so none of this is reported.
`NoSocketLeak` excludes a `register()` on a live or closed Client and a `close()` during one: both
leave a socket open.

## 4. What TLAPS proves

The theorems hold for every value of the constants: any sets of threads and Clients, any limits,
lengths, timeouts and bounds.  The assumptions are the named ASSUMEs of each module: names differ,
numbers are numbers, limits are above zero and in order.

`SessionProof`:

* `TypeCorrect`, `Spec => []TypeOK`.  The types are not inductive alone: `RxPut` queues the last push
  received, which exists only because the receiver got there through `RxPush`.  `HandHeld` says
  that, and `TypeInv == TypeOK /\ HandHeld` is inductive.  There is one lemma for each group of
  actions, with a step for each part of `TypeOK`.
* `FirstCauseReported`, `Spec => []ClosedErrorIsFirstCause`.  Inductive beside the types:
  `_close_error` changes only while `_done` is clear, and until then no call has ended that way.
* `RidsDistinct`, `Spec => []RidsUnique`.  Distinctness says nothing of the next id, so `RidInv` adds
  `RidsBelow`: no id in use exceeds `_rid`.
* `FramesStayWhole` and `CloseCutsNothing`, `Spec => []FramesWhole` and `Spec => []CloseNeverTears`.
  Neither is inductive.  `FrameInv` says who may be inside `sendall` (`LockHeld`: the holder of
  `_write_lock`), that ids are positive, how the halves on the wire alternate from where the server
  is (`WireWhole`), that their number is odd exactly while a thread is between its two halves, the
  last one being its own (`CutByWriter`), and that nobody is there once the socket is closed
  (`NoneCut`).  `FrameKeep` and `FrameOther` carry all steps that do not write; `FrameFirst`,
  `FrameSecond` and `FrameRead` do the arithmetic.

`SessionQueues`, on what is under way between the threads:

* `PushesAccounted`, `Spec => []PushAccounting`.  Inductive beside `TypeInv`.  The proof follows one push:
  decoded into the receiver's hand, queued, taken; or given up in the put loop after `_done`, which
  leaves the receiver where it can only end.
* `AckedBeforeSeen`, `Spec => []AckedFirst`.  `AckedAll` counts what was decoded instead of what can be
  seen, and excuses the push being acknowledged; `PushAccounting` turns the one into the other.
* `ImplementsPushStream`, `Spec => IsPushStream`, the refinement that `delivery` checks.  `PushAccounting`
  is most of it: from it a push is missing (`Lost`) only after `_done`, in a receiver that
  is about to end.  `PushesNumbered` adds that only pushes the server has numbered are on their way,
  which `Accept` wants.  Then each step is one of the stream: `RxPush` accepts, `TakePush` hands
  out, `CloseSetDone` shuts, `RxHandover` after a close loses the last, and `RxPut` only moves a push
  from the receiver's hand to the queue, which the stream does not see.
* `AnswersSuffice`, `Spec => []AnswersForAll`.  The property is an equation of four cardinalities, and
  `NoneMissing` is the same with the answers counted along a sequence, so that `Append` and `Tail` change a
  count by one (`CountAppend`, `CountTail`, `CountFront`).  `LinesKnown` says who writes requests: no other
  thread's frame may count as one.  `NoneLeftOver` is the half that survives a lost connection and lost
  answers: no more answers are due than calls wait for one.
* `AnswersTheirCall`, `AliasAnswersItsCall`, where one thread sets aliases and a request gets at most one
  answer.  With two threads the property is false, since the client compares no request id, and that is
  why the hypothesis is there; `AnswersForAll` is what remains.  `OwnAnswers` lists the ids that are due
  from the server's end of `wire` to the head of `_acks` (`DueIds`) and says that all are that of the
  thread's last request; by `NoneLeftOver` none is due any more when it makes the next one.

`RegistrationProof`, each from an invariant beside the types:

* `IdentityConsistent` and `LoginReadable`, `IdentityMatches` and `LoginDecrypts`.  An answer is matched with
  a request by its connection alone, so `InTurn` says what may be under way on the current one:
  nothing before the request (`Quiet`), one registration under the udid in memory (`Asked`), one login
  under the juid the codec has just switched to (`LoginAsked`).  `Requested` and `UdidsReal` keep older
  requests, which the server may still answer, on older connections.
* `IdentityOnce`, `RegisteredOnce`: `HeldInv` counts the identity that is in memory or in the file, and what
  may still come for one that a load did not bring back (`Spare`).  It says that memory and file hold the same
  one unless a load failed (`OneHeld`), and that who asks for another has none and the file has none either,
  or this call's load failed (`AskedWithout`).
* `FileKept` and `SessionIdentity`, the action properties `StoredIdentityKept` and `SessionKeepsIdentity`,
  from the same invariant.
* `SocketsClosed`, `NoSocketLeak`: `SocketInv` follows the socket through the threads that may close it.

`SharedStoreProof`: `SaveLeavesWholeFile` (`FileIsWhole`; `WholeInv` says what the file may hold while one
Client writes it, or several), `RegisteredByOne` (`OneIdentity`; `OneInv` says that without `raced`, `missed` and
`lost` a single Client is between the read and the write, has no identity before it and a valid one
after, and that the store then holds it), and `IdentitySettles` (`SettledStays`), which needs no more
than the types and names the one step that ends it (`Misses`).

`DiscoveryProof`: `FallbackLast` (the fallback stays at the end of what is still to be dialled), `DeadlineKept`
and `FallbackHasTime`.  The last two are about sums over hosts and addresses: each step spends at most
what `_remaining` leaves, and a silent host at most `SIS_TIMEOUT`.

`FramingProof`: `FramesReturnedInOrder`, `FramesInOrder`.  `FrameInv` says that frames lie end to end in the
stream (`EndToEnd`), which length the reader expects of the next one (`InStep`), and where in it
the reader is.  That each frame carries its start replaces a sum over the frames before it,
which could not be proved about.

`BodiesProof`, for any codes and any strings, UTF-8 or not:

* `TypeCorrect`, `Spec => []TypeOK`: bytes stay bytes and the cursor stays in the body, whatever length a string claims.
* `ReturnsWhatWasWritten` and `WholeBodiesDecode`, `ReturnedIsWritten` and `WholeBodyDecodes`.  Neither says
  anything while decoding goes on.  `InStep` does: the values so far are the first fields, the cursor is where
  the next field starts, the error is set exactly if one of them was not UTF-8, and a string that was
  passed over was an optional one with no room left.  A read that finds too little of the body leaves
  that state for good, with the error set, and only in a body that was cut (`StepInv`).  `ServerInv` says
  that the fields fit the layout and lie end to end; `SameLayout` that `decode` follows the layout of the
  server, as its first value is the server's code; `WholeFieldRead` and `ShortFieldRead` what one read
  makes of one field.  `RegularPlan` (only optional reads follow an optional one) is why passing one over
  cannot put the next read out of step.

Writing the theorem down showed that `WholeBodyDecodes` had been too strong: it took any field with the bytes
of a malformed string for one, and a juid may have them.  The property now asks for a field
that is read as a string.

`WireProof`, for strings of any length:

* `ReadersFindFields`, `FieldsReadBack`: `FieldsInv` says that each field starts where the one before it ends
  and takes the bytes its reader skips; a field carries its place, for the same reason as a frame does
  in `Framing`.
* `PrefixesTell`, `PrefixTellsFrame`: `FrameInv` says what the front of a complete frame is made of; `FlagBits`
  and `PadFills` are its arithmetic.
* `CapturesOpen`, `InspectionOpens`: `HeadTellsKey` compares the two numbers of the head with the key for each
  command; `RegisterInv` says that what an iOS register request has written and has still to write are the
  fields the capture tool reads.

Only model-checked: liveness, as the provers have no rule for it (`AliasReturns`, `PeerLossEndsCalls`,
`CloseReturns`, `CloseEndsHeartbeat`, `RegisterReturns`, `SearchEnds`, `FirstFrameReturned`); and
`AliasAnswersItsCall` where several threads set aliases one at a time or a request is answered
more than once.  Every other property of the passing runs has its theorem.

## 5. What is not modelled, and why

* AES, MD5 and the arithmetic of `derive_jcore_key`: library arithmetic; a key is what it is made from.
* `capture.py` beyond `inspect_frame` and the layout of an iOS register body: `decode_register_response` and
  `try_decrypt_seed` print what they find, with the `Reader` that `Bodies` models.
* The JSON of an alias answer: a payload that does not parse is a success on purpose, and what a status
  does afterwards is in `Session`.
* The SIS datagram (`build_sis_request`) and the parsing of addresses: one fixed layout and texts;
  `Discovery` has what the answer leads to.
* The texts of `build_register_params`, `errors.py`, `__init__.py`, accessors of `models.py`: no behaviour.
* Directory creation and modes in `FileStore`; DNS.
* A `recv` that stays blocked on a closed socket: the outcome is a free choice, so nothing can be said
  of the receiver's end.

## 6. Plan

In order of importance.  Done: 1-10.

1. `Session`, `PushStream`: the session and its abstract promise.
2. `Registration`: identity across failures and restarts.
3. `Discovery`, `Framing`, `Bodies`.
4. `SessionProof`: types, first cause, distinct ids and whole frames of the session.
5. `SessionQueues`: the fate of pushes.
6. `Wire`: widths, lengths that are cut without an error, heads and keys.
7. `Registration` extended: `register()` on a live Client.
8. `SharedStore`: several Clients on one store.
9. Proofs of the other components and of the refinement: `RegistrationProof`, `SharedStoreProof`,
   `DiscoveryProof`, `FramingProof`, `ImplementsPushStream`.
10. Proofs about alias answers (`AnswersSuffice`, `AnswersTheirCall`), `BodiesProof`, `WireProof`.
11. A server that sends unacknowledged pushes again: what "once" can then mean.
12. A custom codec or log callback that raises inside a session thread.
