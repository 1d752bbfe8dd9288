---------------------------- MODULE Registration ----------------------------
(***************************************************************************)
(* The life of a device's identity: register() run by an application       *)
(* thread, close() run by another one, the credential file that outlives   *)
(* them, the JCore codec's keys, and the server that issues registrations. *)
(*                                                                         *)
(* register() is cut at every point where it blocks, can fail, or can be   *)
(* overtaken by close() or by a crash of the process.  The file is this     *)
(* device's own: several Clients with one file are module SharedStore.  Of *)
(* what happens on a connection once the client is logged in, which is     *)
(* module Session, only the locks that register() may wait for are here.   *)
(***************************************************************************)
EXTENDS Naturals, Sequences, FiniteSets

CONSTANTS
  FreshCodec,   \* subset of BOOLEAN: may a new Client get a new codec, or the old
  Passwords,    \* subset of BOOLEAN: does a registration come with a password
  Timeouts,     \* subset of BOOLEAN: does a dialled connection have settimeout
  MaxCalls,     \* bound: calls of register()
  MaxClients,   \* bound: Client objects built after the first
  MaxCrashes    \* bound: crashes of the process

ASSUME ChoicesAssumption ==
  {FreshCodec, Passwords, Timeouts} \subseteq SUBSET BOOLEAN
ASSUME BoundsAssumption == {MaxCalls, MaxClients, MaxCrashes} \subseteq Nat

App == "app"        \* the thread that calls register()
Closer == "closer"  \* a thread that calls close()
Session == "session"  \* the session thread that closes the Client
Threads == {App, Closer, Session}
Nobody == "nobody"

VARIABLES
  pc,         \* the line each thread is about to execute
  creds,      \* Client.credentials
  codecJuid,  \* JCore473Codec.juid, 0 before the first login
  conn,       \* _conn: "none", "open" or "closed"
  link,       \* which connection that is
  timed,      \* it has the timeout of register() on it (_set_timeout)
  done,       \* _done
  closeLock,  \* holder of _close_lock
  writing,    \* some thread is in _write and holds _write_lock
  loops,      \* _loops_started
  rx,         \* where the receiver reads: nowhere, "current" connection or "old"
  store,      \* the credential file
  issued,     \* server: the udid each juid was issued to
  pending,    \* requests the server has not processed
  answer,     \* what the server sent on the current connection
  result,     \* how the last register() of this Client ended
  adopted,    \* history: complete registrations the device received
  forgotten,  \* history: identities that died with their Client, not in the file,
              \* or that a load did not bring back from it
  missed,     \* history: the last register() of this Client, by its number, whose
              \* load did not bring back the identity it needed; 0 for none
  udids,      \* history: udids generated
  appClosed,  \* history: close() was called on this Client
  misused,    \* history: register() on a live or closed Client, or during close()
  leaked,     \* history: open sockets the client no longer refers to
  env         \* what has been used of the bounds

lockVars == <<closeLock, writing>>
linkVars == <<link, timed>>
clientVars == <<creds, conn, done, lockVars, loops, result, appClosed, misused>>
serverVars == <<issued, pending>>
historyVars == <<adopted, forgotten, missed, udids, leaked>>
vars == <<pc, clientVars, codecJuid, linkVars, rx, store, serverVars, answer,
          historyVars, env>>

(* Credentials keep their juid and udid, 0 for none, and whether a password *)
(* came with them; reg_id is never empty beside a juid (client.py:269).     *)
NoCredentials == [juid |-> 0, udid |-> 0, password |-> FALSE]
Credentials == [juid : Nat, udid : Nat, password : BOOLEAN]
Valid(c) == c.juid # 0 /\ c.password

Absent == [state |-> "absent", creds |-> NoCredentials]
Torn == [state |-> "torn", creds |-> NoCredentials]
Saved(c) == [state |-> "saved", creds |-> c]
Files == [state : {"absent", "torn", "saved"}, creds : Credentials]

NoAnswer == [kind |-> "none", juid |-> 0, password |-> FALSE, key |-> 0]
Answer(kind, juid, password, key) ==
  [kind |-> kind, juid |-> juid, password |-> password, key |-> key]
Answers == [kind : {"none", "register", "login", "refused", "other"}, juid : Nat,
            password : BOOLEAN, key : Nat]
Requests == [kind : {"register", "login"}, id : Nat, link : Nat]

Init ==
  /\ pc = [t \in Threads |-> "idle"]
  /\ creds = NoCredentials /\ codecJuid = 0
  /\ conn = "none" /\ link = 0 /\ timed = FALSE /\ writing = FALSE
  /\ done = FALSE /\ closeLock = Nobody
  /\ loops = FALSE /\ rx = "nowhere" /\ store = Absent
  /\ issued = <<>> /\ pending = {} /\ answer = NoAnswer
  /\ result = "none"
  /\ adopted = 0 /\ forgotten = 0 /\ missed = 0 /\ udids = 0
  /\ appClosed = FALSE /\ misused = FALSE /\ leaked = 0
  /\ env = [calls |-> 0, clients |-> 0, crashes |-> 0]

Goto(t, line) == pc' = [pc EXCEPT ![t] = line]
Use(what) == env' = [env EXCEPT ![what] = @ + 1]

-----------------------------------------------------------------------------
(* register(): _store_load, _connect, _register, _store_save, _login.      *)

\* The session threads of this Client run.
Live == loops /\ ~done

Register ==
  /\ pc[App] = "idle" /\ env.calls < MaxCalls
  /\ Use("calls")
  /\ result' = "none"
  /\ misused' = (misused \/ done \/ Live \/ pc[Closer] # "idle")
  /\ Goto(App, "load")
  /\ UNCHANGED <<creds, codecJuid, conn, linkVars, rx, done, lockVars, loops,
                 store, serverVars, answer, historyVars, appClosed>>

\* Mutant: the file is not read.
LoadNothing ==
  /\ pc[App] = "load"
  /\ Goto(App, "connect")
  /\ UNCHANGED <<clientVars, codecJuid, linkVars, rx, store, serverVars, answer,
                 historyVars, env>>

\* Mutant: what the file holds is used whether it is complete or not.
LoadAny ==
  /\ pc[App] = "load"
  /\ creds' = IF store.state = "saved" THEN store.creds ELSE creds
  /\ Goto(App, "connect")
  /\ UNCHANGED <<codecJuid, conn, linkVars, rx, done, lockVars, loops, result,
                 appClosed, misused, store, serverVars, answer, historyVars, env>>

\* A file that is missing, does not parse or is not valid leaves the
\* credentials in memory as they are.
Load ==
  /\ pc[App] = "load"
  /\ creds' = IF store.state = "saved" /\ Valid(store.creds)
              THEN store.creds ELSE creds
  /\ Goto(App, "connect")
  /\ UNCHANGED <<codecJuid, conn, linkVars, rx, done, lockVars, loops, result,
                 appClosed, misused, store, serverVars, answer, historyVars, env>>

\* The file holds the identity that the Client has not.
Needed == Valid(store.creds) /\ ~Valid(creds)

\* _store_load raises, whatever the file holds; register() goes on with what is
\* in memory.
LoadFails ==
  /\ pc[App] = "load"
  /\ forgotten' = IF Needed THEN forgotten + 1 ELSE forgotten
  /\ missed' = IF Needed THEN env.calls ELSE missed
  /\ Goto(App, "connect")
  /\ UNCHANGED <<clientVars, codecJuid, linkVars, rx, store, serverVars, answer,
                 adopted, udids, leaked, env>>

\* Mutant: register() always asks for a registration.
ConnectAndRegister ==
  /\ pc[App] = "connect"
  /\ conn' = "open" /\ link' = link + 1 /\ timed' \in Timeouts /\ answer' = NoAnswer
  /\ leaked' = leaked + (IF conn = "open" THEN 1 ELSE 0)
  /\ Goto(App, "register")
  /\ rx' = IF rx = "current" THEN "old" ELSE rx
  /\ UNCHANGED <<creds, codecJuid, done, lockVars, loops, result, appClosed,
                 misused, store, serverVars, adopted, forgotten, missed, udids,
                 env>>

\* Some server answers the dial; _conn is overwritten whatever it held.  A
\* receiver that waits in recv goes on with the old connection.
Connect ==
  /\ pc[App] = "connect"
  /\ conn' = "open" /\ link' = link + 1 /\ timed' \in Timeouts /\ answer' = NoAnswer
  /\ leaked' = leaked + (IF conn = "open" THEN 1 ELSE 0)
  /\ Goto(App, IF Valid(creds) THEN "login" ELSE "register")
  /\ rx' = IF rx = "current" THEN "old" ELSE rx
  /\ UNCHANGED <<creds, codecJuid, done, lockVars, loops, result, appClosed,
                 misused, store, serverVars, adopted, forgotten, missed, udids,
                 env>>

\* Mutant: register() raises without closing the client.
FailsOpen ==
  /\ pc[App] \in {"connect", "register", "registering", "login", "loggingin"}
  /\ Goto(App, "idle")
  /\ UNCHANGED <<clientVars, codecJuid, linkVars, rx, store, serverVars, answer,
                 historyVars, env>>

\* Mutant: the reads have no timeout.
FailsToSend ==
  /\ pc[App] \in {"connect", "register", "login"}
  /\ Goto(App, "close")
  /\ UNCHANGED <<clientVars, codecJuid, linkVars, rx, store, serverVars, answer,
                 historyVars, env>>

\* An exception ends register(): no server answers the dial, a send or a read
\* fails or runs into its timeout, or the answer is not the one expected.  The
\* timeout is taken off the connection, as it is after the last read.
Fails ==
  /\ pc[App] \in {"connect", "register", "registering", "login", "loggingin"}
  /\ Goto(App, "close")
  /\ timed' = FALSE
  /\ UNCHANGED <<clientVars, codecJuid, link, rx, store, serverVars, answer,
                 historyVars, env>>

\* _ensure_identity and the register request.  The udid stays in the Client,
\* so a request sent again carries the same one.
SendRegister ==
  /\ pc[App] = "register" /\ conn = "open"
  /\ creds' = IF creds.udid = 0 THEN [creds EXCEPT !.udid = udids + 1] ELSE creds
  /\ udids' = IF creds.udid = 0 THEN udids + 1 ELSE udids
  /\ pending' = pending \union
       {[kind |-> "register", id |-> creds'.udid, link |-> link]}
  /\ Goto(App, "registering")
  /\ UNCHANGED <<codecJuid, conn, linkVars, rx, done, lockVars, loops, result,
                 appClosed, misused, store, issued, answer, adopted, forgotten,
                 missed, leaked, env>>

\* JCore473Codec._key_seed: the juid of the last login, else the register seed
\* (here 0).  An answer under another key does not decrypt.
KeySeed == codecJuid
Readable == answer.kind # "none" /\ answer.key = KeySeed

\* Mutant: the new credentials do not carry the udid over.
TakeRegistrationOnly ==
  /\ pc[App] = "registering" /\ Readable /\ answer.kind = "register"
  /\ creds' = [NoCredentials EXCEPT !.juid = answer.juid, !.password = answer.password]
  /\ adopted' = IF answer.password THEN adopted + 1 ELSE adopted
  /\ answer' = NoAnswer
  /\ Goto(App, "save")
  /\ UNCHANGED <<codecJuid, conn, linkVars, rx, done, lockVars, loops, result,
                 appClosed, misused, store, serverVars, forgotten, missed, udids,
                 leaked, env>>

\* Mutant: the answer itself is taken for the credentials.
TakeAnswer ==
  /\ pc[App] = "registering" /\ Readable /\ answer.kind = "register"
  /\ creds' = answer
  /\ answer' = NoAnswer
  /\ Goto(App, "save")
  /\ UNCHANGED <<codecJuid, conn, linkVars, rx, done, lockVars, loops, result,
                 appClosed, misused, store, serverVars, historyVars, env>>

TakeRegistration ==
  /\ pc[App] = "registering" /\ Readable /\ answer.kind = "register"
  /\ creds' = [juid |-> answer.juid, udid |-> creds.udid,
               password |-> answer.password]
  /\ adopted' = IF answer.password THEN adopted + 1 ELSE adopted
  /\ answer' = NoAnswer
  /\ Goto(App, "save")
  /\ UNCHANGED <<codecJuid, conn, linkVars, rx, done, lockVars, loops, result,
                 appClosed, misused, store, serverVars, forgotten, missed, udids,
                 leaked, env>>

\* FileStore.save empties the file, then writes it; a crash in between leaves
\* it torn.
SaveTruncate ==
  /\ pc[App] = "save"
  /\ store' = Torn
  /\ Goto(App, "write")
  /\ UNCHANGED <<clientVars, codecJuid, linkVars, rx, serverVars, answer,
                 historyVars, env>>

SaveWrite ==
  /\ pc[App] = "write"
  /\ store' = Saved(creds)
  /\ Goto(App, "login")
  /\ UNCHANGED <<clientVars, codecJuid, linkVars, rx, serverVars, answer,
                 historyVars, env>>

\* Persistence is best effort: an exception from the store is logged.
SaveFails ==
  /\ pc[App] \in {"save", "write"}
  /\ Goto(App, "login")
  /\ UNCHANGED <<clientVars, codecJuid, linkVars, rx, store, serverVars, answer,
                 historyVars, env>>

\* Mutant: encode_login leaves the codec's key.
SendLoginOldKey ==
  /\ pc[App] = "login" /\ conn = "open"
  /\ pending' = pending \union
       {[kind |-> "login", id |-> creds.juid, link |-> link]}
  /\ Goto(App, "loggingin")
  /\ UNCHANGED <<clientVars, codecJuid, linkVars, rx, store, issued, answer,
                 historyVars, env>>

\* encode_login switches the codec to the juid's key.
SendLogin ==
  /\ pc[App] = "login" /\ conn = "open"
  /\ codecJuid' = creds.juid
  /\ pending' = pending \union
       {[kind |-> "login", id |-> creds.juid, link |-> link]}
  /\ Goto(App, "loggingin")
  /\ UNCHANGED <<clientVars, linkVars, rx, store, issued, answer, historyVars,
                 env>>

TakeLogin ==
  /\ pc[App] = "loggingin" /\ Readable /\ answer.kind = "login"
  /\ answer' = NoAnswer
  /\ Goto(App, "start")
  /\ timed' = FALSE
  /\ UNCHANGED <<clientVars, codecJuid, link, rx, store, serverVars, historyVars,
                 env>>

\* _start_loops, once in the life of a Client; threads started after _done is
\* set end at once.
StartLoops ==
  /\ pc[App] = "start"
  /\ loops' = TRUE /\ result' = "ok"
  /\ rx' = IF loops THEN rx ELSE "current"
  /\ Goto(App, "idle")
  /\ UNCHANGED <<creds, conn, done, lockVars, appClosed, misused, codecJuid,
                 linkVars, store, serverVars, answer, historyVars, env>>

-----------------------------------------------------------------------------
(* close(), _close and the end of a session.                               *)

CallClose ==
  /\ pc[Closer] = "idle" /\ ~appClosed
  /\ appClosed' = TRUE /\ misused' = (misused \/ pc[App] # "idle")
  /\ Goto(Closer, "close")
  /\ UNCHANGED <<creds, conn, done, lockVars, loops, result, codecJuid, linkVars,
                 rx, store, serverVars, answer, historyVars, env>>

LeaveClose(t) ==
  /\ Goto(t, "idle")
  /\ result' = IF t = App THEN "failed" ELSE result

\* _close does nothing on a Client that is already closed.
CloseEnter(t) ==
  /\ pc[t] = "close" /\ closeLock = Nobody
  /\ IF done
     THEN LeaveClose(t) /\ UNCHANGED <<closeLock, done>>
     ELSE closeLock' = t /\ done' = TRUE /\ Goto(t, "shut") /\ UNCHANGED result
  /\ UNCHANGED <<creds, conn, writing, loops, appClosed, misused, codecJuid,
                 linkVars, rx, store, serverVars, answer, historyVars, env>>

CloseSocket(t) ==
  /\ pc[t] = "shut" /\ ~writing
  /\ conn' = IF conn = "open" THEN "closed" ELSE conn
  /\ closeLock' = Nobody
  /\ LeaveClose(t)
  /\ UNCHANGED <<creds, done, writing, loops, appClosed, misused, codecJuid,
                 linkVars, rx, store, serverVars, answer, historyVars, env>>

\* A session thread closes the Client (module Session): its own connection
\* ends, be it an old one, or the heartbeat meets one that is broken.
SessionEnds ==
  /\ Live /\ closeLock = Nobody
  /\ done' = TRUE /\ closeLock' = Session
  /\ Goto(Session, "shut")
  /\ UNCHANGED <<creds, conn, writing, loops, result, appClosed, misused,
                 codecJuid, linkVars, rx, store, serverVars, answer, historyVars,
                 env>>

\* _write, by the heartbeat, by the receiver for an acknowledgement or by
\* set_alias: nothing says when sendall returns.  Only who closes the Client
\* waits for it, so writes that begin and end while nobody does are left out.
SessionWrites ==
  /\ closeLock # Nobody /\ conn = "open" /\ ~writing
  /\ writing' = TRUE
  /\ UNCHANGED <<pc, creds, conn, done, closeLock, loops, result, appClosed,
                 misused, codecJuid, linkVars, rx, store, serverVars, answer,
                 historyVars, env>>

SessionWritten ==
  /\ writing
  /\ writing' = FALSE
  /\ UNCHANGED <<pc, creds, conn, done, closeLock, loops, result, appClosed,
                 misused, codecJuid, linkVars, rx, store, serverVars, answer,
                 historyVars, env>>

\* After a frame from the old connection the receiver reads the current one.
RxMoves ==
  /\ Live /\ rx = "old"
  /\ rx' = "current"
  /\ UNCHANGED <<pc, clientVars, codecJuid, linkVars, store, serverVars, answer,
                 historyVars, env>>

\* The receiver and register() read one socket: an answer that the receiver
\* takes, or a part of, does not reach register().
RxSteals ==
  /\ Live /\ rx = "current" /\ answer.kind # "none"
  /\ answer' = NoAnswer
  /\ UNCHANGED <<pc, clientVars, codecJuid, linkVars, rx, store, serverVars,
                 historyVars, env>>

-----------------------------------------------------------------------------
(* The server.                                                             *)

\* What reaches the client is an answer on the connection it still uses.
Reply(request, a) == answer' = IF request.link = link THEN a ELSE answer

\* A register request gets a new registration or a refusal, under the seed
\* that came with it.
SrvRegister ==
  \E r \in pending :
    /\ r.kind = "register"
    /\ pending' = pending \ {r}
    /\ \/ /\ issued' = Append(issued, r.id)
          /\ \E pw \in Passwords : Reply(r, Answer("register", Len(issued) + 1, pw, 0))
       \/ Reply(r, Answer("refused", 0, FALSE, 0)) /\ UNCHANGED issued
    /\ UNCHANGED <<pc, clientVars, codecJuid, linkVars, rx, store, historyVars,
                   env>>

\* A login is accepted, refused, or answered after some other frame, under the
\* key of its juid.
SrvLogin ==
  \E r \in pending :
    /\ r.kind = "login"
    /\ pending' = pending \ {r}
    /\ \E kind \in {"login", "refused", "other"} : Reply(r, Answer(kind, 0, FALSE, r.id))
    /\ UNCHANGED <<pc, clientVars, codecJuid, linkVars, rx, store, issued,
                   historyVars, env>>

\* A request is lost with its connection.
SrvLose ==
  \E r \in pending :
    /\ pending' = pending \ {r}
    /\ UNCHANGED <<pc, clientVars, codecJuid, linkVars, rx, store, issued, answer,
                   historyVars, env>>

-----------------------------------------------------------------------------
(* The device: a new Client, or a new process.                             *)

\* The identity of the Client that goes away is only in its memory.
Unsaved == Valid(creds) /\ store # Saved(creds)

NewClient ==
  /\ creds' = NoCredentials
  /\ conn' = "none" /\ timed' = FALSE /\ writing' = FALSE
  /\ done' = FALSE /\ closeLock' = Nobody /\ loops' = FALSE
  /\ rx' = "nowhere"
  /\ result' = "none" /\ appClosed' = FALSE /\ misused' = FALSE
  /\ answer' = NoAnswer
  /\ forgotten' = IF Unsaved THEN forgotten + 1 ELSE forgotten
  /\ missed' = 0 /\ leaked' = 0

\* The application drops a closed Client and builds another one from the same
\* Config, which may hold the codec the old one used.
Recreate ==
  /\ pc = [t \in Threads |-> "idle"] /\ done /\ env.clients < MaxClients
  /\ Use("clients")
  /\ NewClient
  /\ \E fresh \in FreshCodec : codecJuid' = IF fresh THEN 0 ELSE codecJuid
  /\ UNCHANGED <<pc, link, store, serverVars, adopted, udids>>

Crash ==
  /\ env.crashes < MaxCrashes
  /\ Use("crashes")
  /\ NewClient
  /\ pc' = [t \in Threads |-> "idle"] /\ codecJuid' = 0
  /\ link' = link + 1
  /\ UNCHANGED <<store, serverVars, adopted, udids>>

-----------------------------------------------------------------------------
Close(t) == CloseEnter(t) \/ CloseSocket(t)

AppStep ==
  \/ Load \/ LoadFails \/ Connect \/ Fails \/ SendRegister \/ TakeRegistration
  \/ SaveTruncate \/ SaveWrite \/ SaveFails \/ SendLogin \/ TakeLogin
  \/ StartLoops \/ Close(App)

Next ==
  \/ Register \/ AppStep \/ CallClose \/ Close(Closer)
  \/ SessionEnds \/ CloseSocket(Session) \/ SessionWrites \/ SessionWritten
  \/ RxMoves \/ RxSteals
  \/ SrvRegister \/ SrvLogin \/ SrvLose
  \/ Recreate \/ Crash

Spec == Init /\ [][Next]_vars

\* A send or a read of register() on a connection without settimeout.
Hung == ~timed /\ pc[App] \in {"register", "registering", "login", "loggingin"}

\* register() closes the Client, or waits for who does, behind a writer.
Blocked == writing /\ pc[App] \in {"close", "shut"}

\* Threads are scheduled; a dial ends, and so does a send or a read on a
\* connection with settimeout (DIAL_TIMEOUT, IO_TIMEOUT).  Nothing makes
\* another one end, nor a sendall of a session thread, nor a server answer.
LiveSpec ==
  Spec /\ WF_vars(~Hung /\ AppStep) /\ WF_vars(Close(Closer)) /\ WF_vars(CloseSocket(Session))

-----------------------------------------------------------------------------
(* What must hold.                                                         *)

\* Every variable holds a value of its kind.
TypeOK ==
  /\ pc \in [Threads -> {"idle", "load", "connect", "register", "registering",
                         "save", "write", "login", "loggingin", "start",
                         "close", "shut"}]
  /\ creds \in Credentials /\ codecJuid \in Nat
  /\ conn \in {"none", "open", "closed"} /\ link \in Nat /\ timed \in BOOLEAN
  /\ done \in BOOLEAN /\ closeLock \in Threads \union {Nobody}
  /\ writing \in BOOLEAN /\ loops \in BOOLEAN
  /\ rx \in {"nowhere", "current", "old"}
  /\ store \in Files /\ issued \in Seq(Nat)
  /\ pending \subseteq Requests /\ answer \in Answers
  /\ result \in {"none", "ok", "failed"}
  /\ {adopted, forgotten, missed, udids, leaked} \subseteq Nat
  /\ appClosed \in BOOLEAN /\ misused \in BOOLEAN
  /\ env \in [{"calls", "clients", "crashes"} -> Nat]

\* A device that has a complete identity does not get another one: it is given
\* a second one only when the first died with its Client before it was in the
\* file, or was in the file and the load of a Client without it raised
\* (test_reuse_stored_credentials_skips_register; client.py:150, :153, :165).
RegisteredOnce == adopted <= 1 + forgotten

\* The udid the device holds beside a juid, in memory or in the file, is the
\* one the server issued that juid to: login proves one with the other
\* (client.py:280, :299), across retries, late answers and crashes.
IdentityMatches ==
  \A c \in {creds, store.creds} :
    c.juid # 0 => c.juid \in DOMAIN issued /\ issued[c.juid] = c.udid

\* The answer to a login can be decrypted, whatever the codec was used for
\* before (encode_login switches the key first, codecs.py:364).
LoginDecrypts ==
  pc[App] = "loggingin" /\ answer.kind # "none" => answer.key = KeySeed

\* A valid identity in the file is replaced or damaged only by a register() that
\* did not see it, since its own load raised and no identity was in memory: not
\* by a later call, nor because a login failed (client.py:150, :163, :167).
StoredIdentityKept ==
  [][Valid(store.creds) /\ store' # store => missed = env.calls]_vars

\* A Client that is logged in keeps its identity: the session threads put its
\* juid into every heartbeat and acknowledgement, also while another register()
\* runs on the same Client (client.py:153, :277, :379).  The exception is a
\* Client that was given a second identity after a failed load and did not get
\* it into the file: a later load brings the first one back.
SessionKeepsIdentity ==
  [][Live /\ Live' /\ Valid(creds) =>
       \/ creds' = creds
       \/ missed > 0 /\ Valid(creds') /\ creds' = store.creds]_vars

\* A closed Client holds no open socket, if register() was called on it neither
\* while another connection was open nor while or after it was closed.
NoSocketLeak ==
  done /\ ~misused /\ (\A t \in Threads : pc[t] = "idle") =>
    conn # "open" /\ leaked = 0

\* When register() returns the receive loops run ("Connect, register if
\* necessary, log in, and start receive loops", client.py:141) unless the
\* application has closed the client.
RegisterStartsLoops ==
  [][result # "ok" /\ result' = "ok" => appClosed \/ Live']_vars

\* register() returns, even if the server never answers, unless it waits for
\* ever on a connection without settimeout, or its close() waits, again and
\* again or for ever, for a writer of the session.
RegisterReturns ==
  pc[App] = "load" ~> (pc[App] = "idle" \/ []Hung \/ []<>Blocked)
=============================================================================
