------------------------- MODULE RegistrationProof -------------------------
(***************************************************************************)
(* Proofs about Registration, for any bounds and any choice of codecs, of  *)
(* answers with or without a password and of connections with or without   *)
(* a timeout.                                                              *)
(***************************************************************************)
EXTENDS Registration, TLAPS

LEMMA ThreadFacts ==
  /\ {App, Closer, Session} \subseteq Threads
  /\ App # Closer /\ App # Session /\ Closer # Session
  /\ \A t \in Threads : t = App \/ t = Closer \/ t = Session
  BY DEF App, Closer, Session, Threads

Lines == {"idle", "load", "connect", "register", "registering", "save", "write",
          "login", "loggingin", "start", "close", "shut"}

\* Where a thread that moved to a line stands, and where the others do.
LEMMA GotoFacts ==
  ASSUME TypeOK, NEW t \in Threads, NEW line \in Lines, Goto(t, line)
  PROVE  pc' \in [Threads -> Lines] /\ pc'[t] = line /\ \A u \in Threads \ {t} : pc'[u] = pc[u]
  BY DEF TypeOK, Goto, Lines

-----------------------------------------------------------------------------
(* Types.                                                                  *)

\* The constants that variables are set to.
LEMMA ConstantTypes ==
  /\ NoCredentials \in Credentials /\ Absent \in Files /\ Torn \in Files
  /\ NoAnswer \in Answers
  /\ \A c \in Credentials : Saved(c) \in Files
  BY DEF NoCredentials, Credentials, Absent, Torn, Saved, Files, NoAnswer, Answers

LEMMA TypeInit == Init => TypeOK
<1> SUFFICES ASSUME Init PROVE TypeOK
  OBVIOUS
<1>1. pc \in [Threads -> Lines] /\ issued \in Seq(Nat) /\ pending \subseteq Requests
  BY DEF Init, Lines
<1>2. env \in [{"calls", "clients", "crashes"} -> Nat]
  BY DEF Init
<1> QED
  BY <1>1, <1>2, ConstantTypes DEF Init, TypeOK, Lines

LEMMA TypeCloseStep == ASSUME TypeOK, NEW t \in Threads, Close(t) PROVE TypeOK'
<1> USE ThreadFacts
<1>1. pc' \in [Threads -> Lines]
  BY GotoFacts DEF Close, CloseEnter, CloseSocket, LeaveClose, Lines
<1>2. closeLock' \in Threads \union {Nobody} /\ done' \in BOOLEAN
  BY DEF Close, CloseEnter, CloseSocket, TypeOK
<1>3. result' \in {"none", "ok", "failed"} /\ conn' \in {"none", "open", "closed"}
  BY DEF Close, CloseEnter, CloseSocket, LeaveClose, TypeOK
<1>4. UNCHANGED <<creds, writing, loops, appClosed, misused, codecJuid, link, timed, rx,
                  store, issued, pending, answer, adopted, forgotten, missed, udids,
                  leaked, env>>
  BY DEF Close, CloseEnter, CloseSocket, linkVars, serverVars, historyVars
<1> QED
  BY <1>1, <1>2, <1>3, <1>4 DEF TypeOK, Lines

LEMMA TypeApp == ASSUME TypeOK, Register \/ AppStep PROVE TypeOK'
<1> USE ThreadFacts, ConstantTypes
<1>0. pc \in [Threads -> Lines]
  BY DEF TypeOK, Lines
<1>1. ASSUME NEW t \in Threads, NEW line \in Lines, Goto(t, line) PROVE pc' \in [Threads -> Lines]
  BY <1>1, GotoFacts
<1>2. CASE Register
  <2>1. pc' \in [Threads -> Lines]
    BY <1>1, <1>2 DEF Register, Lines
  <2>2. env' \in [{"calls", "clients", "crashes"} -> Nat]
    BY <1>2 DEF Register, Use, TypeOK
  <2> QED
    BY <1>2, <2>1, <2>2
    DEF Register, TypeOK, Lines, serverVars, historyVars, linkVars, lockVars
<1>3. CASE Load
  <2>1. pc' \in [Threads -> Lines]
    BY <1>1, <1>3 DEF Load, Lines
  <2>2. creds' \in Credentials
    BY <1>3 DEF Load, TypeOK, Files
  <2> QED
    BY <1>3, <2>1, <2>2 DEF Load, TypeOK, Lines, linkVars, lockVars, serverVars, historyVars
<1>4. CASE LoadFails
  <2>1. pc' \in [Threads -> Lines]
    BY <1>1, <1>4 DEF LoadFails, Lines
  <2>2. forgotten' \in Nat /\ missed' \in Nat
    BY <1>4 DEF LoadFails, TypeOK
  <2> QED
    BY <1>4, <2>1, <2>2
    DEF LoadFails, TypeOK, Lines, clientVars, linkVars, lockVars, serverVars
<1>5. CASE Connect
  <2>1. pc' \in [Threads -> Lines]
    BY <1>1, <1>5 DEF Connect, Lines
  <2>2. leaked' \in Nat /\ link' \in Nat /\ timed' \in BOOLEAN /\ answer' \in Answers
    BY <1>5, ChoicesAssumption DEF Connect, TypeOK
  <2> QED
    BY <1>5, <2>1, <2>2 DEF Connect, TypeOK, Lines, serverVars, linkVars, lockVars
<1>6. CASE Fails
  <2>1. pc' \in [Threads -> Lines]
    BY <1>1, <1>6 DEF Fails, Lines
  <2> QED
    BY <1>6, <2>1
    DEF Fails, TypeOK, Lines, clientVars, serverVars, historyVars, linkVars, lockVars
<1>7. CASE SendRegister
  <2>1. pc' \in [Threads -> Lines]
    BY <1>1, <1>7 DEF SendRegister, Lines
  <2>2. creds' \in Credentials /\ udids' \in Nat
    <3>1. udids \in Nat /\ creds \in Credentials
      BY DEF TypeOK
    <3>2. udids + 1 \in Nat
      BY <3>1
    <3>3. [creds EXCEPT !.udid = udids + 1] \in Credentials
      BY <3>1, <3>2 DEF Credentials
    <3> QED
      BY <1>7, <3>1, <3>2, <3>3 DEF SendRegister
  <2>3. pending' \subseteq Requests
    BY <1>7, <2>2 DEF SendRegister, TypeOK, Requests, Credentials
  <2> QED
    BY <1>7, <2>1, <2>2, <2>3 DEF SendRegister, TypeOK, Lines, linkVars, lockVars
<1>8. CASE TakeRegistration
  <2>1. pc' \in [Threads -> Lines]
    BY <1>1, <1>8 DEF TakeRegistration, Lines
  <2>2. adopted' \in Nat
    BY <1>8 DEF TakeRegistration, TypeOK
  <2>3. creds' \in Credentials
    <3>1. answer.juid \in Nat /\ answer.password \in BOOLEAN /\ creds.udid \in Nat
      BY DEF TypeOK, Answers, Credentials
    <3> QED
      BY <1>8, <3>1 DEF TakeRegistration, Credentials
  <2> QED
    BY <1>8, <2>1, <2>2, <2>3
    DEF TakeRegistration, TypeOK, Lines, serverVars, linkVars, lockVars
<1>9. CASE SaveTruncate \/ SaveWrite \/ SaveFails
  <2>1. pc' \in [Threads -> Lines]
    BY <1>1, <1>9 DEF SaveTruncate, SaveWrite, SaveFails, Lines
  <2>2. store' \in Files
    BY <1>9 DEF SaveTruncate, SaveWrite, SaveFails, TypeOK
  <2> QED
    BY <1>9, <2>1, <2>2
    DEF SaveTruncate, SaveWrite, SaveFails, TypeOK, Lines, clientVars, serverVars,
         historyVars, linkVars, lockVars
<1>10. CASE SendLogin
  <2>1. pc' \in [Threads -> Lines]
    BY <1>1, <1>10 DEF SendLogin, Lines
  <2>2. codecJuid' \in Nat /\ pending' \subseteq Requests
    BY <1>10 DEF SendLogin, TypeOK, Requests, Credentials
  <2> QED
    BY <1>10, <2>1, <2>2
    DEF SendLogin, TypeOK, Lines, clientVars, historyVars, linkVars, lockVars
<1>11. CASE TakeLogin
  <2>1. pc' \in [Threads -> Lines]
    BY <1>1, <1>11 DEF TakeLogin, Lines
  <2> QED
    BY <1>11, <2>1
    DEF TakeLogin, TypeOK, Lines, clientVars, serverVars, historyVars, linkVars, lockVars
<1>12. CASE StartLoops
  <2>1. pc' \in [Threads -> Lines]
    BY <1>1, <1>12 DEF StartLoops, Lines
  <2> QED
    BY <1>12, <2>1
    DEF StartLoops, TypeOK, Lines, serverVars, historyVars, linkVars, lockVars
<1>13. CASE Close(App)
  BY <1>13, TypeCloseStep
<1> QED
  BY <1>2, <1>3, <1>4, <1>5, <1>6, <1>7, <1>8, <1>9, <1>10, <1>11, <1>12, <1>13 DEF AppStep

LEMMA TypeClose ==
  ASSUME TypeOK, \/ CallClose \/ Close(Closer) \/ CloseSocket(Session)
                 \/ SessionEnds \/ SessionWrites \/ SessionWritten
  PROVE  TypeOK'
<1> USE ThreadFacts
<1>1. CASE CallClose
  <2>1. pc' \in [Threads -> Lines]
    BY <1>1, GotoFacts DEF CallClose, Lines
  <2> QED
    BY <1>1, <2>1 DEF CallClose, TypeOK, Lines, serverVars, historyVars, linkVars, lockVars
<1>2. CASE SessionEnds
  <2>1. pc' \in [Threads -> Lines]
    BY <1>2, GotoFacts DEF SessionEnds, Lines
  <2> QED
    BY <1>2, <2>1 DEF SessionEnds, TypeOK, Lines, linkVars, serverVars, historyVars
<1>3. CASE SessionWrites \/ SessionWritten
  <2>1. writing' \in BOOLEAN
    BY <1>3 DEF SessionWrites, SessionWritten
  <2>2. UNCHANGED <<pc, creds, conn, done, closeLock, loops, result, appClosed, misused,
                    codecJuid, link, timed, rx, store, issued, pending, answer, adopted,
                    forgotten, missed, udids, leaked, env>>
    BY <1>3 DEF SessionWrites, SessionWritten, linkVars, serverVars, historyVars
  <2> QED
    BY <2>1, <2>2 DEF TypeOK
<1> QED
  BY <1>1, <1>2, <1>3, TypeCloseStep, ThreadFacts DEF Close

LEMMA TypeServer ==
  ASSUME TypeOK, RxMoves \/ RxSteals \/ SrvRegister \/ SrvLogin \/ SrvLose PROVE TypeOK'
<1> USE ConstantTypes
<1>1. CASE RxMoves \/ RxSteals
  BY <1>1
  DEF RxMoves, RxSteals, TypeOK, clientVars, serverVars, historyVars, linkVars, lockVars
<1>2. ASSUME NEW r \in pending, SrvRegister \/ SrvLogin \/ SrvLose
      PROVE  r \in Requests /\ r.id \in Nat
  BY DEF TypeOK, Requests
<1>3. CASE SrvRegister
  <2>1. PICK r \in pending :
          /\ r.kind = "register"
          /\ pending' = pending \ {r}
          /\ \/ /\ issued' = Append(issued, r.id)
                /\ \E pw \in Passwords : Reply(r, Answer("register", Len(issued) + 1, pw, 0))
             \/ Reply(r, Answer("refused", 0, FALSE, 0)) /\ UNCHANGED issued
          /\ UNCHANGED <<pc, clientVars, codecJuid, linkVars, rx, store, historyVars, env>>
    BY <1>3 DEF SrvRegister
  <2>2. issued' \in Seq(Nat)
    <3>1. r.id \in Nat /\ issued \in Seq(Nat)
      BY <1>2, <1>3, <2>1 DEF TypeOK
    <3>2. Append(issued, r.id) \in Seq(Nat)
      BY <3>1
    <3> QED
      BY <2>1, <3>1, <3>2
  <2>3. answer' \in Answers
    <3>1. Answer("refused", 0, FALSE, 0) \in Answers
      BY DEF Answer, Answers
    <3>2. \A pw \in Passwords : Answer("register", Len(issued) + 1, pw, 0) \in Answers
      BY ChoicesAssumption DEF Answer, Answers, TypeOK
    <3> QED
      BY <2>1, <3>1, <3>2 DEF Reply, TypeOK
  <2> QED
    BY <2>1, <2>2, <2>3 DEF TypeOK, clientVars, historyVars, linkVars, lockVars
<1>4. CASE SrvLogin
  <2>1. PICK r \in pending :
          /\ pending' = pending \ {r}
          /\ \E kind \in {"login", "refused", "other"} : Reply(r, Answer(kind, 0, FALSE, r.id))
          /\ UNCHANGED <<pc, clientVars, codecJuid, linkVars, rx, store, issued, historyVars, env>>
    BY <1>4 DEF SrvLogin
  <2>2. answer' \in Answers
    BY <1>2, <1>4, <2>1 DEF Reply, Answer, Answers, TypeOK
  <2> QED
    BY <2>1, <2>2 DEF TypeOK, clientVars, historyVars, linkVars, lockVars
<1>5. CASE SrvLose
  BY <1>5 DEF SrvLose, TypeOK, clientVars, historyVars, linkVars, lockVars
<1> QED
  BY <1>1, <1>3, <1>4, <1>5

LEMMA TypeDevice == ASSUME TypeOK, Recreate \/ Crash PROVE TypeOK'
<1> USE ThreadFacts, ConstantTypes
<1>1. env' \in [{"calls", "clients", "crashes"} -> Nat]
  BY DEF Recreate, Crash, Use, TypeOK
<1>2. /\ forgotten' \in Nat /\ missed' \in Nat /\ codecJuid' \in Nat /\ link' \in Nat
      /\ leaked' \in Nat
  BY DEF Recreate, Crash, NewClient, TypeOK
<1>3. pc' \in [Threads -> Lines]
  BY DEF Recreate, Crash, Lines, TypeOK
<1> QED
  BY <1>1, <1>2, <1>3
  DEF Recreate, Crash, NewClient, TypeOK, Lines, serverVars, linkVars, lockVars

LEMMA TypeNext == TypeOK /\ [Next]_vars => TypeOK'
<1> SUFFICES ASSUME TypeOK, [Next]_vars PROVE TypeOK'
  OBVIOUS
<1>1. CASE UNCHANGED vars
  BY <1>1 DEF vars, clientVars, linkVars, lockVars, serverVars, historyVars, TypeOK
<1> QED
  BY <1>1, TypeApp, TypeClose, TypeServer, TypeDevice DEF Next

\* The types of Registration hold in every reachable state.
THEOREM TypeCorrect == Spec => []TypeOK
  BY TypeInit, TypeNext, PTL DEF Spec

-----------------------------------------------------------------------------
(* Identity: what the client and the server hold of one registration.      *)

\* Requests are on this connection or an earlier one; each udid is a real one.
Requested == \A r \in pending : r.link <= link /\ (r.kind = "register" => r.id # 0)
UdidsReal == \A j \in DOMAIN issued : issued[j] # 0

\* Nothing is asked or answered on the current connection.
Quiet == answer.kind = "none" /\ \A r \in pending : r.link # link

\* One registration is asked for, under the udid in memory, or was answered.
Asked ==
  /\ \A r \in pending : r.link = link =>
       r.kind = "register" /\ r.id = creds.udid /\ answer.kind = "none"
  /\ answer.kind = "register" =>
       answer.juid \in DOMAIN issued /\ issued[answer.juid] = creds.udid

\* One login is asked for, under the codec's key, or was answered.
LoginAsked ==
  /\ \A r \in pending : r.link = link =>
       r.kind = "login" /\ r.id = codecJuid /\ answer.kind = "none"
  /\ answer.kind # "none" => answer.key = codecJuid

\* The lines of register() that neither wait for an answer nor are about to ask.
Apart == {"idle", "load", "connect", "start", "close", "shut"}
Between == {"register", "save", "write", "login"}

InTurn ==
  /\ pc[App] \in Between => Quiet
  /\ pc[App] = "registering" => Asked
  /\ pc[App] = "loggingin" => LoginAsked

IdInv == IdentityMatches /\ Requested /\ UdidsReal /\ InTurn

LEMMA IdInit == Init => IdInv
  BY DEF Init, IdInv, IdentityMatches, Requested, UdidsReal, InTurn, Threads, Absent,
         NoCredentials, Between, App

\* Steps to or between lines that have no request under way.
LEMMA IdApart ==
  ASSUME TypeOK, IdInv, pc'[App] \in Apart,
         pending' \subseteq pending, link' \in {link, link + 1}, issued' = issued,
         creds' \in {creds, store.creds, NoCredentials}, store' = store
  PROVE  IdInv'
<1>1. IdentityMatches'
  BY DEF IdInv, IdentityMatches, NoCredentials
<1>2. Requested'
  BY DEF IdInv, Requested, TypeOK, Requests
<1> QED
  BY <1>1, <1>2 DEF IdInv, UdidsReal, InTurn, Apart, Between

\* Steps that leave the current request and the credentials in memory alone.
LEMMA IdSame ==
  ASSUME TypeOK, IdInv, UNCHANGED <<creds, codecJuid, link, issued>>,
         pending' \subseteq pending, answer' \in {answer, NoAnswer},
         store'.creds \in {store.creds, creds, NoCredentials},
         pc'[App] = pc[App] \/ (pc[App] \in Between /\ pc'[App] \in Between)
  PROVE  IdInv'
<1>1. IdentityMatches'
  BY DEF IdInv, IdentityMatches, NoCredentials
<1>2. Requested'
  BY DEF IdInv, Requested
<1>3. InTurn'
  BY DEF IdInv, InTurn, Quiet, Asked, LoginAsked, NoAnswer, Between
<1> QED
  BY <1>1, <1>2, <1>3 DEF IdInv, UdidsReal

LEMMA SameRequest ==
  ASSUME NEW r \in Requests, NEW s \in Requests,
         r.kind = s.kind, r.id = s.id, r.link = s.link
  PROVE  r = s
  BY DEF Requests

LEMMA IdConnect == ASSUME TypeOK, IdInv, Connect PROVE IdInv'
<1>1. pc'[App] \in Between
  BY DEF Connect, Goto, TypeOK, Threads, Between, App
<1>2. Quiet'
  BY DEF Connect, IdInv, Requested, Quiet, NoAnswer, TypeOK, Requests, serverVars
<1>3. Requested'
  BY DEF Connect, IdInv, Requested, TypeOK, Requests, serverVars
<1> QED
  BY <1>1, <1>2, <1>3
  DEF Connect, IdInv, IdentityMatches, UdidsReal, InTurn, Between, serverVars

LEMMA IdSendRegister == ASSUME TypeOK, IdInv, SendRegister PROVE IdInv'
<1> DEFINE q == [kind |-> "register", id |-> creds'.udid, link |-> link]
<1>1. pc'[App] = "registering" /\ pc[App] = "register"
  BY DEF SendRegister, Goto, TypeOK, Threads, App
<1>2. Quiet
  BY <1>1 DEF IdInv, InTurn, Between
<1>3. /\ pending' = pending \union {q} /\ UNCHANGED <<link, issued, answer, store>>
      /\ creds'.udid \in Nat \ {0} /\ creds'.juid = creds.juid
      /\ creds.udid # 0 => creds' = creds
  BY DEF SendRegister, TypeOK, Credentials, linkVars
<1>4. IdentityMatches'
  <2>1. CASE creds.udid # 0
    BY <1>3, <2>1 DEF IdInv, IdentityMatches
  <2>2. CASE creds.udid = 0
    <3>1. creds'.juid = 0
      BY <1>3, <2>2 DEF IdInv, IdentityMatches, UdidsReal
    <3> QED
      BY <1>3, <3>1 DEF IdInv, IdentityMatches
  <2> QED
    BY <2>1, <2>2
<1>5. Requested'
  BY <1>3 DEF IdInv, Requested, TypeOK
<1>6. Asked'
  BY <1>2, <1>3 DEF Quiet, Asked
<1> QED
  BY <1>1, <1>3, <1>4, <1>5, <1>6 DEF IdInv, UdidsReal, InTurn, Between

LEMMA IdTakeRegistration == ASSUME TypeOK, IdInv, TakeRegistration PROVE IdInv'
<1>1. pc[App] = "registering" /\ pc'[App] = "save"
  BY DEF TakeRegistration, Goto, TypeOK, Threads, App
<1>2. Asked
  BY <1>1 DEF IdInv, InTurn
<1>3. /\ answer.kind = "register" /\ answer'.kind = "none"
      /\ UNCHANGED <<pending, issued, link, store>>
      /\ creds'.juid = answer.juid /\ creds'.udid = creds.udid
  BY DEF TakeRegistration, linkVars, serverVars, NoAnswer
<1>4. Quiet'
  BY <1>2, <1>3 DEF Asked, Quiet
<1>5. IdentityMatches'
  BY <1>2, <1>3 DEF Asked, IdInv, IdentityMatches
<1> QED
  BY <1>1, <1>3, <1>4, <1>5 DEF IdInv, Requested, UdidsReal, InTurn, Between

LEMMA IdSendLogin == ASSUME TypeOK, IdInv, SendLogin PROVE IdInv'
<1>1. pc[App] = "login" /\ pc'[App] = "loggingin"
  BY DEF SendLogin, Goto, TypeOK, Threads, App
<1>2. Quiet
  BY <1>1 DEF IdInv, InTurn, Between
<1>3. /\ UNCHANGED <<creds, link, issued, answer, store>> /\ codecJuid' = creds.juid
      /\ pending' = pending \union {[kind |-> "login", id |-> creds.juid, link |-> link]}
  BY DEF SendLogin, clientVars, linkVars
<1>4. LoginAsked'
  BY <1>2, <1>3 DEF Quiet, LoginAsked
<1>5. Requested'
  BY <1>3 DEF IdInv, Requested, TypeOK
<1> QED
  BY <1>1, <1>3, <1>4, <1>5 DEF IdInv, IdentityMatches, UdidsReal, InTurn, Between

LEMMA IdSrvRegister == ASSUME TypeOK, IdInv, SrvRegister PROVE IdInv'
<1>1. PICK r \in pending :
        /\ r.kind = "register"
        /\ pending' = pending \ {r}
        /\ \/ /\ issued' = Append(issued, r.id)
              /\ \E pw \in Passwords : Reply(r, Answer("register", Len(issued) + 1, pw, 0))
           \/ Reply(r, Answer("refused", 0, FALSE, 0)) /\ UNCHANGED issued
        /\ UNCHANGED <<pc, clientVars, codecJuid, linkVars, rx, store, historyVars, env>>
  BY DEF SrvRegister
<1>2. UNCHANGED <<pc, creds, codecJuid, link, store>>
  BY <1>1 DEF clientVars, linkVars
<1>3. r \in Requests /\ r.id \in Nat \ {0} /\ pending \subseteq Requests /\ issued \in Seq(Nat)
  BY <1>1 DEF IdInv, Requested, TypeOK, Requests
<1>4. /\ \A j \in DOMAIN issued : j \in DOMAIN issued' /\ issued'[j] = issued[j]
      /\ \A j \in DOMAIN issued' : issued'[j] # 0
  <2>1. \A j \in DOMAIN issued : issued[j] # 0
    BY DEF IdInv, UdidsReal
  <2>2. CASE issued' = issued
    BY <2>1, <2>2
  <2>3. CASE issued' = Append(issued, r.id)
    BY <1>3, <2>1, <2>3
  <2> QED
    BY <1>1, <2>2, <2>3
<1>5. IdentityMatches' /\ Requested' /\ UdidsReal'
  BY <1>1, <1>2, <1>4 DEF IdInv, IdentityMatches, Requested, UdidsReal
<1>6. CASE r.link # link
  <2>1. answer' = answer
    BY <1>1, <1>6 DEF Reply
  <2>2. InTurn'
    BY <1>1, <1>2, <1>4, <2>1 DEF IdInv, InTurn, Quiet, Asked, LoginAsked, Between
  <2> QED
    BY <1>5, <2>2 DEF IdInv
<1>7. CASE r.link = link
  <2>1. pc[App] \notin Between /\ pc[App] # "loggingin"
    BY <1>1, <1>7 DEF IdInv, InTurn, Quiet, LoginAsked
  <2>2. ASSUME pc[App] = "registering" PROVE Asked'
    <3>1. \A s \in pending : s.link = link => s = r
      BY <1>1, <1>3, <1>7, <2>2, SameRequest DEF IdInv, InTurn, Asked
    <3>2. r.id = creds.udid
      BY <1>7, <2>2 DEF IdInv, InTurn, Asked
    <3>3. answer'.kind = "register" =>
            answer'.juid = Len(issued) + 1 /\ issued' = Append(issued, r.id)
      BY <1>1, <1>7 DEF Reply, Answer
    <3>4. answer'.kind = "register" =>
            answer'.juid \in DOMAIN issued' /\ issued'[answer'.juid] = creds.udid
      BY <1>3, <3>2, <3>3
    <3> QED
      BY <1>1, <1>2, <3>1, <3>4 DEF Asked
  <2> QED
    BY <1>2, <1>5, <2>1, <2>2 DEF IdInv, InTurn
<1> QED
  BY <1>6, <1>7

LEMMA IdSrvLogin == ASSUME TypeOK, IdInv, SrvLogin PROVE IdInv'
<1>1. PICK r \in pending :
        /\ r.kind = "login"
        /\ pending' = pending \ {r}
        /\ \E kind \in {"login", "refused", "other"} : Reply(r, Answer(kind, 0, FALSE, r.id))
        /\ UNCHANGED <<pc, clientVars, codecJuid, linkVars, rx, store, issued, historyVars, env>>
  BY DEF SrvLogin
<1>2. UNCHANGED <<pc, creds, codecJuid, link, store, issued>>
  BY <1>1 DEF clientVars, linkVars
<1>3. r \in Requests /\ pending \subseteq Requests
  BY <1>1 DEF TypeOK
<1>4. IdentityMatches' /\ Requested' /\ UdidsReal'
  BY <1>1, <1>2 DEF IdInv, IdentityMatches, Requested, UdidsReal
<1>5. CASE r.link # link
  <2>1. answer' = answer
    BY <1>1, <1>5 DEF Reply
  <2>2. InTurn'
    BY <1>1, <1>2, <2>1 DEF IdInv, InTurn, Quiet, Asked, LoginAsked, Between
  <2> QED
    BY <1>4, <2>2 DEF IdInv
<1>6. CASE r.link = link
  <2>1. pc[App] \notin Between /\ pc[App] # "registering"
    BY <1>1, <1>6 DEF IdInv, InTurn, Quiet, Asked
  <2>2. ASSUME pc[App] = "loggingin" PROVE LoginAsked'
    <3>1. r.id = codecJuid /\ \A s \in pending : s.link = link => s = r
      BY <1>1, <1>3, <1>6, <2>2, SameRequest DEF IdInv, InTurn, LoginAsked
    <3>2. answer'.key = r.id
      BY <1>1, <1>6 DEF Reply, Answer
    <3> QED
      BY <1>1, <1>2, <3>1, <3>2 DEF LoginAsked
  <2> QED
    BY <1>2, <1>4, <2>1, <2>2 DEF IdInv, InTurn
<1> QED
  BY <1>5, <1>6

LEMMA IdNext == TypeOK /\ IdInv /\ [Next]_vars => IdInv'
<1> SUFFICES ASSUME TypeOK, IdInv, [Next]_vars PROVE IdInv'
  OBVIOUS
<1> USE ThreadFacts
<1>1. CASE Register \/ Load \/ LoadFails \/ Fails \/ TakeLogin \/ StartLoops \/ Close(App)
  <2>1. pc'[App] \in Apart
    BY <1>1 DEF Register, Load, LoadFails, Fails, TakeLogin, StartLoops, Close, CloseEnter,
                CloseSocket, LeaveClose, Goto, TypeOK, Apart
  <2>2. /\ UNCHANGED <<pending, link, issued, store>>
        /\ creds' \in {creds, store.creds, NoCredentials}
    BY <1>1 DEF Register, Load, LoadFails, Fails, TakeLogin, StartLoops, Close, CloseEnter,
                CloseSocket, LeaveClose, clientVars, linkVars, serverVars
  <2> QED
    BY <2>1, <2>2, IdApart
<1>2. CASE Recreate \/ Crash
  <2>1. pc'[App] \in Apart
    BY <1>2 DEF Recreate, Crash, Apart
  <2>2. /\ UNCHANGED <<pending, issued, store>> /\ link' \in {link, link + 1}
        /\ creds' = NoCredentials
    BY <1>2 DEF Recreate, Crash, NewClient, serverVars
  <2> QED
    BY <2>1, <2>2, IdApart
<1>3. CASE SaveTruncate \/ SaveWrite \/ SaveFails
  <2>1. pc[App] \in Between /\ pc'[App] \in Between
    BY <1>3 DEF SaveTruncate, SaveWrite, SaveFails, Goto, TypeOK, Between
  <2>2. /\ UNCHANGED <<creds, codecJuid, link, issued, pending, answer>>
        /\ store'.creds \in {store.creds, creds, NoCredentials}
    BY <1>3 DEF SaveTruncate, SaveWrite, SaveFails, Torn, Saved, clientVars, linkVars,
                serverVars
  <2> QED
    BY <2>1, <2>2, IdSame
<1>4. CASE \/ CallClose \/ Close(Closer) \/ CloseSocket(Session) \/ SessionEnds
           \/ SessionWrites \/ SessionWritten \/ RxMoves \/ RxSteals \/ SrvLose
  <2>1. pc'[App] = pc[App]
    BY <1>4 DEF CallClose, Close, CloseEnter, CloseSocket, LeaveClose, SessionEnds,
                SessionWrites, SessionWritten, RxMoves, RxSteals, SrvLose, Goto, TypeOK
  <2>2. /\ UNCHANGED <<creds, codecJuid, link, issued, store>>
        /\ pending' \subseteq pending /\ answer' \in {answer, NoAnswer}
    BY <1>4 DEF CallClose, Close, CloseEnter, CloseSocket, LeaveClose, SessionEnds,
                SessionWrites, SessionWritten, RxMoves, RxSteals, SrvLose, clientVars, linkVars,
                serverVars
  <2> QED
    BY <2>1, <2>2, IdSame
<1>5. CASE UNCHANGED vars
  BY <1>5, IdSame DEF vars, clientVars, linkVars, serverVars
<1> QED
  BY <1>1, <1>2, <1>3, <1>4, <1>5, IdConnect, IdSendRegister, IdTakeRegistration, IdSendLogin,
     IdSrvRegister, IdSrvLogin
  DEF Next, AppStep

\* The udid a device holds beside a juid is the one the server issued that juid
\* to, whatever was lost, late, retried or cut off by a crash (client.py:280, :299).
THEOREM IdentityConsistent == Spec => []IdentityMatches
<1>1. Init => IdInv
  BY IdInit
<1>2. TypeOK /\ IdInv /\ [Next]_vars => IdInv'
  BY IdNext
<1>3. IdInv => IdentityMatches
  BY DEF IdInv
<1> QED
  BY <1>1, <1>2, <1>3, TypeCorrect, PTL DEF Spec

\* The codec can decrypt the answer to a login, whatever it was used for before
\* (encode_login switches the key first, codecs.py:364).
THEOREM LoginReadable == Spec => []LoginDecrypts
<1>1. Init => IdInv
  BY IdInit
<1>2. TypeOK /\ IdInv /\ [Next]_vars => IdInv'
  BY IdNext
<1>3. IdInv => LoginDecrypts
  BY DEF IdInv, InTurn, LoginAsked, LoginDecrypts, KeySeed
<1> QED
  BY <1>1, <1>2, <1>3, TypeCorrect, PTL DEF Spec

-----------------------------------------------------------------------------
(* One identity for the device, and what the file holds of it.             *)

Held == IF Valid(creds) \/ Valid(store.creds) THEN 1 ELSE 0

\* What may still come for an identity that a load did not bring back.
Spare ==
  IF Needed /\ pc[App] \in {"connect", "register", "registering", "save"} THEN 1 ELSE 0

\* Only a saved file holds anything, and not another identity than the memory
\* unless a load failed.
OneHeld ==
  /\ store.state # "saved" => store.creds = NoCredentials
  /\ Valid(creds) /\ Valid(store.creds) => creds = store.creds \/ missed > 0

\* Who asks for a registration has none, nor has the file unless the load of
\* this call failed; who saves one saves the first, or replaces the missed one.
AskedWithout ==
  /\ pc[App] = "connect" /\ Needed => missed = env.calls
  /\ pc[App] \in {"register", "registering"} => ~Valid(creds)
  /\ pc[App] \in {"register", "registering", "save"} /\ Valid(store.creds) =>
       missed = env.calls
  /\ pc[App] = "write" => ~Valid(store.creds)
  /\ pc[App] # "idle" => env.calls > 0

HeldInv == adopted + Spare <= forgotten + Held /\ OneHeld /\ AskedWithout

LEMMA NotValid == ~Valid(NoCredentials)
  BY DEF Valid, NoCredentials

LEMMA HeldInit == Init => HeldInv
<1> SUFFICES ASSUME Init PROVE HeldInv
  OBVIOUS
<1>1. ~Valid(creds) /\ ~Valid(store.creds) /\ store.creds = NoCredentials
  BY NotValid DEF Init, Absent
<1> QED
  BY <1>1, ThreadFacts DEF Init, HeldInv, Held, Spare, Needed, OneHeld, AskedWithout

\* The lines at which AskedWithout or Spare says something of the identity.
Promising == {"connect", "register", "registering", "save", "write"}

\* Steps that change neither credentials nor the file, to a line that promises
\* nothing new.
LEMMA HeldKeep ==
  ASSUME TypeOK, HeldInv, UNCHANGED <<creds, store, adopted, forgotten, missed>>,
         \/ pc'[App] = pc[App] /\ env'.calls = env.calls
         \/ pc'[App] \notin Promising /\ (pc'[App] # "idle" => env'.calls > 0)
  PROVE  HeldInv'
<1>1. Held' = Held /\ Needed' = Needed
  BY DEF Held, Needed, Valid
<1>2. Spare' <= Spare /\ Spare \in Nat /\ Spare' \in Nat /\ Held \in Nat
  BY <1>1 DEF Spare, Promising, Held
<1>3. adopted' + Spare' <= forgotten' + Held'
  BY <1>1, <1>2 DEF HeldInv, TypeOK
<1>4. OneHeld'
  BY DEF HeldInv, OneHeld, Valid
<1>5. AskedWithout'
  BY <1>1 DEF HeldInv, AskedWithout, Promising, Valid
<1> QED
  BY <1>3, <1>4, <1>5 DEF HeldInv

LEMMA HeldLoad == ASSUME TypeOK, HeldInv, Load PROVE HeldInv'
<1>1. /\ pc[App] = "load" /\ pc'[App] = "connect"
      /\ UNCHANGED <<store, adopted, forgotten, missed, env>>
  BY ThreadFacts DEF Load, Goto, TypeOK, historyVars
<1>2. ~Needed' /\ Held' = Held /\ OneHeld'
  <2>1. CASE store.state = "saved" /\ Valid(store.creds)
    <3>1. creds' = store.creds
      BY <2>1 DEF Load
    <3> QED
      BY <1>1, <2>1, <3>1 DEF HeldInv, Held, Needed, OneHeld, Valid
  <2>2. CASE ~(store.state = "saved" /\ Valid(store.creds))
    <3>1. creds' = creds
      BY <2>2 DEF Load
    <3>2. ~Valid(store.creds)
      BY <2>2, NotValid DEF HeldInv, OneHeld
    <3> QED
      BY <1>1, <3>1, <3>2 DEF HeldInv, Held, Needed, OneHeld, Valid
  <2> QED
    BY <2>1, <2>2
<1>3. adopted' + Spare' <= forgotten' + Held'
  BY <1>1, <1>2 DEF HeldInv, Spare, TypeOK, Held
<1>4. AskedWithout'
  BY <1>1, <1>2 DEF HeldInv, AskedWithout
<1> QED
  BY <1>2, <1>3, <1>4 DEF HeldInv

LEMMA HeldLoadFails == ASSUME TypeOK, HeldInv, LoadFails PROVE HeldInv'
<1>1. /\ pc[App] = "load" /\ pc'[App] = "connect"
      /\ UNCHANGED <<creds, store, adopted, env>>
      /\ forgotten' = IF Needed THEN forgotten + 1 ELSE forgotten
      /\ missed' = IF Needed THEN env.calls ELSE missed
  BY ThreadFacts DEF LoadFails, Goto, TypeOK, clientVars
<1>2. Held' = Held /\ Needed' = Needed
  BY <1>1 DEF Held, Needed, Valid
<1>3. env.calls > 0
  BY <1>1 DEF HeldInv, AskedWithout
<1>4. adopted' + Spare' <= forgotten' + Held'
  BY <1>1, <1>2 DEF HeldInv, Spare, Held, TypeOK
<1>5. OneHeld'
  BY <1>1, <1>3 DEF HeldInv, OneHeld, Valid
<1>6. AskedWithout'
  BY <1>1, <1>2, <1>3 DEF AskedWithout
<1> QED
  BY <1>4, <1>5, <1>6 DEF HeldInv

LEMMA HeldConnect == ASSUME TypeOK, HeldInv, Connect PROVE HeldInv'
<1>1. /\ pc[App] = "connect" /\ UNCHANGED <<creds, store, adopted, forgotten, missed, env>>
      /\ pc'[App] = IF Valid(creds) THEN "login" ELSE "register"
  BY ThreadFacts DEF Connect, Goto, TypeOK
<1>2. Held' = Held /\ Needed' = Needed
  BY <1>1 DEF Held, Needed, Valid
<1>3. adopted' + Spare' <= forgotten' + Held'
  BY <1>1, <1>2 DEF HeldInv, Spare, Needed, Held, TypeOK
<1> QED
  BY <1>1, <1>3 DEF HeldInv, OneHeld, AskedWithout, Needed, Valid

LEMMA HeldSendRegister == ASSUME TypeOK, HeldInv, SendRegister PROVE HeldInv'
<1>1. /\ pc[App] = "register" /\ pc'[App] = "registering"
      /\ UNCHANGED <<store, adopted, forgotten, missed, env>>
  BY ThreadFacts DEF SendRegister, Goto, TypeOK
<1>2. creds'.juid = creds.juid /\ creds'.password = creds.password
  BY DEF SendRegister, TypeOK, Credentials
<1>3. ~Valid(creds) /\ ~Valid(creds')
  BY <1>1, <1>2 DEF HeldInv, AskedWithout, Valid
<1>4. Held' = Held /\ Spare' = Spare
  BY <1>1, <1>3 DEF Held, Spare, Needed, Valid
<1> QED
  BY <1>1, <1>3, <1>4 DEF HeldInv, OneHeld, AskedWithout, Valid

LEMMA HeldTakeRegistration ==
  ASSUME TypeOK, IdInv, HeldInv, TakeRegistration PROVE HeldInv'
<1>1. /\ pc[App] = "registering" /\ pc'[App] = "save"
      /\ UNCHANGED <<store, forgotten, missed, env>>
      /\ answer.kind = "register"
      /\ creds'.juid = answer.juid /\ creds'.password = answer.password
      /\ adopted' = IF answer.password THEN adopted + 1 ELSE adopted
  BY ThreadFacts DEF TakeRegistration, Goto, TypeOK
<1>2. answer.juid # 0
  BY <1>1 DEF IdInv, InTurn, Asked, TypeOK
<1>3. Valid(creds') <=> answer.password
  BY <1>1, <1>2 DEF Valid, TypeOK, Answers
<1>4. ~Valid(creds) /\ (Needed <=> Valid(store.creds))
  BY <1>1 DEF HeldInv, AskedWithout, Needed
<1>5. Held = Spare /\ adopted <= forgotten /\ adopted \in Nat /\ forgotten \in Nat
  BY <1>1, <1>4 DEF HeldInv, Held, Spare, TypeOK
<1>6. AskedWithout'
  BY <1>1 DEF HeldInv, AskedWithout, Needed, Valid
<1>7. OneHeld'
  BY <1>1 DEF HeldInv, OneHeld, AskedWithout, Valid
<1>8. adopted' + Spare' <= forgotten' + Held'
  <2>1. CASE answer.password
    BY <1>1, <1>3, <1>5, <2>1 DEF Held, Spare, Needed
  <2>2. CASE ~answer.password
    <3>1. ~Valid(creds') /\ adopted' = adopted /\ forgotten' = forgotten
      BY <1>1, <1>3, <2>2
    <3>2. Held' = Spare' /\ Spare' \in Nat
      BY <1>1, <3>1 DEF Held, Spare, Needed, Valid
    <3>3. \A n \in Nat : adopted + n <= forgotten + n
      BY <1>5
    <3> QED
      BY <3>1, <3>2, <3>3
  <2> QED
    BY <2>1, <2>2
<1> QED
  BY <1>6, <1>7, <1>8 DEF HeldInv

LEMMA HeldSave == ASSUME TypeOK, HeldInv, SaveTruncate \/ SaveWrite \/ SaveFails PROVE HeldInv'
<1>1. /\ pc[App] \in {"save", "write"} /\ pc'[App] \in {"write", "login"}
      /\ UNCHANGED <<creds, adopted, forgotten, missed, env>>
  BY ThreadFacts
  DEF SaveTruncate, SaveWrite, SaveFails, Goto, TypeOK, clientVars, historyVars
<1>2. Spare' = 0 /\ adopted \in Nat /\ forgotten \in Nat
  BY <1>1 DEF Spare, TypeOK
<1>3. CASE SaveTruncate
  <2>1. store' = Torn /\ ~Valid(store'.creds) /\ pc[App] = "save"
    BY <1>3, NotValid DEF SaveTruncate, Torn
  <2>2. Held' = IF Valid(creds) THEN 1 ELSE 0
    BY <1>1, <2>1 DEF Held, Valid
  <2>3. Held = Held' + Spare
    BY <2>1, <2>2 DEF Held, Spare, Needed
  <2>4. adopted' + Spare' <= forgotten' + Held'
    BY <1>1, <1>2, <2>2, <2>3 DEF HeldInv, Spare
  <2> QED
    BY <1>1, <2>1, <2>4 DEF HeldInv, OneHeld, AskedWithout, Valid, Torn
<1>4. CASE SaveFails
  <2>1. store' = store /\ Held' = Held /\ pc'[App] = "login"
    BY <1>1, <1>4, ThreadFacts DEF SaveFails, Held, Valid, Goto, TypeOK
  <2>2. adopted' + Spare' <= forgotten' + Held'
    BY <1>1, <1>2, <2>1 DEF HeldInv, Spare, Held
  <2> QED
    BY <1>1, <2>1, <2>2 DEF HeldInv, OneHeld, AskedWithout, Valid
<1>5. CASE SaveWrite
  <2>1. /\ store'.state = "saved" /\ store'.creds = creds
        /\ pc[App] = "write" /\ pc'[App] = "login"
    BY <1>5, ThreadFacts DEF SaveWrite, Saved, Goto, TypeOK
  <2>2. Held' = Held /\ Spare = 0
    BY <1>1, <2>1 DEF HeldInv, AskedWithout, Held, Spare, Valid
  <2> QED
    BY <1>1, <1>2, <2>1, <2>2 DEF HeldInv, OneHeld, AskedWithout, Valid
<1> QED
  BY <1>3, <1>4, <1>5

LEMMA HeldDevice == ASSUME TypeOK, HeldInv, Recreate \/ Crash PROVE HeldInv'
<1>1. /\ pc'[App] = "idle" /\ creds' = NoCredentials /\ UNCHANGED <<store, adopted>>
      /\ forgotten' = IF Unsaved THEN forgotten + 1 ELSE forgotten
  BY ThreadFacts DEF Recreate, Crash, NewClient
<1>2. ~Valid(creds')
  BY <1>1, NotValid
<1>3. adopted <= forgotten + Held /\ adopted \in Nat /\ forgotten \in Nat
  BY DEF HeldInv, Held, Spare, TypeOK
<1>4. Held' = (IF Valid(store.creds) THEN 1 ELSE 0) /\ Spare' = 0
  BY <1>1, <1>2 DEF Held, Spare, Valid
<1>5. adopted' <= forgotten' + Held'
  <2>1. CASE Unsaved
    BY <1>1, <1>3, <1>4, <2>1 DEF Held
  <2>2. CASE ~Unsaved
    <3>1. Valid(creds) => Valid(store.creds)
      BY <2>2 DEF Unsaved, Saved
    <3>2. Held' = Held
      BY <1>4, <3>1 DEF Held
    <3> QED
      BY <1>1, <1>3, <2>2, <3>2
  <2> QED
    BY <2>1, <2>2
<1>6. adopted' + Spare' <= forgotten' + Held'
  BY <1>1, <1>3, <1>4, <1>5
<1> QED
  BY <1>1, <1>2, <1>6 DEF HeldInv, OneHeld, AskedWithout, Needed, Valid

LEMMA HeldNext == TypeOK /\ IdInv /\ HeldInv /\ [Next]_vars => HeldInv'
<1> SUFFICES ASSUME TypeOK, IdInv, HeldInv, [Next]_vars PROVE HeldInv'
  OBVIOUS
<1> USE ThreadFacts
<1>1. CASE Register
  <2>1. pc'[App] = "load" /\ UNCHANGED <<creds, store, adopted, forgotten, missed>>
    BY <1>1 DEF Register, Goto, TypeOK, historyVars
  <2>2. env'.calls > 0
    BY <1>1 DEF Register, Use, TypeOK
  <2> QED
    BY <2>1, <2>2, HeldKeep DEF Promising
<1>2. CASE Fails \/ SendLogin \/ TakeLogin \/ StartLoops \/ Close(App)
  <2>1. pc'[App] \notin Promising /\ pc[App] # "idle"
    BY <1>2 DEF Fails, SendLogin, TakeLogin, StartLoops, Close, CloseEnter,
                CloseSocket, LeaveClose, Goto, TypeOK, Promising
  <2>2. UNCHANGED <<creds, store, adopted, forgotten, missed, env>>
    BY <1>2 DEF Fails, SendLogin, TakeLogin, StartLoops, Close, CloseEnter,
                CloseSocket, LeaveClose, clientVars, historyVars
  <2>3. env'.calls > 0
    BY <2>1, <2>2 DEF HeldInv, AskedWithout
  <2> QED
    BY <2>1, <2>2, <2>3, HeldKeep
<1>3. CASE \/ CallClose \/ Close(Closer) \/ CloseSocket(Session) \/ SessionEnds \/ SessionWrites
           \/ SessionWritten \/ RxMoves \/ RxSteals \/ SrvRegister \/ SrvLogin \/ SrvLose
  <2>1. pc'[App] = pc[App]
    BY <1>3 DEF CallClose, Close, CloseEnter, CloseSocket, LeaveClose, SessionEnds,
                SessionWrites, SessionWritten, RxMoves, RxSteals, SrvRegister, SrvLogin,
                SrvLose, Goto, TypeOK
  <2>2. UNCHANGED <<creds, store, adopted, forgotten, missed, env>>
    BY <1>3 DEF CallClose, Close, CloseEnter, CloseSocket, LeaveClose, SessionEnds,
                SessionWrites, SessionWritten, RxMoves, RxSteals, SrvRegister, SrvLogin,
                SrvLose, clientVars, historyVars
  <2> QED
    BY <2>1, <2>2, HeldKeep
<1>4. CASE UNCHANGED vars
  BY <1>4, HeldKeep DEF vars, clientVars, historyVars
<1> QED
  BY <1>1, <1>2, <1>3, <1>4, HeldLoad, HeldLoadFails, HeldConnect, HeldSendRegister,
     HeldTakeRegistration, HeldSave, HeldDevice
  DEF Next, AppStep

SafeInv == TypeOK /\ IdInv /\ HeldInv

LEMMA SafeAlways == Spec => []SafeInv
<1>1. Init => SafeInv
  BY TypeInit, IdInit, HeldInit DEF SafeInv
<1>2. SafeInv /\ [Next]_vars => SafeInv'
  BY TypeNext, IdNext, HeldNext DEF SafeInv
<1> QED
  BY <1>1, <1>2, PTL DEF Spec

\* register(): a device is given a second identity only when the first died
\* with its Client before it was in the file, or when the load of the file that
\* holds it raised (client.py:150, :153, :165).
THEOREM IdentityOnce == Spec => []RegisteredOnce
<1>1. SafeInv => RegisteredOnce
  BY DEF SafeInv, HeldInv, Held, Spare, TypeOK, RegisteredOnce
<1> QED
  BY <1>1, SafeAlways, PTL

\* A valid identity in the file is changed only by who saves one, which it asked
\* for because its own load failed.
LEMMA StoreStep ==
  ASSUME SafeInv, [Next]_vars, Valid(store.creds), store' # store
  PROVE  missed = env.calls
<1>1. CASE SaveTruncate \/ SaveWrite
  BY <1>1 DEF SafeInv, HeldInv, AskedWithout, SaveTruncate, SaveWrite
<1>2. CASE Register \/ (AppStep /\ ~SaveTruncate /\ ~SaveWrite)
  BY <1>2 DEF Register, AppStep, Load, LoadFails, Connect, Fails, SendRegister,
     TakeRegistration, SaveFails, SendLogin, TakeLogin, StartLoops, Close, CloseEnter,
     CloseSocket
<1>3. CASE ~(Register \/ AppStep)
  BY <1>3 DEF Next, CallClose, Close, CloseEnter, CloseSocket, SessionEnds, SessionWrites,
     SessionWritten, RxMoves, RxSteals, SrvRegister, SrvLogin, SrvLose, Recreate, Crash, vars
<1> QED
  BY <1>1, <1>2, <1>3

\* _store_save: a valid identity in the file is replaced or damaged only by a
\* register() that missed it, because its load raised (client.py:150, :167).
THEOREM FileKept == Spec => StoredIdentityKept
<1>1. SafeInv /\ [Next]_vars => [Valid(store.creds) /\ store' # store => missed = env.calls]_vars
  BY StoreStep
<1> QED
  BY <1>1, SafeAlways, PTL DEF Spec, StoredIdentityKept

\* Credentials in memory are replaced by those in the file, which are the same
\* unless a load failed, or by an answer to a Client that had none.
LEMMA CredsStep ==
  ASSUME SafeInv, [Next]_vars, Valid(creds), Live', creds' # creds
  PROVE  missed > 0 /\ Valid(creds') /\ creds' = store.creds
<1>1. ~SendRegister /\ ~TakeRegistration
  BY DEF SafeInv, HeldInv, AskedWithout, SendRegister, TakeRegistration
<1>2. ~Recreate /\ ~Crash
  BY DEF Recreate, Crash, NewClient, Live
<1>3. CASE Load
  BY <1>3 DEF Load, SafeInv, HeldInv, OneHeld, Valid
<1>4. CASE Register \/ (AppStep /\ ~Load)
  BY <1>1, <1>4 DEF Register, AppStep, LoadFails, Connect, Fails, SaveTruncate, SaveWrite,
     SaveFails, SendLogin, TakeLogin, StartLoops, Close, CloseEnter, CloseSocket, clientVars
<1>5. CASE ~(Register \/ AppStep)
  BY <1>2, <1>5 DEF Next, CallClose, Close, CloseEnter, CloseSocket, SessionEnds,
     SessionWrites, SessionWritten, RxMoves, RxSteals, SrvRegister, SrvLogin, SrvLose,
     clientVars, vars
<1> QED
  BY <1>3, <1>4, <1>5

\* register() on a Client that is logged in does not change the identity its
\* session threads put into every request, except back to the one in the file
\* that an earlier load did not bring (client.py:150, :153, :277, :379).
THEOREM SessionIdentity == Spec => SessionKeepsIdentity
<1>1. SafeInv /\ [Next]_vars =>
        [Live /\ Live' /\ Valid(creds) =>
           \/ creds' = creds
           \/ missed > 0 /\ Valid(creds') /\ creds' = store.creds]_vars
  BY CredsStep
<1> QED
  BY <1>1, SafeAlways, PTL DEF Spec, SessionKeepsIdentity

-----------------------------------------------------------------------------
(* Sockets.                                                                *)

\* As long as register() is called on a Client that is neither live nor closed
\* nor being closed, it starts without an open socket, one of register() and close() is
\* idle, and who closes the client has not left before its socket is closed.
SocketInv ==
  /\ \A t \in Threads : pc[t] = "shut" => done
  /\ ~misused =>
       /\ leaked = 0
       /\ pc[App] = "idle" \/ pc[Closer] = "idle"
       /\ pc[App] \notin {"idle", "shut"} => ~done /\ ~loops
       /\ pc[App] \in {"load", "connect"} => conn # "open"
       /\ pc[App] = "idle" /\ ~loops /\ ~done => conn # "open"
       /\ done => conn # "open" \/ \E t \in Threads : pc[t] = "shut"

LEMMA SocketInit == Init => SocketInv
  BY ThreadFacts DEF Init, SocketInv

\* The steps of register() from one line to the next, the socket as it is.
LEMMA SocketKeep ==
  ASSUME TypeOK, SocketInv, UNCHANGED <<conn, done, loops, misused, leaked>>,
         pc[App] \notin {"idle", "close", "shut"}, pc'[App] \notin {"idle", "shut", "load"},
         pc'[Closer] = pc[Closer], pc'[Session] = pc[Session],
         pc'[App] = "connect" => pc[App] = "load"
  PROVE  SocketInv'
  BY ThreadFacts DEF SocketInv

LEMMA SocketApp == ASSUME TypeOK, SocketInv, Register \/ AppStep PROVE SocketInv'
<1> USE ThreadFacts
<1>1. CASE Register
  <2>1. /\ pc[App] = "idle" /\ pc'[App] = "load" /\ pc'[Closer] = pc[Closer]
        /\ pc'[Session] = pc[Session]
        /\ UNCHANGED <<conn, done, loops, leaked>>
        /\ misused' = (misused \/ done \/ Live \/ pc[Closer] # "idle")
    BY <1>1 DEF Register, Goto, TypeOK, historyVars
  <2> QED
    BY <2>1 DEF SocketInv, Live
<1>2. CASE \/ Load \/ LoadFails \/ Fails \/ SendRegister \/ TakeRegistration \/ SaveTruncate
           \/ SaveWrite \/ SaveFails \/ SendLogin \/ TakeLogin
  <2>1. UNCHANGED <<conn, done, loops, misused, leaked>>
    BY <1>2
    DEF Load, LoadFails, Fails, SendRegister, TakeRegistration, SaveTruncate, SaveWrite,
       SaveFails, SendLogin, TakeLogin, clientVars, historyVars
  <2>2. /\ pc[App] \notin {"idle", "close", "shut"}
        /\ pc'[App] \notin {"idle", "shut", "load"} /\ pc'[Closer] = pc[Closer]
        /\ pc'[Session] = pc[Session]
        /\ pc'[App] = "connect" => pc[App] = "load"
    BY <1>2
    DEF Load, LoadFails, Fails, SendRegister, TakeRegistration, SaveTruncate, SaveWrite,
       SaveFails, SendLogin, TakeLogin, Goto, TypeOK
  <2> QED
    BY <2>1, <2>2, SocketKeep
<1>3. CASE Connect
  <2>1. /\ pc[App] = "connect" /\ pc'[App] \in {"login", "register"}
        /\ pc'[Closer] = pc[Closer] /\ pc'[Session] = pc[Session] 
        /\ UNCHANGED <<done, loops, misused>>
    BY <1>3 DEF Connect, Goto, TypeOK
  <2>2. leaked = 0 /\ conn # "open" => leaked' = 0
    BY <1>3 DEF Connect
  <2>3. ~misused => leaked = 0 /\ conn # "open" /\ ~done
    BY <2>1 DEF SocketInv
  <2> QED
    BY <2>1, <2>2, <2>3 DEF SocketInv
<1>4. CASE StartLoops
  <2>1. /\ pc[App] = "start" /\ pc'[App] = "idle" /\ pc'[Closer] = pc[Closer]
        /\ pc'[Session] = pc[Session]
        /\ loops' /\ UNCHANGED <<conn, done, misused, leaked>>
    BY <1>4 DEF StartLoops, Goto, TypeOK, historyVars
  <2> QED
    BY <2>1 DEF SocketInv
<1>5. CASE CloseEnter(App)
  <2>1. /\ pc[App] = "close" /\ pc'[Closer] = pc[Closer] /\ pc'[Session] = pc[Session]
        /\ UNCHANGED <<conn, loops, misused, leaked>>
        /\ IF done THEN pc'[App] = "idle" /\ done' = done ELSE pc'[App] = "shut" /\ done'
    BY <1>5 DEF CloseEnter, LeaveClose, Goto, TypeOK, historyVars
  <2> QED
    BY <2>1 DEF SocketInv
<1>6. CASE CloseSocket(App)
  <2>1. /\ pc[App] = "shut" /\ pc'[App] = "idle" /\ pc'[Closer] = pc[Closer]
        /\ pc'[Session] = pc[Session]
        /\ UNCHANGED <<done, loops, misused, leaked>> /\ conn' # "open"
    BY <1>6 DEF CloseSocket, LeaveClose, Goto, TypeOK, historyVars
  <2> QED
    BY <2>1 DEF SocketInv
<1> QED
  BY <1>1, <1>2, <1>3, <1>4, <1>5, <1>6 DEF AppStep, Close

LEMMA SocketClose ==
  ASSUME TypeOK, SocketInv, CallClose \/ Close(Closer) \/ CloseSocket(Session) \/ SessionEnds
  PROVE  SocketInv'
<1> USE ThreadFacts
<1>1. CASE CallClose
  <2>1. /\ pc[Closer] = "idle" /\ pc'[Closer] = "close" /\ pc'[App] = pc[App]
        /\ pc'[Session] = pc[Session]
        /\ UNCHANGED <<conn, done, loops, leaked>>
        /\ misused' = (misused \/ pc[App] # "idle")
    BY <1>1 DEF CallClose, Goto, TypeOK, historyVars
  <2> QED
    BY <2>1 DEF SocketInv
<1>2. CASE CloseEnter(Closer)
  <2>1. /\ pc[Closer] = "close" /\ pc'[App] = pc[App] /\ pc'[Session] = pc[Session]
        /\ UNCHANGED <<conn, loops, misused, leaked>>
        /\ IF done THEN pc'[Closer] = "idle" /\ done' = done ELSE pc'[Closer] = "shut" /\ done'
    BY <1>2 DEF CloseEnter, LeaveClose, Goto, TypeOK, historyVars
  <2> QED
    BY <2>1 DEF SocketInv
<1>3. CASE CloseSocket(Closer)
  <2>1. /\ pc[Closer] = "shut" /\ pc'[Closer] = "idle" /\ pc'[App] = pc[App]
        /\ pc'[Session] = pc[Session]
        /\ UNCHANGED <<done, loops, misused, leaked>> /\ conn' # "open"
    BY <1>3 DEF CloseSocket, LeaveClose, Goto, TypeOK, historyVars
  <2> QED
    BY <2>1 DEF SocketInv
<1>4. CASE SessionEnds
  <2>1. /\ pc'[Session] = "shut" /\ pc'[App] = pc[App] /\ pc'[Closer] = pc[Closer]
        /\ UNCHANGED <<conn, loops, misused, leaked>> /\ done' /\ loops /\ ~done
    BY <1>4 DEF SessionEnds, Live, Goto, TypeOK, historyVars
  <2> QED
    BY <2>1 DEF SocketInv
<1>5. CASE CloseSocket(Session)
  <2>1. /\ pc[Session] = "shut" /\ pc'[Session] = "idle"
        /\ pc'[App] = pc[App] /\ pc'[Closer] = pc[Closer]
        /\ UNCHANGED <<done, loops, misused, leaked>> /\ conn' # "open"
    BY <1>5 DEF CloseSocket, LeaveClose, Goto, TypeOK, historyVars
  <2> QED
    BY <2>1 DEF SocketInv
<1> QED
  BY <1>1, <1>2, <1>3, <1>4, <1>5 DEF Close

LEMMA SocketNext == TypeOK /\ SocketInv /\ [Next]_vars => SocketInv'
<1> SUFFICES ASSUME TypeOK, SocketInv, [Next]_vars PROVE SocketInv'
  OBVIOUS
<1>1. CASE \/ SessionWrites \/ SessionWritten \/ RxMoves \/ RxSteals
           \/ SrvRegister \/ SrvLogin \/ SrvLose \/ UNCHANGED vars
  <2>1. UNCHANGED <<pc, conn, done, loops, misused, leaked>>
    BY <1>1 DEF SessionWrites, SessionWritten, RxMoves, RxSteals, SrvRegister, SrvLogin,
       SrvLose, vars, clientVars, historyVars
  <2> QED
    BY <2>1 DEF SocketInv
<1>2. CASE Recreate \/ Crash
  <2>1. (\A t \in Threads : pc'[t] = "idle") /\ conn' = "none" /\ ~done' /\ ~loops' /\ leaked' = 0
    BY <1>2 DEF Recreate, Crash, NewClient
  <2> QED
    BY <2>1, ThreadFacts DEF SocketInv
<1> QED
  BY <1>1, <1>2, SocketApp, SocketClose DEF Next

\* _close: a closed Client holds no open socket, unless register() was called
\* on it while it was live or being closed, or afterwards.
THEOREM SocketsClosed == Spec => []NoSocketLeak
<1>1. Init => SocketInv
  BY SocketInit
<1>2. TypeOK /\ SocketInv /\ [Next]_vars => SocketInv'
  BY SocketNext
<1>3. SocketInv => NoSocketLeak
  BY ThreadFacts DEF SocketInv, NoSocketLeak
<1> QED
  BY <1>1, <1>2, <1>3, TypeCorrect, PTL DEF Spec
=============================================================================
