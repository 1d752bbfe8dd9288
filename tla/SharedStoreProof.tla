-------------------------- MODULE SharedStoreProof --------------------------
(***************************************************************************)
(* Proofs about SharedStore, for any set of Clients, any lengths of their  *)
(* files and any number of registrations.                                  *)
(***************************************************************************)
EXTENDS SharedStore, TLAPS

-----------------------------------------------------------------------------
(* Every variable holds a value of its kind.                               *)

LEMMA TypeInit == Init => TypeOK
<1>1. Nobody \in Identities /\ Empty \in [owner : Identities, length : Lengths \union {0}]
  BY DEF Nobody, Empty, Identities
<1>2. ASSUME Init
      PROVE  spoiled \in BOOLEAN /\ raced \in BOOLEAN /\ missed \in BOOLEAN /\ lost \in BOOLEAN
  BY <1>2 DEF Init
<1>3. ASSUME Init
      PROVE /\ mine \in [Clients -> Identities] /\ issued \in Nat
            /\ file \in [owner : Identities, length : Lengths \union {0}]
            /\ pc \in [Clients -> {"idle", "load", "register", "save", "write", "login"}]
  BY <1>1, <1>3 DEF Init
<1> QED
  BY <1>2, <1>3 DEF Init, TypeOK

LEMMA TypeNext == TypeOK /\ [Next]_vars => TypeOK'
<1> SUFFICES ASSUME TypeOK, [Next]_vars PROVE TypeOK'
  OBVIOUS
<1> USE DEF TypeOK
<1>1. CASE CrashAll
  BY <1>1 DEF CrashAll, Nobody, Empty, Identities
<1>2. ASSUME NEW c \in Clients, Step(c) PROVE TypeOK'
  <2>1. CASE Register(c)
    BY <2>1 DEF Register
  <2>2. CASE Load(c)
    <3>1. mine' \in [Clients -> Identities]
      BY <2>2 DEF Load
    <3>2. pc' \in [Clients -> {"idle", "load", "register", "save", "write", "login"}]
      BY <2>2 DEF Load, GoOn
    <3> QED
      BY <2>2, <3>1, <3>2 DEF Load
  <2>3. CASE TakeRegistration(c)
    <3>1. PICK n \in Lengths, pw \in Passwords :
            /\ mine' = [mine EXCEPT ![c] = [id |-> issued + 1, length |-> n, password |-> pw]]
            /\ lost' = (lost \/ ~pw)
      BY <2>3 DEF TakeRegistration
    <3>2. [id |-> issued + 1, length |-> n, password |-> pw] \in Identities
      BY <3>1, PasswordsAssumption DEF Identities
    <3>3. mine' \in [Clients -> Identities] /\ lost' \in BOOLEAN
      BY <3>1, <3>2
    <3> QED
      BY <2>3, <3>3 DEF TakeRegistration
  <2>4. CASE RegisterFails(c)
    <3>1. issued' \in Nat
      BY <2>4 DEF RegisterFails
    <3>2. lost' \in BOOLEAN
      BY <2>4 DEF RegisterFails
    <3> QED
      BY <2>4, <3>1, <3>2 DEF RegisterFails
  <2>5. CASE Truncate(c)
    BY <2>5 DEF Truncate, Empty, Nobody, Identities
  <2>6. CASE Write(c)
    <3>1. mine[c] \in Identities /\ mine[c].length \in Lengths \union {0}
      BY DEF Identities
    <3>2. file' \in [owner : Identities, length : Lengths \union {0}]
      BY <2>6, <3>1 DEF Write
    <3> QED
      BY <2>6, <3>2 DEF Write
  <2>7. CASE Keep(c)
    <3>1. mine[c] \in Identities /\ mine[c].length \in Lengths \union {0}
      BY DEF Identities
    <3> QED
      BY <2>7, <3>1 DEF Keep
  <2>8. CASE SaveFails(c)
    BY <2>8 DEF SaveFails
  <2>9. CASE Login(c)
    BY <2>9 DEF Login
  <2>10. CASE Recreate(c)
    BY <2>10 DEF Recreate, Nobody, Identities
  <2>11. CASE Crash(c)
    BY <2>11 DEF Crash, Nobody, Identities
  <2>12. CASE LoadFails(c)
    <3>1. pc' \in [Clients -> {"idle", "load", "register", "save", "write", "login"}]
      BY <2>12 DEF LoadFails, GoOn
    <3>2. missed' \in BOOLEAN /\ raced' \in BOOLEAN
      BY <2>12 DEF LoadFails
    <3> QED
      BY <2>12, <3>1, <3>2 DEF LoadFails
  <2> QED
    BY <1>2, <2>1, <2>2, <2>3, <2>4, <2>5, <2>6, <2>7, <2>8, <2>9, <2>10, <2>11, <2>12
    DEF Step
<1>3. CASE UNCHANGED vars
  BY <1>3 DEF vars
<1> QED
  BY <1>1, <1>2, <1>3 DEF Next

\* The types of SharedStore hold in every reachable state.
THEOREM TypeCorrect == Spec => []TypeOK
<1>1. Init => TypeOK
  BY TypeInit
<1>2. TypeOK /\ [Next]_vars => TypeOK'
  BY TypeNext
<1> QED
  BY <1>1, <1>2, PTL DEF Spec

-----------------------------------------------------------------------------
(* A save alone leaves a file that can be read.                            *)

\* What is saved is an identity, and a MemoryStore is never written halfway.
Saving ==
  /\ \A c \in Clients : pc[c] \in {"save", "write"} => mine[c].id # 0
  /\ kind = "memory" => ~spoiled /\ \A c \in Clients : pc[c] # "write"

\* Without a clash the Client between opening and writing is the only one, and
\* the file is as it left it.
Alone ==
  ~spoiled =>
    /\ \A c, d \in Clients : pc[c] = "write" /\ pc[d] = "write" => c = d
    /\ \A c \in Clients : pc[c] = "write" => file = Empty

\* The length of an identity is a number.
LEMMA LengthNat ==
  ASSUME TypeOK, NEW c \in Clients
  PROVE  mine[c] \in Identities /\ mine[c].length \in Nat
<1>1. mine[c] \in Identities
  BY DEF TypeOK
<1>2. mine[c].length \in Lengths \union {0}
  BY <1>1 DEF Identities
<1>3. ASSUME NEW n \in Lengths \union {0} PROVE n \in Nat
  BY <1>3, LengthsAssumption
<1> QED
  BY <1>1, <1>2, <1>3

WholeInv == TypeOK /\ Saving /\ Alone /\ FileIsWhole

LEMMA WholeInit == Init => WholeInv
  BY TypeInit DEF Init, WholeInv, Saving, Alone, FileIsWhole

LEMMA WholeNext == WholeInv /\ [Next]_vars => WholeInv'
<1> SUFFICES ASSUME WholeInv, [Next]_vars PROVE WholeInv'
  OBVIOUS
<1>0. TypeOK'
  BY TypeNext DEF WholeInv
<1> USE DEF WholeInv, TypeOK
<1>1. CASE CrashAll
  BY <1>0, <1>1 DEF CrashAll, Saving, Alone, FileIsWhole
<1>2. ASSUME NEW c \in Clients, Step(c) PROVE WholeInv'
  <2>1. CASE Register(c)
    BY <1>0, <2>1 DEF Register, Saving, Alone, FileIsWhole, Readable
  <2>2. CASE Load(c)
    <3>1. \A d \in Clients : pc'[d] # "write" <=> pc[d] # "write"
      BY <2>2 DEF Load, GoOn
    <3>2. \A d \in Clients : pc'[d] \in {"save", "write"} => pc'[d] = pc[d] /\ mine'[d] = mine[d]
      BY <2>2 DEF Load, GoOn
    <3>3. Saving'
      BY <2>2, <3>1, <3>2 DEF Load, Saving
    <3>4. Alone' /\ FileIsWhole'
      BY <2>2, <3>1 DEF Load, Alone, FileIsWhole, Readable
    <3> QED
      BY <1>0, <3>3, <3>4
  <2>3. CASE TakeRegistration(c)
    <3>1. Saving'
      <4>1. mine'[c].id # 0 /\ \A d \in Clients \ {c} : mine'[d] = mine[d] /\ pc'[d] = pc[d]
        BY <2>3 DEF TakeRegistration
      <4>2. kind' = kind /\ spoiled' = spoiled /\ pc'[c] = "save"
        BY <2>3 DEF TakeRegistration
      <4> QED
        BY <4>1, <4>2 DEF Saving
    <3>2. Alone' /\ FileIsWhole'
      BY <2>3 DEF TakeRegistration, Alone, FileIsWhole, Readable
    <3> QED
      BY <1>0, <3>1, <3>2
  <2>4. CASE RegisterFails(c)
    BY <1>0, <2>4 DEF RegisterFails, Saving, Alone, FileIsWhole, Readable
  <2>5. CASE Truncate(c)
    <3>1. Saving'
      BY <2>5 DEF Truncate, Saving
    <3>2. Alone'
      BY <2>5 DEF Truncate, Alone
    <3>3. FileIsWhole'
      BY <2>5 DEF Truncate, FileIsWhole
    <3> QED
      BY <1>0, <3>1, <3>2, <3>3
  <2>6. CASE Write(c)
    <3>1. Saving'
      BY <2>6 DEF Write, Saving
    <3>2. ASSUME ~spoiled PROVE Readable'
      <4>1. file = Empty /\ mine[c].id # 0
        BY <2>6, <3>2 DEF Write, Alone, Saving
      <4>2. mine[c] \in Identities /\ mine[c].length \in Nat
        BY LengthNat
      <4>3. file' = [owner |-> mine[c], length |-> mine[c].length]
        BY <2>6, <4>1, <4>2 DEF Write, Empty
      <4> QED
        BY <4>1, <4>2, <4>3 DEF Readable
    <3>3. Alone' /\ FileIsWhole'
      BY <2>6, <3>2 DEF Write, Alone, FileIsWhole
    <3> QED
      BY <1>0, <3>1, <3>3
  <2>7. CASE Keep(c)
    <3>1. mine[c] \in Identities /\ mine[c].length \in Nat /\ mine[c].id # 0
      BY <2>7, LengthNat DEF Keep, Saving
    <3>2. Readable'
      BY <2>7, <3>1 DEF Keep, Readable
    <3>3. Saving' /\ Alone'
      BY <2>7 DEF Keep, Saving, Alone
    <3> QED
      BY <1>0, <3>2, <3>3 DEF FileIsWhole
  <2>8. CASE SaveFails(c)
    BY <1>0, <2>8 DEF SaveFails, Saving, Alone, FileIsWhole, Readable
  <2>9. CASE Login(c)
    BY <1>0, <2>9 DEF Login, Saving, Alone, FileIsWhole, Readable
  <2>10. CASE Recreate(c)
    BY <1>0, <2>10 DEF Recreate, Saving, Alone, FileIsWhole, Readable
  <2>11. CASE Crash(c)
    BY <1>0, <2>11 DEF Crash, Saving, Alone, FileIsWhole, Readable
  <2>12. CASE LoadFails(c)
    <3>1. \A d \in Clients : pc'[d] # "write" <=> pc[d] # "write"
      BY <2>12 DEF LoadFails, GoOn
    <3>2. \A d \in Clients : pc'[d] \in {"save", "write"} => pc'[d] = pc[d] /\ mine'[d] = mine[d]
      BY <2>12 DEF LoadFails, GoOn
    <3>3. Saving'
      BY <2>12, <3>1, <3>2 DEF LoadFails, Saving
    <3>4. Alone' /\ FileIsWhole'
      BY <2>12, <3>1 DEF LoadFails, Alone, FileIsWhole, Readable
    <3> QED
      BY <1>0, <3>3, <3>4
  <2> QED
    BY <1>2, <2>1, <2>2, <2>3, <2>4, <2>5, <2>6, <2>7, <2>8, <2>9, <2>10, <2>11, <2>12
    DEF Step
<1>3. CASE UNCHANGED vars
  BY <1>0, <1>3 DEF vars, Saving, Alone, FileIsWhole, Readable
<1> QED
  BY <1>1, <1>2, <1>3 DEF Next

\* FileStore.save: whatever number of processes share the file, it can be read
\* when nobody writes it, unless the last save met another one or broke off.
THEOREM SaveLeavesWholeFile == Spec => []FileIsWhole
<1>1. Init => WholeInv
  BY WholeInit
<1>2. WholeInv /\ [Next]_vars => WholeInv'
  BY WholeNext
<1>3. WholeInv => FileIsWhole
  BY DEF WholeInv
<1> QED
  BY <1>1, <1>2, <1>3, PTL DEF Spec

-----------------------------------------------------------------------------
(* One device, one identity.                                               *)

\* While no Client races another, no load fails that is needed and nothing is
\* lost, one Client at most is between finding no identity and its save; it
\* holds the only registration, a valid one, or asks for the first, and
\* afterwards the store holds it.
Single ==
  ~raced /\ ~missed /\ ~lost =>
    /\ ~spoiled
    /\ \A c, d \in Clients : Fresh(c) /\ Fresh(d) => c = d
    /\ issued <= 1
    /\ \A c \in Clients : pc[c] = "register" => issued = 0
    /\ \A c \in Clients : pc[c] \in {"save", "write"} => issued = 1 /\ Valid(mine[c])
    /\ issued = 1 => Usable \/ \E c \in Clients : pc[c] \in {"save", "write"}

OneInv == WholeInv /\ Single

LEMMA OneInit == Init => OneInv
  BY WholeInit DEF Init, OneInv, Single, Fresh

LEMMA OneNext == OneInv /\ [Next]_vars => OneInv'
<1> SUFFICES ASSUME OneInv, [Next]_vars PROVE OneInv'
  OBVIOUS
<1>0. WholeInv' /\ TypeOK'
  BY WholeNext DEF OneInv, WholeInv
<1> SUFFICES ASSUME ~raced', ~missed', ~lost' PROVE Single'
  BY <1>0 DEF OneInv, Single
<1> USE DEF OneInv, WholeInv, TypeOK
<1>1. CASE CrashAll
  <2>1. issued = 0 /\ issued' = 0
    <3>1. lost' = (issued > 0) /\ issued' = issued
      BY <1>1 DEF CrashAll
    <3>2. ~(issued > 0)
      BY <3>1, Zenon
    <3> QED
      BY <3>1, <3>2
  <2>2. ~spoiled'
    BY <1>1 DEF CrashAll, Saving
  <2> QED
    BY <1>1, <2>1, <2>2 DEF CrashAll, Single, Fresh
<1>2. ASSUME NEW c \in Clients, Step(c) PROVE Single'
  <2>1. CASE Register(c)
    BY <2>1 DEF Register, Single, Fresh, Usable, Readable
  <2>2. CASE Load(c) \/ LoadFails(c)
    <3>1. /\ ~raced /\ ~missed /\ ~lost /\ \A d \in Clients \ {c} : ~Fresh(d)
          /\ GoOn(c) /\ UNCHANGED <<file, issued, spoiled>>
      BY <2>2 DEF Load, LoadFails, OthersFresh
    <3>2. pc[c] = "load" /\ (issued = 1 => Usable)
      BY <2>2, <3>1 DEF Load, LoadFails, Single, Fresh
    <3>3. Usable => Valid(mine'[c])
      <4>1. CASE Load(c)
        BY <4>1 DEF Load, Usable
      <4>2. CASE LoadFails(c)
        <5>1. mine' = mine /\ (missed' <=> missed \/ (Usable /\ ~Valid(mine[c])))
          BY <4>2 DEF LoadFails
        <5> QED
          BY <5>1
      <4> QED
        BY <2>2, <4>1, <4>2
    <3>4. \A d \in Clients \ {c} : ~Fresh(d)' /\ pc'[d] = pc[d]
      BY <3>1 DEF GoOn, Fresh
    <3>5. pc'[c] \in {"login", "register"} /\ (pc'[c] = "register" => ~Usable)
      BY <3>1, <3>3 DEF GoOn
    <3>6. \A d \in Clients : pc'[d] \notin {"save", "write"}
      BY <3>4, <3>5 DEF Fresh
    <3>7. \A d \in Clients : pc'[d] = "register" => d = c /\ issued = 0
      BY <3>1, <3>2, <3>4, <3>5 DEF Single, Fresh
    <3> QED
      BY <3>1, <3>2, <3>4, <3>6, <3>7 DEF Single, Fresh, Usable, Readable
  <2>3. CASE TakeRegistration(c)
    <3>1. PICK n \in Lengths, pw \in Passwords :
            /\ mine' = [mine EXCEPT ![c] = [id |-> issued + 1, length |-> n, password |-> pw]]
            /\ lost' = (lost \/ ~pw)
      BY <2>3 DEF TakeRegistration
    <3>2. /\ pc[c] = "register" /\ pc' = [pc EXCEPT ![c] = "save"] /\ issued' = issued + 1
          /\ UNCHANGED <<kind, file, spoiled, raced, missed>>
      BY <2>3 DEF TakeRegistration
    <3>3. pw /\ ~lost
      BY <3>1
    <3>4. issued = 0 /\ issued' = 1 /\ ~spoiled /\ Fresh(c)
      BY <3>2, <3>3 DEF Single, Fresh
    <3>5. Valid(mine'[c])
      <4>1. mine'[c] = [id |-> issued + 1, length |-> n, password |-> pw]
        BY <3>1
      <4> QED
        BY <3>3, <4>1 DEF Valid
    <3>6. \A d \in Clients \ {c} : ~Fresh(d) /\ ~Fresh(d)' /\ pc'[d] = pc[d]
      BY <3>2, <3>3, <3>4 DEF Single, Fresh
    <3>7. \A d \in Clients : pc'[d] \in {"register", "save", "write"} => d = c
      BY <3>6 DEF Fresh
    <3> QED
      BY <3>2, <3>4, <3>5, <3>7 DEF Single, Fresh
  <2>4. CASE RegisterFails(c)
    <3>1. UNCHANGED <<issued, lost>>
      BY <2>4 DEF RegisterFails
    <3> QED
      BY <2>4, <3>1 DEF RegisterFails, Single, Fresh, Usable, Readable
  <2>5. CASE Truncate(c)
    BY <2>5 DEF Truncate, Single, Fresh
  <2>6. CASE Write(c)
    <3>1. ~raced /\ ~missed /\ ~lost /\ ~spoiled /\ pc[c] = "write" /\ Fresh(c)
      BY <2>6 DEF Write, Single, Fresh
    <3>2. \A d \in Clients \ {c} : pc'[d] = pc[d] /\ ~Fresh(d) /\ ~Fresh(d)'
      BY <2>6, <3>1 DEF Write, Single, Fresh
    <3>3. pc'[c] = "login" /\ UNCHANGED <<issued, spoiled>>
      BY <2>6 DEF Write
    <3>4. \A d \in Clients : pc'[d] \notin {"register", "save", "write"}
      BY <3>2, <3>3 DEF Fresh
    <3>5. file' # Empty
      <4>1. mine[c].id # 0 /\ file'.owner = mine[c]
        BY <2>6, <3>1 DEF Write, Saving
      <4> QED
        BY <4>1 DEF Empty, Nobody
    <3>6. Usable'
      <4>1. Readable'
        BY <1>0, <3>1, <3>3, <3>4, <3>5 DEF FileIsWhole
      <4>2. Valid(mine[c]) /\ file'.owner = mine[c]
        BY <2>6, <3>1 DEF Write, Single
      <4> QED
        BY <4>1, <4>2 DEF Usable, Valid
    <3> QED
      BY <3>1, <3>3, <3>4, <3>6 DEF Single, Fresh
  <2>7. CASE Keep(c)
    <3>1. ~raced /\ ~missed /\ ~lost /\ pc[c] = "save" /\ Fresh(c)
      BY <2>7 DEF Keep, Single, Fresh
    <3>2. \A d \in Clients \ {c} : pc'[d] = pc[d] /\ ~Fresh(d) /\ ~Fresh(d)'
      BY <2>7, <3>1 DEF Keep, Single, Fresh
    <3>3. pc'[c] = "login" /\ UNCHANGED <<issued, spoiled>>
      BY <2>7 DEF Keep
    <3>4. \A d \in Clients : pc'[d] \notin {"register", "save", "write"}
      BY <3>2, <3>3 DEF Fresh
    <3>5. file' # Empty
      <4>1. mine[c].id # 0 /\ file'.owner = mine[c]
        BY <2>7, <3>1 DEF Keep, Saving
      <4> QED
        BY <4>1 DEF Empty, Nobody
    <3>6. Usable'
      <4>1. Readable'
        BY <1>0, <3>1, <3>3, <3>4, <3>5 DEF FileIsWhole, Single
      <4>2. Valid(mine[c]) /\ file'.owner = mine[c]
        BY <2>7, <3>1 DEF Keep, Single
      <4> QED
        BY <4>1, <4>2 DEF Usable, Valid
    <3> QED
      BY <3>1, <3>3, <3>4, <3>6 DEF Single, Fresh
  <2>8. CASE SaveFails(c)
    BY <2>8 DEF SaveFails
  <2>9. CASE Login(c)
    BY <2>9 DEF Login, Single, Fresh, Usable, Readable
  <2>10. CASE Recreate(c)
    BY <2>10 DEF Recreate, Single, Fresh, Usable, Readable
  <2>11. CASE Crash(c)
    BY <2>11 DEF Crash, Single, Fresh, Usable, Readable
  <2> QED
    BY <1>2, <2>1, <2>2, <2>3, <2>4, <2>5, <2>6, <2>7, <2>8, <2>9, <2>10, <2>11 DEF Step
<1>3. CASE UNCHANGED vars
  BY <1>3 DEF vars, Single, Fresh, Usable, Readable
<1> QED
  BY <1>1, <1>2, <1>3 DEF Next

\* register(): however many Clients share the store, the device gets one
\* identity if none reads the store while another is about to write it, no
\* load raises that a Client needed, and nothing is lost on the way.
THEOREM RegisteredByOne == Spec => []OneIdentity
<1>1. Init => OneInv
  BY OneInit
<1>2. OneInv /\ [Next]_vars => OneInv'
  BY OneNext
<1>3. OneInv => OneIdentity
  BY DEF OneInv, Single, OneIdentity
<1> QED
  BY <1>1, <1>2, <1>3, PTL DEF Spec

-----------------------------------------------------------------------------
(* A file that holds an identity settles the device.                       *)

\* A Client that has no identity fails to load the one in the file.
Misses(c) == LoadFails(c) /\ ~Valid(mine[c])

\* No step of any Client, crashes included, moves a settled device: it leaves
\* the file and the server's registrations as they are, and no Client goes to
\* register except one that misses the identity in the file.
LEMMA SettledStep ==
  ASSUME TypeOK, Settled, [Next]_vars
  PROVE  /\ file' = file /\ issued' = issued
         /\ Settled' \/ \E c \in Clients : Misses(c)
<1> USE DEF Settled, Fresh
<1>1. CASE CrashAll
  BY <1>1 DEF CrashAll
<1>2. ASSUME NEW c \in Clients, Step(c)
      PROVE  file' = file /\ issued' = issued /\ (Settled' \/ Misses(c))
  <2>1. ~(TakeRegistration(c) \/ RegisterFails(c) \/ Truncate(c) \/ Write(c)
          \/ Keep(c) \/ SaveFails(c))
    BY DEF TakeRegistration, RegisterFails, Truncate, Write, Keep, SaveFails
  <2>2. CASE Load(c)
    <3>1. Valid(mine'[c])
      BY <2>2 DEF Load, Usable, TypeOK
    <3> QED
      BY <2>2, <3>1 DEF Load, GoOn, Usable, Readable, TypeOK
  <2>3. CASE LoadFails(c)
    <3>1. CASE Valid(mine[c])
      BY <2>3, <3>1 DEF LoadFails, GoOn, Usable, Readable, TypeOK
    <3>2. CASE ~Valid(mine[c])
      BY <2>3, <3>2 DEF LoadFails, Misses
    <3> QED
      BY <3>1, <3>2
  <2>4. CASE Register(c) \/ Login(c) \/ Recreate(c) \/ Crash(c)
    BY <2>4 DEF Register, Login, Recreate, Crash, Usable, Readable, TypeOK
  <2> QED
    BY <1>2, <2>1, <2>2, <2>3, <2>4 DEF Step
<1>3. CASE UNCHANGED vars
  BY <1>3 DEF vars, Usable, Readable
<1> QED
  BY <1>1, <1>2, <1>3 DEF Next

\* register(): once the credential file holds an identity and nobody is about to
\* replace it, the device keeps it, until a Client that has none fails to load it.
THEOREM IdentitySettles == Spec => SettledStays
<1>1. TypeOK /\ [Next]_vars =>
        [Settled => /\ file' = file /\ issued' = issued
                    /\ Settled' \/ \E c \in Clients : LoadFails(c) /\ ~Valid(mine[c])]_vars
  BY SettledStep DEF Misses
<1> QED
  BY <1>1, TypeCorrect, PTL DEF Spec, SettledStays
=============================================================================
