-------------------------- MODULE DiscoveryProof --------------------------
(***************************************************************************)
(* Proofs about Discovery, for any hosts, servers, timeouts and deadline.  *)
(***************************************************************************)
EXTENDS Discovery, TLAPS

\* A list of servers is a sequence of them, and the fallback makes it longer.
LEMMA ListFacts ==
  ASSUME NEW found \in Lists
  PROVE  /\ found \in Seq(Servers)
         /\ Append(found, Fallback) \in Seq(Servers \union {Fallback})
         /\ Len(Append(found, Fallback)) \in Nat \ {0}
         /\ Append(found, Fallback)[Len(Append(found, Fallback))] = Fallback
         /\ Len(Append(found, Fallback)) = 1 => found = <<>>
<1>1. PICK n \in 0..MaxAddresses : found \in [1..n -> Servers]
  BY DEF Lists
<1>2. n \in Nat
  BY <1>1, NumbersAssumption
<1>3. found \in Seq(Servers) /\ Len(found) = n
  BY <1>1, <1>2
<1>4. found \in Seq(Servers \union {Fallback})
  BY <1>3
<1> QED
  BY <1>3, <1>4

\* What _remaining gives: no more than the default, nor than the deadline leaves.
LEMMA RemainingFacts ==
  ASSUME elapsed \in Nat, NEW default \in Nat
  PROVE  /\ Left \in Nat /\ Remaining(default) \in Nat
         /\ Remaining(default) <= default /\ Remaining(default) <= Left
         /\ elapsed < Timeout => elapsed + Left = Timeout
         /\ elapsed >= Timeout => Left = 0
  BY NumbersAssumption DEF Left, Remaining

-----------------------------------------------------------------------------
(* Types, and the addresses to dial.                                       *)

\* SIS is asked before there is an address; a list to dial ends with the
\* fallback, and the dial that fails last is its.
Listed ==
  /\ pc = "sis" => addresses = <<>> /\ next = 1
  /\ pc # "sis" => /\ next <= Len(addresses) /\ addresses # <<>>
                   /\ addresses[Len(addresses)] = Fallback
  /\ pc = "failed" => next = Len(addresses)

ListInv == TypeOK /\ Listed

LEMMA ListInit == Init => ListInv
<1> SUFFICES ASSUME Init PROVE ListInv
  OBVIOUS
<1>1. PICK configured \in Lists :
        IF configured = <<>>
        THEN pc = "sis" /\ addresses = <<>>
        ELSE pc = "dial" /\ addresses = Append(configured, Fallback)
  BY DEF Init
<1>2. host = 1 /\ next = 1 /\ elapsed = 0 /\ patience = 0
  BY DEF Init
<1>3. CASE configured = <<>>
  BY <1>1, <1>2, <1>3, NumbersAssumption DEF ListInv, TypeOK, Listed
<1>4. CASE configured # <<>>
  BY <1>1, <1>2, <1>4, ListFacts, NumbersAssumption DEF ListInv, TypeOK, Listed
<1> QED
  BY <1>3, <1>4

\* The step from one host to the next, or to the dials.
LEMMA ListNextHost ==
  ASSUME ListInv, pc = "sis", NEW found \in Lists, NextHost(found),
         elapsed' \in Nat, UNCHANGED <<next, patience>>
  PROVE  ListInv'
<1>1. CASE host < Hosts /\ found = <<>>
  BY <1>1, NumbersAssumption DEF ListInv, TypeOK, Listed, NextHost
<1>2. CASE ~(host < Hosts /\ found = <<>>)
  <2>1. pc' = "dial" /\ addresses' = Append(found, Fallback) /\ host' = host /\ next' = 1
    BY <1>2 DEF NextHost, ListInv, Listed
  <2>2. addresses' # <<>>
    BY <2>1, ListFacts
  <2> QED
    BY <2>1, <2>2, ListFacts DEF ListInv, TypeOK, Listed
<1> QED
  BY <1>1, <1>2

LEMMA EmptyListed == <<>> \in Lists
<1>1. <<>> \in [1..0 -> Servers] /\ 0 \in 0..MaxAddresses
  BY NumbersAssumption
<1> QED
  BY <1>1 DEF Lists

LEMMA ListNext == ListInv /\ [Next]_vars => ListInv'
<1> SUFFICES ASSUME ListInv, [Next]_vars PROVE ListInv'
  OBVIOUS
<1>0. elapsed \in Nat /\ patience \in Nat
  BY DEF ListInv, TypeOK
<1>1. CASE QueryFails
  <2>1. elapsed' \in Nat
    BY <1>0, <1>1, RemainingFacts, NumbersAssumption DEF QueryFails
  <2> QED
    BY <1>1, <2>1, EmptyListed, ListNextHost DEF QueryFails
<1>2. CASE QueryAnswers
  <2>1. elapsed' \in Nat
    BY <1>0, <1>2, RemainingFacts, NumbersAssumption DEF QueryAnswers
  <2>2. PICK found \in Lists : NextHost(found)
    BY <1>2 DEF QueryAnswers
  <2> QED
    BY <1>2, <2>1, <2>2, ListNextHost DEF QueryAnswers
<1>3. ASSUME DialFails \/ DialWorks PROVE elapsed' \in Nat /\ patience' \in Nat
  <2>1. Remaining(DialTimeout) \in Nat
    BY <1>0, RemainingFacts, NumbersAssumption
  <2>2. Resolved * Remaining(DialTimeout) \in Nat
    BY <2>1, NumbersAssumption
  <2> QED
    BY <1>0, <1>3, <2>1, <2>2 DEF DialFails, DialWorks
<1>4. CASE DialFails
  BY <1>3, <1>4 DEF DialFails, ListInv, TypeOK, Listed
<1>5. CASE DialWorks
  BY <1>3, <1>5 DEF DialWorks, ListInv, TypeOK, Listed
<1>6. CASE UNCHANGED vars
  BY <1>6 DEF vars, ListInv, TypeOK, Listed
<1> QED
  BY <1>1, <1>2, <1>4, <1>5, <1>6 DEF Next

\* The types of Discovery hold in every reachable state.
THEOREM TypeCorrect == Spec => []TypeOK
<1>1. Init => ListInv
  BY ListInit
<1>2. ListInv /\ [Next]_vars => ListInv'
  BY ListNext
<1>3. ListInv => TypeOK
  BY DEF ListInv
<1> QED
  BY <1>1, <1>2, <1>3, PTL DEF Spec

\* _connect: whatever SIS or the configuration lists, register() reports a
\* failed connect only after the dial of the fallback failed.
THEOREM FallbackLast == Spec => []FallbackTriedLast
<1>1. Init => ListInv
  BY ListInit
<1>2. ListInv /\ [Next]_vars => ListInv'
  BY ListNext
<1>3. ListInv => FallbackTriedLast
  BY DEF ListInv, Listed, FallbackTriedLast
<1> QED
  BY <1>1, <1>2, <1>3, PTL DEF Spec

-----------------------------------------------------------------------------
(* Time.                                                                   *)

Over == (Resolved - 1) * DialTimeout

LEMMA OverNat == Over \in Nat
<1>1. Resolved - 1 \in Nat /\ DialTimeout \in Nat
  BY NumbersAssumption
<1> QED
  BY <1>1 DEF Over

\* A dial of all addresses of a name overruns what is left by the further ones.
LEMMA DialTime ==
  ASSUME NEW r \in Nat, r <= DialTimeout
  PROVE  Resolved * r \in Nat /\ Resolved * r <= r + Over
<1> DEFINE more == Resolved - 1
           spare == DialTimeout - r
<1>1. more \in Nat /\ spare \in Nat /\ Resolved = more + 1 /\ DialTimeout = r + spare
  BY NumbersAssumption
<1> HIDE DEF more, spare
<1>2. more * r \in Nat /\ more * spare \in Nat
  BY <1>1
<1>3. (more + 1) * r = more * r + r
  BY <1>1
<1>4. more * (r + spare) = more * r + more * spare
  BY <1>1
<1>5. Over = more * r + more * spare
  <2>1. Resolved - 1 = more
    BY <1>1
  <2> QED
    BY <1>1, <1>4, <2>1 DEF Over
<1> QED
  BY <1>1, <1>2, <1>3, <1>5

\* SIS is asked within the deadline; only a dial can outlast it.
Timely == elapsed <= Timeout + Over /\ (pc = "sis" => elapsed <= Timeout)

LEMMA TimelyNext == TypeOK /\ Timely /\ [Next]_vars => Timely'
<1> SUFFICES ASSUME TypeOK, Timely, [Next]_vars PROVE Timely'
  OBVIOUS
<1>0. elapsed \in Nat /\ Timeout \in Nat /\ SisTimeout \in Nat /\ DialTimeout \in Nat /\ Over \in Nat
  BY NumbersAssumption, OverNat DEF TypeOK
<1>1. CASE QueryFails \/ QueryAnswers
  <2>1. PICK d \in 0..Remaining(SisTimeout) : elapsed' = elapsed + d
    BY <1>1 DEF QueryFails, QueryAnswers
  <2>2. elapsed <= Timeout
    BY <1>1 DEF QueryFails, QueryAnswers, Timely
  <2>3. elapsed' <= Timeout
    BY <1>0, <2>1, <2>2, RemainingFacts
  <2> QED
    BY <1>0, <2>1, <2>3 DEF Timely
<1>2. CASE DialFails \/ DialWorks
  <2> DEFINE r == Remaining(DialTimeout)
  <2>1. PICK d \in 0..(Resolved * r) : elapsed' = elapsed + d
    BY <1>2 DEF DialFails, DialWorks
  <2>2. r \in Nat /\ r <= DialTimeout /\ (elapsed < Timeout => elapsed + r <= Timeout)
        /\ (elapsed >= Timeout => r = 0)
    BY <1>0, RemainingFacts
  <2>3. pc' # "sis"
    BY <1>2 DEF DialFails, DialWorks
  <2> HIDE DEF r
  <2>4. Resolved * r \in Nat /\ Resolved * r <= r + Over
    BY <2>2, DialTime
  <2>5. CASE elapsed < Timeout
    BY <1>0, <2>1, <2>2, <2>3, <2>4, <2>5 DEF Timely
  <2>6. CASE elapsed >= Timeout
    <3>1. Resolved * r = 0
      BY <2>2, <2>6, NumbersAssumption
    <3> QED
      BY <1>0, <2>1, <2>3, <3>1 DEF Timely
  <2> QED
    BY <1>0, <2>5, <2>6
<1>3. CASE UNCHANGED vars
  BY <1>3 DEF vars, Timely
<1> QED
  BY <1>1, <1>2, <1>3 DEF Next

\* _remaining: the search for a server overruns the caller's deadline by at most
\* the further IP addresses of one name, however many hosts and servers there are.
THEOREM DeadlineKept == Spec => []WithinDeadline
<1>1. Init => Timely
  BY OverNat, NumbersAssumption DEF Init, Timely
<1>2. TypeOK /\ Timely /\ [Next]_vars => Timely'
  BY TimelyNext
<1>3. Timely => WithinDeadline
  BY DEF Timely, WithinDeadline, Over
<1> QED
  BY <1>1, <1>2, <1>3, TypeCorrect, PTL DEF Spec

-----------------------------------------------------------------------------
(* Hosts that answer nothing.                                              *)

\* Each host had at most SisTimeout; only an empty search leaves one address.
Silent ==
  /\ pc = "sis" => elapsed <= (host - 1) * SisTimeout
  /\ pc = "dial" /\ Len(addresses) = 1 => elapsed <= Hosts * SisTimeout
  /\ SilentSisLeavesTime

\* One more host takes at most one more SisTimeout.
LEMMA HostTime ==
  ASSUME NEW h \in Nat \ {0}, NEW k \in Nat \ {0}
  PROVE  (h - 1) * k + k = h * k /\ (h + 1 - 1) * k = h * k /\ h * k \in Nat
<1> DEFINE m == h - 1
<1>1. m \in Nat /\ h = m + 1 /\ k \in Nat
  OBVIOUS
<1> HIDE DEF m
<1>2. (m + 1) * k = m * k + k /\ m * k \in Nat
  BY <1>1
<1>3. h - 1 = m /\ h + 1 - 1 = h
  BY <1>1
<1> QED
  BY <1>1, <1>2, <1>3

LEMMA SilentInit == Init => Silent
<1> SUFFICES ASSUME Init PROVE Silent
  OBVIOUS
<1>1. PICK configured \in Lists :
        IF configured = <<>>
        THEN pc = "sis" /\ addresses = <<>>
        ELSE pc = "dial" /\ addresses = Append(configured, Fallback)
  BY DEF Init
<1>2. pc = "dial" => Len(addresses) # 1
  BY <1>1, ListFacts
<1>3. (host - 1) * SisTimeout = 0
  BY NumbersAssumption DEF Init
<1> QED
  BY <1>1, <1>2, <1>3 DEF Init, Silent, SilentSisLeavesTime

LEMMA SilentNext == ListInv /\ Silent /\ [Next]_vars => Silent'
<1> SUFFICES ASSUME ListInv, Silent, [Next]_vars PROVE Silent'
  OBVIOUS
<1>0. elapsed \in Nat /\ host \in Nat \ {0} /\ host <= Hosts /\ next \in Nat \ {0}
  BY NumbersAssumption DEF ListInv, TypeOK
<1>1. ASSUME NEW found \in Lists, NextHost(found), pc = "sis",
             NEW d \in 0..Remaining(SisTimeout), elapsed' = elapsed + d
      PROVE  Silent'
  <2>1. elapsed \in Nat /\ elapsed' \in Nat /\ elapsed' <= host * SisTimeout
    <3>1. d \in Nat /\ d <= SisTimeout
      BY <1>0, RemainingFacts, NumbersAssumption
    <3>2. elapsed <= (host - 1) * SisTimeout
      BY <1>1 DEF Silent
    <3>3. (host - 1) * SisTimeout + SisTimeout = host * SisTimeout
      BY <1>0, HostTime, NumbersAssumption
    <3>4. (host - 1) * SisTimeout \in Nat
      <4>1. host - 1 \in Nat /\ SisTimeout \in Nat
        BY <1>0, NumbersAssumption
      <4> QED
        BY <4>1
    <3> QED
      BY <1>0, <1>1, <3>1, <3>2, <3>3, <3>4, NumbersAssumption
  <2>2. CASE host < Hosts /\ found = <<>>
    <3>1. host' = host + 1 /\ pc' = "sis"
      BY <1>1, <2>2 DEF NextHost
    <3>2. (host' - 1) * SisTimeout = host * SisTimeout
      BY <1>0, <3>1, HostTime, NumbersAssumption
    <3> QED
      BY <2>1, <3>1, <3>2 DEF Silent, SilentSisLeavesTime
  <2>3. CASE ~(host < Hosts /\ found = <<>>)
    <3>1. pc' = "dial" /\ addresses' = Append(found, Fallback)
      BY <1>1, <2>3 DEF NextHost
    <3>2. Len(addresses') = 1 => host = Hosts
      BY <1>0, <2>3, <3>1, ListFacts, NumbersAssumption
    <3> QED
      BY <2>1, <3>1, <3>2 DEF Silent, SilentSisLeavesTime
  <2> QED
    BY <2>2, <2>3
<1>2. CASE QueryFails
  BY <1>1, <1>2, EmptyListed DEF QueryFails
<1>3. CASE QueryAnswers
  BY <1>1, <1>3 DEF QueryAnswers
<1>4. CASE DialFails
  <2>1. CASE Len(addresses) = 1 /\ Timeout > Hosts * SisTimeout
    <3>1. elapsed <= Hosts * SisTimeout /\ Hosts * SisTimeout \in Nat
      BY <1>4, <2>1, NumbersAssumption DEF DialFails, Silent
    <3>2. Left > 0
      BY <1>0, <2>1, <3>1, NumbersAssumption DEF Left
    <3>3. patience' > 0
      BY <1>0, <1>4, <3>2, RemainingFacts, NumbersAssumption DEF DialFails, Remaining
    <3>4. pc' = "failed"
      BY <1>0, <1>4, <2>1 DEF DialFails
    <3> QED
      BY <3>3, <3>4 DEF Silent, SilentSisLeavesTime
  <2>2. CASE Len(addresses) = 1 /\ ~(Timeout > Hosts * SisTimeout)
    <3>1. pc' = "failed"
      BY <1>0, <1>4, <2>2 DEF DialFails
    <3> QED
      BY <2>2, <3>1 DEF Silent, SilentSisLeavesTime
  <2>3. CASE Len(addresses) # 1
    BY <1>4, <2>3 DEF DialFails, Silent, SilentSisLeavesTime
  <2> QED
    BY <2>1, <2>2, <2>3
<1>5. CASE DialWorks
  BY <1>5 DEF DialWorks, Silent, SilentSisLeavesTime
<1>6. CASE UNCHANGED vars
  BY <1>6 DEF vars, Silent, SilentSisLeavesTime
<1> QED
  BY <1>2, <1>3, <1>4, <1>5, <1>6 DEF Next

\* resolve_servers: hosts that answer nothing use up at most SIS_TIMEOUT each,
\* so the fallback is dialled with time left whenever the deadline is longer
\* than that sum.
THEOREM FallbackHasTime == Spec => []SilentSisLeavesTime
<1>1. Init => ListInv /\ Silent
  BY ListInit, SilentInit
<1>2. ListInv /\ Silent /\ [Next]_vars => (ListInv /\ Silent)'
  BY ListNext, SilentNext
<1>3. Silent => SilentSisLeavesTime
  BY DEF Silent
<1> QED
  BY <1>1, <1>2, <1>3, PTL DEF Spec
=============================================================================
