------------------------------ MODULE Discovery ------------------------------
(***************************************************************************)
(* How register() finds a push server: ask the SIS hosts one after the     *)
(* other, then dial the addresses one after the other, the built-in        *)
(* fallback last, all within the caller's deadline.                        *)
(*                                                                         *)
(* Time is counted in whole units from the call of register().  A query or *)
(* a dial takes at most the timeout it is given; _remaining cuts that to   *)
(* what the deadline leaves, and a timeout of 0 makes the socket           *)
(* non-blocking, so the operation fails at once.  socket.create_connection *)
(* gives that timeout to each IP address a server's name resolves to.  The *)
(* resolution of names itself has no timeout and is not counted.           *)
(***************************************************************************)
EXTENDS Naturals, Sequences

CONSTANTS
  Fallback,     \* FALLBACK_CONN
  Servers,      \* the other addresses servers are found at
  MaxAddresses, \* bound: addresses in one SIS answer or in Config.servers
  Hosts,        \* how many SIS hosts there are
  SisTimeout,   \* SIS_TIMEOUT
  DialTimeout,  \* DIAL_TIMEOUT
  Resolved,     \* how many IP addresses a server's name resolves to, at most
  Timeout       \* the timeout register() was called with

ASSUME FallbackAssumption == Fallback \notin Servers
ASSUME NumbersAssumption ==
  /\ Hosts \in Nat \ {0} /\ SisTimeout \in Nat \ {0} /\ DialTimeout \in Nat \ {0}
  /\ Resolved \in Nat \ {0}
  /\ Timeout \in Nat /\ MaxAddresses \in Nat

VARIABLES
  pc,         \* "sis", "dial", "connected" or "failed"
  host,       \* the SIS host to ask next
  addresses,  \* the addresses to dial
  next,       \* the index of the one to dial next
  elapsed,    \* time since register() was called
  patience    \* the timeout the last dial was given

vars == <<pc, host, addresses, next, elapsed, patience>>

Lists == UNION {[1..n -> Servers] : n \in 0..MaxAddresses}

\* Config.servers, when there are any, replaces SIS.
Init ==
  /\ \E configured \in Lists :
       IF configured = <<>>
       THEN pc = "sis" /\ addresses = <<>>
       ELSE pc = "dial" /\ addresses = Append(configured, Fallback)
  /\ host = 1 /\ next = 1 /\ elapsed = 0 /\ patience = 0

\* Mutant: the deadline is forgotten.
AlwaysDefault(default) == default

\* _remaining: the default, cut to what the deadline leaves, never negative.
Left == IF elapsed < Timeout THEN Timeout - elapsed ELSE 0
Remaining(default) == IF default < Left THEN default ELSE Left

-----------------------------------------------------------------------------
(* resolve_servers.                                                        *)

\* Mutant: the fallback is appended only when SIS gave nothing.
NextHostOrFallback(found) ==
  IF host < Hosts /\ found = <<>>
  THEN host' = host + 1 /\ UNCHANGED <<pc, addresses>>
  ELSE /\ pc' = "dial" /\ UNCHANGED host
       /\ addresses' = IF found = <<>> THEN <<Fallback>> ELSE found

\* Mutant: the hosts are asked round and round until one answers.
AskAgain(found) ==
  IF found = <<>>
  THEN host' = (host % Hosts) + 1 /\ UNCHANGED <<pc, addresses>>
  ELSE pc' = "dial" /\ addresses' = Append(found, Fallback) /\ UNCHANGED host

\* Mutant: the host list is walked one host too far.
OneHostMore(found) ==
  IF host <= Hosts /\ found = <<>>
  THEN host' = host + 1 /\ UNCHANGED <<pc, addresses>>
  ELSE pc' = "dial" /\ addresses' = Append(found, Fallback) /\ UNCHANGED host

\* The loop over the hosts goes on, or ends with the fallback appended.
NextHost(found) ==
  IF host < Hosts /\ found = <<>>
  THEN host' = host + 1 /\ UNCHANGED <<pc, addresses>>
  ELSE pc' = "dial" /\ addresses' = Append(found, Fallback) /\ UNCHANGED host

\* No answer in time, or one that does not parse.
QueryFails ==
  /\ pc = "sis"
  /\ \E d \in 0..Remaining(SisTimeout) : elapsed' = elapsed + d
  /\ NextHost(<<>>)
  /\ UNCHANGED <<next, patience>>

\* The answer's ips and op_conns, of which there may be none.
QueryAnswers ==
  /\ pc = "sis" /\ Remaining(SisTimeout) > 0
  /\ \E d \in 0..Remaining(SisTimeout) : elapsed' = elapsed + d
  /\ \E found \in Lists : NextHost(found)
  /\ UNCHANGED <<next, patience>>

-----------------------------------------------------------------------------
(* _connect.                                                               *)

DialFails ==
  /\ pc = "dial"
  /\ patience' = Remaining(DialTimeout)
  /\ \E d \in 0..(Resolved * Remaining(DialTimeout)) : elapsed' = elapsed + d
  /\ IF next < Len(addresses) THEN next' = next + 1 /\ UNCHANGED pc
     ELSE pc' = "failed" /\ UNCHANGED next
  /\ UNCHANGED <<host, addresses>>

DialWorks ==
  /\ pc = "dial" /\ Remaining(DialTimeout) > 0
  /\ patience' = Remaining(DialTimeout)
  /\ \E d \in 0..(Resolved * Remaining(DialTimeout)) : elapsed' = elapsed + d
  /\ pc' = "connected"
  /\ UNCHANGED <<host, addresses, next>>

Next == QueryFails \/ QueryAnswers \/ DialFails \/ DialWorks
Spec == Init /\ [][Next]_vars
LiveSpec == Spec /\ WF_vars(Next)

-----------------------------------------------------------------------------
(* What must hold.                                                         *)

\* Every variable holds a value of its kind.
TypeOK ==
  /\ pc \in {"sis", "dial", "connected", "failed"}
  /\ host \in 1..Hosts
  /\ addresses \in Seq(Servers \union {Fallback})
  /\ next \in Nat \ {0} /\ elapsed \in Nat /\ patience \in Nat

\* However many hosts and servers keep it waiting, the search outlasts the
\* caller's deadline by at most the further addresses of one name (_remaining,
\* client.py:608); not at all when a name has one address.
WithinDeadline == elapsed <= Timeout + (Resolved - 1) * DialTimeout

\* register() reports "connect" only after the fallback was dialled too: it is
\* the last address, whatever SIS or Config.servers said (client.py:180, :227).
FallbackTriedLast ==
  pc = "failed" => addresses[next] = Fallback /\ next = Len(addresses)

\* With a deadline that leaves more than SIS can use up, hosts that answer
\* nothing cannot take the fallback's time: it is dialled with patience to spare.
SilentSisLeavesTime ==
  pc = "failed" /\ Len(addresses) = 1 /\ Timeout > Hosts * SisTimeout => patience > 0

\* register() gets an answer from the search: connected or failed.
SearchEnds == <>(pc \in {"connected", "failed"})
=============================================================================
