---------------------------- MODULE SharedStore ----------------------------
(***************************************************************************)
(* Any number of Clients that call register() with one Store: those of     *)
(* several processes on one FileStore, or those of one process on one      *)
(* MemoryStore.  Nothing locks the file, so every access of load and save  *)
(* is a step of its own; what register() does on the network between them  *)
(* is module Registration, and here one step that works or fails.          *)
(*                                                                         *)
(* A file is the text of the last writer, as far as it goes, before what   *)
(* it did not overwrite of a longer text.                                  *)
(***************************************************************************)
EXTENDS Integers

CONSTANTS
  Clients,   \* the Clients
  Lengths,   \* lengths a credential file may have
  Passwords, \* subset of BOOLEAN: does a registration come with a password
  Kinds,     \* which stores: subset of {"file", "memory"}
  MaxIssued  \* bound: registrations the server issues

ASSUME LengthsAssumption == Lengths \subseteq Nat \ {0}
ASSUME PasswordsAssumption == Passwords \subseteq BOOLEAN
ASSUME KindsAssumption == Kinds \subseteq {"file", "memory"}
ASSUME MaxIssuedAssumption == MaxIssued \in Nat

VARIABLES
  kind,     \* FileStore or MemoryStore
  pc,       \* what each Client is about to do
  mine,     \* Client.credentials: an identity by its number, the length of its
            \* text, and whether it has a password
  file,     \* the file: who wrote its beginning, and its length
  issued,   \* server: registrations it has issued
  spoiled,  \* history: the last save met another one, or broke off
  raced,    \* history: a Client read the store while another was to write it
  missed,   \* history: the load of a Client without identity raised on a file
            \* that holds one
  lost      \* history: an identity was issued that no save put in the store, or
            \* that has no password

vars == <<kind, pc, mine, file, issued, spoiled, raced, missed, lost>>

Nobody == [id |-> 0, length |-> 0, password |-> FALSE]
Identities == [id : Nat, length : Lengths \union {0}, password : BOOLEAN]
Valid(identity) == identity.id # 0 /\ identity.password
Empty == [owner |-> Nobody, length |-> 0] \* a missing file, or an empty one

Init ==
  /\ kind \in Kinds
  /\ pc = [c \in Clients |-> "idle"] /\ mine = [c \in Clients |-> Nobody]
  /\ file = Empty /\ issued = 0
  /\ spoiled = FALSE /\ raced = FALSE /\ missed = FALSE /\ lost = FALSE

\* What json.loads accepts after the text it wants is one byte of a longer text:
\* its newline.
Readable == file.owner.id # 0 /\ file.length <= file.owner.length + 1

\* register() uses what it can read only if it is valid.
Usable == Readable /\ Valid(file.owner)

\* register() goes on with the identity that c has then, or asks for one.
GoOn(c) == pc' = [pc EXCEPT ![c] = IF Valid(mine'[c]) THEN "login" ELSE "register"]

\* A Client that found no identity and has not yet saved the one it gets.
Fresh(c) == pc[c] \in {"register", "save", "write"}
OthersFresh(c) == \E d \in Clients \ {c} : Fresh(d)

Register(c) ==
  /\ pc[c] = "idle"
  /\ pc' = [pc EXCEPT ![c] = "load"]
  /\ UNCHANGED <<kind, mine, file, issued, spoiled, raced, missed, lost>>

\* Mutant: the store is not read.
LoadNothing(c) ==
  /\ pc[c] = "load"
  /\ UNCHANGED mine
  /\ GoOn(c)
  /\ raced' = (raced \/ OthersFresh(c))
  /\ UNCHANGED <<kind, file, issued, spoiled, missed, lost>>

\* A text that does not parse or has no password in it is as good as none, and
\* leaves the credentials in memory as they are.
Load(c) ==
  /\ pc[c] = "load"
  /\ mine' = [mine EXCEPT ![c] = IF Usable THEN file.owner ELSE @]
  /\ GoOn(c)
  /\ raced' = (raced \/ OthersFresh(c))
  /\ UNCHANGED <<kind, file, issued, spoiled, missed, lost>>

\* The load raises, whatever the file holds: register() logs it and goes on.
LoadFails(c) ==
  /\ kind = "file" /\ pc[c] = "load"
  /\ UNCHANGED mine
  /\ GoOn(c)
  /\ raced' = (raced \/ OthersFresh(c))
  /\ missed' = (missed \/ (Usable /\ ~Valid(mine[c])))
  /\ UNCHANGED <<kind, file, issued, spoiled, lost>>

\* Mutant: the answer is not saved.
TakeUnsaved(c) ==
  /\ pc[c] = "register" /\ issued < MaxIssued
  /\ issued' = issued + 1
  /\ \E n \in Lengths, pw \in Passwords :
       /\ mine' = [mine EXCEPT ![c] = [id |-> issued + 1, length |-> n, password |-> pw]]
       /\ lost' = (lost \/ ~pw)
  /\ pc' = [pc EXCEPT ![c] = "login"]
  /\ UNCHANGED <<kind, file, spoiled, raced, missed>>

\* _register: the server issues an identity and the Client receives it, which
\* takes one without a password as well.
TakeRegistration(c) ==
  /\ pc[c] = "register" /\ issued < MaxIssued
  /\ issued' = issued + 1
  /\ \E n \in Lengths, pw \in Passwords :
       /\ mine' = [mine EXCEPT ![c] = [id |-> issued + 1, length |-> n, password |-> pw]]
       /\ lost' = (lost \/ ~pw)
  /\ pc' = [pc EXCEPT ![c] = "save"]
  /\ UNCHANGED <<kind, file, spoiled, raced, missed>>

\* The dial, the request or the answer fails; the server may have issued the
\* identity all the same.
RegisterFails(c) ==
  /\ pc[c] = "register"
  /\ pc' = [pc EXCEPT ![c] = "idle"]
  /\ \/ UNCHANGED <<issued, lost>>
     \/ issued < MaxIssued /\ issued' = issued + 1 /\ lost' = TRUE
  /\ UNCHANGED <<kind, mine, file, spoiled, raced, missed>>

\* Mutant: the file is opened without emptying it.
OpenOnly(c) ==
  /\ kind = "file" /\ pc[c] = "save"
  /\ pc' = [pc EXCEPT ![c] = "write"]
  /\ spoiled' = (\E d \in Clients \ {c} : pc[d] = "write")
  /\ UNCHANGED <<kind, mine, file, issued, raced, missed, lost>>

\* FileStore.save, write_text: opening the file empties it.
Truncate(c) ==
  /\ kind = "file" /\ pc[c] = "save"
  /\ file' = Empty
  /\ pc' = [pc EXCEPT ![c] = "write"]
  /\ spoiled' = (\E d \in Clients \ {c} : pc[d] = "write")
  /\ UNCHANGED <<kind, mine, issued, raced, missed, lost>>

\* Mutant: the file is opened for appending.
Append(c) ==
  /\ pc[c] = "write"
  /\ file' = [owner |-> mine[c], length |-> file.length + mine[c].length]
  /\ pc' = [pc EXCEPT ![c] = "login"]
  /\ UNCHANGED <<kind, mine, issued, spoiled, raced, missed, lost>>

\* The text is written from the start of the file, over what another save has
\* written since the file was opened.
Write(c) ==
  /\ pc[c] = "write"
  /\ file' = [owner |-> mine[c],
              length |-> IF file.length > mine[c].length THEN file.length
                         ELSE mine[c].length]
  /\ pc' = [pc EXCEPT ![c] = "login"]
  /\ UNCHANGED <<kind, mine, issued, spoiled, raced, missed, lost>>

\* MemoryStore.save.
Keep(c) ==
  /\ kind = "memory" /\ pc[c] = "save"
  /\ file' = [owner |-> mine[c], length |-> mine[c].length]
  /\ pc' = [pc EXCEPT ![c] = "login"]
  /\ UNCHANGED <<kind, mine, issued, spoiled, raced, missed, lost>>

\* "persistence is best effort": a save that fails is logged, wherever it fails.
SaveFails(c) ==
  /\ kind = "file" /\ pc[c] \in {"save", "write"}
  /\ pc' = [pc EXCEPT ![c] = "login"]
  /\ spoiled' = (spoiled \/ pc[c] = "write") /\ lost' = TRUE
  /\ UNCHANGED <<kind, mine, file, issued, raced, missed>>

\* _login, and whatever ends the session: the Client may be asked again.
Login(c) ==
  /\ pc[c] = "login"
  /\ pc' = [pc EXCEPT ![c] = "idle"]
  /\ UNCHANGED <<kind, mine, file, issued, spoiled, raced, missed, lost>>

\* The application drops the Client for a new one.
Recreate(c) ==
  /\ pc[c] = "idle"
  /\ mine' = [mine EXCEPT ![c] = Nobody]
  /\ UNCHANGED <<kind, pc, file, issued, spoiled, raced, missed, lost>>

\* A process dies with its Client; an identity on its way to the file is lost.
Crash(c) ==
  /\ kind = "file"
  /\ pc' = [pc EXCEPT ![c] = "idle"] /\ mine' = [mine EXCEPT ![c] = Nobody]
  /\ spoiled' = (spoiled \/ pc[c] = "write")
  /\ lost' = (lost \/ pc[c] \in {"save", "write"})
  /\ UNCHANGED <<kind, file, issued, raced, missed>>

\* The one process of a MemoryStore dies with all it holds.
CrashAll ==
  /\ kind = "memory"
  /\ pc' = [c \in Clients |-> "idle"] /\ mine' = [c \in Clients |-> Nobody]
  /\ file' = Empty /\ lost' = (issued > 0)
  /\ UNCHANGED <<kind, issued, spoiled, raced, missed>>

Step(c) ==
  \/ Register(c) \/ Load(c) \/ LoadFails(c) \/ TakeRegistration(c)
  \/ RegisterFails(c) \/ Truncate(c) \/ Write(c) \/ Keep(c) \/ SaveFails(c) \/ Login(c)
  \/ Recreate(c) \/ Crash(c)

Next == CrashAll \/ \E c \in Clients : Step(c)

Spec == Init /\ [][Next]_vars

-----------------------------------------------------------------------------
(* What must hold.                                                         *)

\* Every variable holds a value of its kind.
TypeOK ==
  /\ kind \in Kinds
  /\ pc \in [Clients -> {"idle", "load", "register", "save", "write", "login"}]
  /\ mine \in [Clients -> Identities]
  /\ file \in [owner : Identities, length : Lengths \union {0}]
  /\ issued \in Nat
  /\ spoiled \in BOOLEAN /\ raced \in BOOLEAN
  /\ missed \in BOOLEAN /\ lost \in BOOLEAN

\* The file can be read whenever nobody writes it, unless the last save met
\* another one or broke off: a save repairs what earlier ones left, be it a
\* longer text or a torn one (store.py:36).
FileIsWhole ==
  ~spoiled /\ (\A c \in Clients : pc[c] # "write") => file = Empty \/ Readable

\* The device has one identity, however many Clients register it, when each
\* reads the store after those before it have saved, no load fails that a Client
\* needed and nothing is lost on the way (client.py:147, :150, :165).
OneIdentity == ~raced /\ ~missed /\ ~lost => issued <= 1

\* Once a file holds an identity and nobody is about to replace it, no Client
\* asks for another one or writes another file, whatever crashes, except one
\* that has none in memory and whose load of it raises (client.py:150, :153).
Settled == kind = "file" /\ Usable /\ \A c \in Clients : ~Fresh(c)
SettledStays ==
  [][Settled => /\ file' = file /\ issued' = issued
                /\ Settled' \/ \E c \in Clients : LoadFails(c) /\ ~Valid(mine[c])]_vars
=============================================================================
