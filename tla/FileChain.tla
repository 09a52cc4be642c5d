----------------------------- MODULE FileChain -----------------------------
(***************************************************************************)
(* The hash chains in a JSON-lines file that several processes append to:  *)
(*   chain-edits  GraphityAuditPersister                                   *)
(*   chain-core   append_entry and verify_chain of synaptic_plasticity     *)
(* An append reads the last 4096 bytes for the last line, computes index   *)
(* and hash, then opens the file for appending: no lock spans the two.  A  *)
(* tail that cannot be parsed counts as an empty file, so the chain starts *)
(* anew at the genesis hash.  A hash is the sequence of the entries behind *)
(* it: SHA-256 does not collide.                                           *)
(***************************************************************************)
EXTENDS Integers, Sequences

CONSTANTS
  Procs,    \* processes that append
  None,
  MaxLines  \* bound of the file

VARIABLES
  engine,
  file,     \* the lines: [index, prev, hash, long, torn]
  tail,     \* the entry a process has computed from the tail it read, or None
  accident  \* history: the length of the file when the first accident happened:
            \* a tail overtaken, a tail too long to read, a line torn by a crash

vars == <<file, tail, accident>>

Engines == {"chain-edits", "chain-core"}

Start ==
  /\ file = <<>>
  /\ tail = [p \in Procs |-> None]
  /\ accident = None

\* read_last_entry, _last_domain_entry: None for an empty file, a line longer
\* than the 4096 bytes that are read, and a line that is no JSON.
Unreadable == file # <<>> /\ (file[Len(file)].long \/ file[Len(file)].torn)

\* FAULT: the index starts at 1 on an empty file.
FromOne(id, long) ==
  [index |-> Len(file) + 1, prev |-> IF file = <<>> THEN <<>> ELSE file[Len(file)].hash,
   hash |-> IF file = <<>> THEN <<id>> ELSE Append(file[Len(file)].hash, id),
   long |-> long, torn |-> FALSE]

\* The entry behind the tail.
Entry(id, long) ==
  LET empty == file = <<>> \/ Unreadable
      prev  == IF empty THEN <<>> ELSE file[Len(file)].hash
  IN  [index |-> IF empty THEN 0 ELSE file[Len(file)].index + 1,
       prev |-> prev, hash |-> Append(prev, id), long |-> long, torn |-> FALSE]

First(n) == IF accident = None THEN n ELSE accident

ReadTail(p) ==
  /\ tail[p] = None /\ Len(file) < MaxLines
  /\ \E long \in BOOLEAN :
       tail' = [tail EXCEPT ![p] = [entry |-> Entry(<<p, Len(file)>>, long), seen |-> file]]
  /\ accident' = IF Unreadable THEN First(Len(file)) ELSE accident
  /\ UNCHANGED file

\* The write of a whole line, behind whatever the file now ends with: a torn
\* line has no newline and swallows it.
Write(p) ==
  /\ tail[p] # None
  /\ LET glued == file # <<>> /\ file[Len(file)].torn
     IN  file' = IF glued THEN file ELSE Append(file, tail[p].entry)
  /\ tail' = [tail EXCEPT ![p] = None]
  /\ accident' = IF tail[p].seen = file THEN accident ELSE First(Len(tail[p].seen))

\* The process dies while it writes: a part of the line is in the file.
Torn(p) ==
  /\ tail[p] # None
  /\ tail' = [tail EXCEPT ![p] = None]
  /\ file' = IF file # <<>> /\ file[Len(file)].torn THEN file
             ELSE Append(file, [tail[p].entry EXCEPT !.torn = TRUE])
  /\ accident' = First(Len(file))

Restart ==
  /\ engine \in Engines
  /\ UNCHANGED vars

AppendEdit(p)  == engine = "chain-edits" /\ (ReadTail(p) \/ Write(p) \/ Torn(p))
AppendEntry(p) == engine = "chain-core" /\ (ReadTail(p) \/ Write(p) \/ Torn(p))

Next == Restart \/ \E p \in Procs : AppendEdit(p) \/ AppendEntry(p)

-----------------------------------------------------------------------------

\* verify_chain of the first n lines.
VerifyChain(n) ==
  \A i \in 1..n :
    /\ ~file[i].torn
    /\ file[i].index = i - 1
    /\ file[i].prev = IF i = 1 THEN <<>> ELSE file[i-1].hash

\* verify_chain accepts the file until the first accident, and the lines before
\* it for ever: a torn line, a tail that was too long or two appends at once
\* spoil only what comes behind them.
VerifiesUpToAccident ==
  engine \in Engines => VerifyChain(First(Len(file)))

\* No accident goes unnoticed for long: once a line follows it, verify_chain
\* refuses the file.
AccidentIsSeen ==
  engine \in Engines =>
    (accident # None /\ Len(file) > accident + 1 => ~VerifyChain(Len(file)))
=============================================================================
