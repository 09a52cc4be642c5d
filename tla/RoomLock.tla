------------------------------ MODULE RoomLock ------------------------------
(***************************************************************************)
(* HeyLouDistributedLock: the allocation of one room slot to sales         *)
(* channels.  A reservation expires, a booking does not; a competing call  *)
(* turns the record to "conflict" and keeps the original holder.  Every    *)
(* operation runs under one RLock and first expires the record.            *)
(* version, updated_at and the audit list, which only grow with every      *)
(* change, are left out.                                                   *)
(***************************************************************************)
EXTENDS Integers

CONSTANTS
  Channels,  \* OTA channel ids
  None,
  TTL        \* ttl_seconds

VARIABLES
  engine,    \* "room" when this component runs
  record,    \* the LockRecord: [state, holder, left]; left is None if unset
  promised   \* history: channels that were told "booked" and have not released

vars == <<record, promised>>
Engines == {"room"}

Available == [state |-> "available", holder |-> None, left |-> None]

Start == record = Available /\ promised = {}

\* FAULT: a reservation that expires exactly now is still good.
ExpireLater(r) == IF r.state = "reserved" /\ r.left < 0 THEN Available ELSE r

\* _current_record: a reservation with expires_at <= now is given up.
ExpireIfNeeded(r) == IF r.state = "reserved" /\ r.left <= 0 THEN Available ELSE r

Current == ExpireIfNeeded(record)

\* FAULT: whoever comes may take a reserved slot.
OpenToAnyone(r, c) == r.state \in {"available", "reserved"}

\* The test of reserve and of book.
OpenTo(r, c) == r.state \in {"available", "reserved"} /\ r.holder \in {None, c}

\* _conflict: the holder stays, its expiry is gone.
Conflict(r) == [r EXCEPT !.state = "conflict", !.left = None]

Reserve(c) ==
  /\ record' = IF OpenTo(Current, c)
                 THEN [state |-> "reserved", holder |-> c, left |-> TTL]
                 ELSE Conflict(Current)
  /\ UNCHANGED promised

\* A booking of the caller itself is returned as it is.
Book(c) ==
  IF OpenTo(Current, c)
    THEN /\ record' = [state |-> "booked", holder |-> c, left |-> None]
         /\ promised' = promised \cup {c}
    ELSE /\ record' = IF Current.state = "booked" /\ Current.holder = c
                        THEN Current ELSE Conflict(Current)
         /\ UNCHANGED promised

\* Refused for a booked slot (ValueError) and for anybody but the holder.
Release(c) ==
  IF Current.state \in {"available", "booked"} \/ Current.holder # c
    THEN record' = Current /\ UNCHANGED promised
    ELSE record' = Available /\ promised' = promised \ {c}

\* get, records, sweep_expired.
Look == record' = Current /\ UNCHANGED promised

Tick ==
  /\ record.state = "reserved" /\ record.left > 0
  /\ record' = [record EXCEPT !.left = @ - 1]
  /\ UNCHANGED promised

Next ==
  /\ engine = "room"
  /\ \/ \E c \in Channels : Reserve(c) \/ Book(c) \/ Release(c)
     \/ Look \/ Tick

-----------------------------------------------------------------------------
(* Properties *)

\* A slot is promised to one channel at a time, and the record goes on naming
\* that channel whatever conflicts the others cause.
NotSoldTwice == \A c \in promised : record.holder = c /\ promised = {c}

\* Expiry, a release and nothing else free a slot: a conflict does not.
FreedByHolder ==
  [][record.holder # None /\ record'.holder # record.holder =>
       \/ record.state = "reserved" /\ record.left <= 0
       \/ Release(record.holder)]_vars
=============================================================================
