--------------------------- MODULE ApaleoAdapter ---------------------------
(***************************************************************************)
(* The Apaleo adapter of the hotel cell:                                   *)
(*   apaleo   ApaleoBookingAdapter over ApaleoMockAuth and                 *)
(*            ApaleoMockServer: token, one refresh after a 401, retries    *)
(*            after a 5xx, hotel check before an update or a delete        *)
(*   breaker  ApaleoCircuitBreaker: the wrapped call runs without its lock *)
(* Each step of a thread is one critical section of the code.  The server  *)
(* fails by its forced status codes, before it changes anything.  It does  *)
(* not look at the token, so revoked ones are not kept.                    *)
(***************************************************************************)
EXTENDS Integers, FiniteSets

CONSTANTS
  Threads,
  HotelOf,     \* the hotel a thread works for
  None,
  MaxRetries,  \* max_retries of the error handler
  MaxBookings, \* bound: bookings ever made
  Threshold,   \* failure_threshold of the breaker
  Timeout      \* reset_timeout_s, in ticks

VARIABLES
  engine,
  valid,     \* there is a _current_token that has not expired
  current,   \* threads that hold the current token
  bookings,  \* _bookings: <<number, hotel>>
  nextId,    \* _next_id
  call,      \* what a thread is doing: [op, then, id, tries, second] or None
  touched,   \* history: <<thread, hotel of a booking it has read, changed, deleted>>
  state,     \* _state of the breaker
  failures,  \* _failure_count
  openFor,   \* ticks since _opened_at
  inCall,    \* threads inside the wrapped call
  streak     \* history: failed calls since the last success or reset

adapter == <<valid, current, bookings, nextId, call, touched>>
breaker == <<state, failures, openFor, inCall, streak>>
vars    == <<adapter, breaker>>

Engines == {"apaleo", "breaker"}

Start ==
  /\ valid = FALSE /\ current = {} /\ bookings = {} /\ nextId = 1
  /\ call = [t \in Threads |-> None]
  /\ touched = {}
  /\ state = "closed" /\ failures = 0 /\ openFor = 0 /\ inCall = {} /\ streak = 0

-----------------------------------------------------------------------------
(* The adapter: every operation begins with get_token *)

Begin(t, op, then, id) ==
  /\ call[t] = None
  /\ valid' = TRUE
  /\ current' = IF valid THEN current \cup {t} ELSE {t}
  /\ call' = [call EXCEPT ![t] = [op |-> op, then |-> then, id |-> id, tries |-> 0,
                                  second |-> FALSE]]
  /\ UNCHANGED <<bookings, nextId, touched>>

Ids == 1..MaxBookings

\* FAULT: the operation starts without reading the booking.
DeleteUnread(t, id) == Begin(t, "delete", None, id)

CreateBooking(t)     == nextId <= MaxBookings /\ Begin(t, "create", None, 0)
ReadBooking(t, id)   == Begin(t, "read", None, id)
\* update_booking and delete_booking read the booking first and compare its hotel.
UpdateBooking(t, id) == Begin(t, "read", "update", id)
DeleteBooking(t, id) == Begin(t, "read", "delete", id)

\* expires_at passes, or expire_token.
Expire ==
  /\ valid
  /\ valid' = FALSE /\ current' = {}
  /\ UNCHANGED <<bookings, nextId, call, touched>>

Running(t, ops) == call[t] # None /\ (call[t] # None => call[t].op \in ops)

Return(t) == call' = [call EXCEPT ![t] = None]
Hotel(id) == CHOOSE h \in {b[2] : b \in bookings} : <<id, h>> \in bookings

\* The server answers.  A booking of another hotel raises PermissionError, a
\* missing one KeyError: the call is over.
Serve(t) ==
  /\ Running(t, {"create", "read", "update", "delete"})
  /\ LET c == call[t]
         there == \E b \in bookings : b[1] = c.id
         touch == touched' = IF there THEN touched \cup {<<t, Hotel(c.id)>>} ELSE touched
     IN
     CASE c.op = "create" ->
            /\ bookings' = bookings \cup {<<nextId, HotelOf[t]>>}
            /\ nextId' = nextId + 1
            /\ Return(t)
            /\ UNCHANGED <<valid, current, touched>>
       [] c.op = "read" ->
            /\ IF there /\ c.then # None /\ <<c.id, HotelOf[t]>> \in bookings
                 THEN /\ valid' = TRUE
                      /\ current' = IF valid THEN current \cup {t} ELSE {t}
                      /\ call' = [call EXCEPT ![t] = [op |-> c.then, then |-> None, id |-> c.id,
                                                      tries |-> 0, second |-> FALSE]]
                 ELSE Return(t) /\ UNCHANGED <<valid, current>>
            /\ UNCHANGED <<bookings, nextId, touched>>
       [] c.op = "update" ->
            /\ touch /\ Return(t)
            /\ UNCHANGED <<valid, current, bookings, nextId>>
       [] c.op = "delete" ->
            /\ touch /\ Return(t)
            /\ bookings' = {b \in bookings : b[1] # c.id}
            /\ UNCHANGED <<valid, current, nextId>>

\* attempts <= retries in retry_on_5xx.
MayRetry(t) == call[t].tries < MaxRetries

\* A 5xx: ApaleoNetworkError, retried inside the same token.
ServerError(t) ==
  /\ Running(t, {"create", "read", "update", "delete"})
  /\ IF MayRetry(t) THEN call' = [call EXCEPT ![t].tries = @ + 1] ELSE Return(t)
  /\ UNCHANGED <<valid, current, bookings, nextId, touched>>

\* A 401: the first one leads to a refresh, the second one to the caller.
Unauthorized(t) ==
  /\ Running(t, {"create", "read", "update", "delete"})
  /\ IF call[t].second THEN Return(t)
     ELSE call' = [call EXCEPT ![t] = [@ EXCEPT !.op = "refresh", !.then = <<call[t].op, call[t].then>>]]
  /\ UNCHANGED <<valid, current, bookings, nextId, touched>>

\* A 429: ApaleoRateLimitError is not retried.
RateLimited(t) ==
  /\ Running(t, {"create", "read", "update", "delete"})
  /\ Return(t)
  /\ UNCHANGED <<valid, current, bookings, nextId, touched>>

\* refresh_token: raises if another thread has replaced the token meanwhile.
Refresh(t) ==
  /\ Running(t, {"refresh"})
  /\ IF t \in current
       THEN /\ current' = {t}
            /\ call' = [call EXCEPT ![t] = [@ EXCEPT !.op = call[t].then[1], !.then = call[t].then[2],
                                                     !.tries = 0, !.second = TRUE]]
       ELSE Return(t) /\ UNCHANGED current
  /\ UNCHANGED <<valid, bookings, nextId, touched>>

Adapter ==
  /\ engine = "apaleo"
  /\ \/ \E t \in Threads : \/ CreateBooking(t) \/ Serve(t) \/ ServerError(t)
                           \/ Unauthorized(t) \/ RateLimited(t) \/ Refresh(t)
     \/ \E t \in Threads, id \in Ids : ReadBooking(t, id) \/ UpdateBooking(t, id) \/ DeleteBooking(t, id)
     \/ Expire
  /\ UNCHANGED breaker

-----------------------------------------------------------------------------
(* ApaleoCircuitBreaker *)

\* The first locked part of call: an open breaker refuses until its timeout,
\* then any number of threads may try.
Enter(t) ==
  /\ t \notin inCall
  /\ state = "open" => openFor >= Timeout
  /\ state' = IF state = "open" THEN "half_open" ELSE state
  /\ inCall' = inCall \cup {t}
  /\ UNCHANGED <<failures, openFor, streak>>

\* FAULT: the threshold is compared before the failure is counted.
TripsLate == failures > Threshold

\* failure_count >= failure_threshold, after the increment.
Trips == failures + 1 >= Threshold

\* The call has raised, maybe long after others have opened or closed it.
Fail(t) ==
  /\ t \in inCall
  /\ inCall' = inCall \ {t}
  /\ failures' = IF failures < Threshold + 1 THEN failures + 1 ELSE failures
  /\ streak' = IF streak < Threshold + 1 THEN streak + 1 ELSE streak
  /\ IF state = "half_open" \/ Trips THEN state' = "open" /\ openFor' = 0
                                     ELSE UNCHANGED <<state, openFor>>

\* A success closes the breaker, whatever its state has become.
Succeed(t) ==
  /\ t \in inCall
  /\ inCall' = inCall \ {t}
  /\ state' = "closed" /\ failures' = 0 /\ openFor' = 0 /\ streak' = 0

Reset ==
  /\ state' = "closed" /\ failures' = 0 /\ openFor' = 0 /\ streak' = 0
  /\ UNCHANGED inCall

Wait ==
  /\ openFor' = IF state = "open" /\ openFor < Timeout THEN openFor + 1 ELSE openFor
  /\ UNCHANGED <<state, failures, inCall, streak>>

Breaker ==
  /\ engine = "breaker"
  /\ (\E t \in Threads : Enter(t) \/ Fail(t) \/ Succeed(t)) \/ Reset \/ Wait
  /\ UNCHANGED adapter

Next == Adapter \/ Breaker

-----------------------------------------------------------------------------
(* Properties *)

\* An adapter changes and deletes bookings of its own hotel only, although the
\* hotel is compared in one request and the change is another one, and others
\* delete and create in between.
OwnHotelOnly == \A p \in touched : p[2] = HotelOf[p[1]]

\* Whatever the order in which concurrent calls end: once Threshold of them have
\* failed and none has succeeded since, the breaker is not closed.
OpensAtThreshold == engine = "breaker" => (streak >= Threshold => state # "closed")
=============================================================================
