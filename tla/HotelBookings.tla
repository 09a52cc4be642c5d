--------------------------- MODULE HotelBookings ---------------------------
(***************************************************************************)
(* The booking tables of the hotel adapters' mock backends.                *)
(*   expedia      ExpediaEQCClient: rooms of one night, refunds            *)
(*   hotelfriend  HotelFriendClient: rooms of several nights, returned     *)
(*   cloudbeds    CloudbedsClient: reservations and payments, no inventory *)
(*   bookingcom   BookingComClient: reservations with notifications        *)
(*   ibe          GenericPMSAdapter over MockPMSBackend                    *)
(*   apaleopms    ApaleoClient: a token refreshed before every operation   *)
(*   mews         MewsClient: reservations with invoices                   *)
(*   staynstouch  StayNTouchClient: check-in and check-out                 *)
(* Every operation that changes a table holds its lock from the first read *)
(* to the last write.  Refused calls change nothing and are not actions.   *)
(***************************************************************************)
EXTENDS Integers, FiniteSets, FiniteSetsExt

CONSTANTS
  Ids,         \* bookings
  Nights,      \* inventory keys of one room type: consecutive nights, integers
  MaxRooms,    \* bound: rooms pushed for a night, rooms of a booking
  MaxBill,     \* bound: charges or payments of a booking
  None

VARIABLES
  engine,
  left,        \* _inventory: available rooms per night
  pushed,      \* history: the last number pushed for the night
  surplus,     \* history: rooms returned since by bookings made before that push
  bookings,    \* per id: None or the state, the nights and the number of rooms
  took,        \* history: nights whose present number a booking has lowered
  bill,        \* charges of the invoice (mews), payments (cloudbeds)
  token,       \* _token is there and has not expired (apaleopms)
  room         \* status of the room (staynstouch)

vars == <<left, pushed, surplus, bookings, took, bill, token, room>>
nightVars == <<left, pushed, surplus, took>>
deskVars  == <<bill, token, room>>

Stocked == {"expedia", "hotelfriend"}
Engines == Stocked \cup {"cloudbeds", "bookingcom", "ibe", "apaleopms", "mews", "staynstouch"}

Start ==
  /\ left = [n \in Nights |-> IF engine = "hotelfriend" THEN MaxRooms ELSE 0] /\ pushed = left
  /\ surplus = [n \in Nights |-> 0] /\ took = [b \in Ids |-> {}]
  /\ bookings = [b \in Ids |-> IF engine = "staynstouch"
                                 THEN [state |-> "reserved", nights |-> {}, rooms |-> 1] ELSE None]
  /\ bill = [b \in Ids |-> 0] /\ token = FALSE /\ room = "clean"

Known(b) == bookings[b] # None
In(b, s) == Known(b) => bookings[b].state \in s
Stay(first, last) == {n \in Nights : first <= n /\ n <= last}

Enter(b, s, ns, r) ==
  /\ ~Known(b)
  /\ bookings' = [bookings EXCEPT ![b] = [state |-> s, nights |-> ns, rooms |-> r]]

Becomes(b, s) == bookings' = [bookings EXCEPT ![b].state = s]

-----------------------------------------------------------------------------
(* Inventory *)

\* push_rate_availability, push_inventory: the number is overwritten, whatever
\* has been sold before.
PushInventory(n, q) ==
  /\ engine \in Stocked
  /\ left' = [left EXCEPT ![n] = q] /\ pushed' = [pushed EXCEPT ![n] = q]
  /\ surplus' = [surplus EXCEPT ![n] = 0]
  /\ took' = [b \in Ids |-> took[b] \ {n}]
  /\ UNCHANGED <<bookings, deskVars>>

\* FAULT: only the first night is looked at.
EnoughOnFirst(ns, r) == left[Min(ns)] >= r

Enough(ns, r) == \A n \in ns : left[n] >= r

Take(b, ns, r) ==
  /\ Enough(ns, r)
  /\ left' = [n \in Nights |-> IF n \in ns THEN left[n] - r ELSE left[n]]
  /\ took' = [took EXCEPT ![b] = ns]
  /\ UNCHANGED <<pushed, surplus>>

\* ExpediaEQCClient.confirm_booking: one room of one night.
ConfirmBooking(b, n) ==
  /\ engine = "expedia"
  /\ Take(b, {n}, 1) /\ Enter(b, "confirmed", {n}, 1)
  /\ UNCHANGED deskVars

\* modify_booking may move the stay: the inventory of neither night changes.
ModifyBooking(b, n) ==
  /\ engine = "expedia" /\ Known(b) /\ In(b, {"confirmed"})
  /\ bookings' = [bookings EXCEPT ![b].nights = {n}]
  /\ UNCHANGED <<nightVars, deskVars>>

\* refund_booking gives the money back once, and the room not at all.
RefundBooking(b) ==
  /\ engine = "expedia" /\ Known(b) /\ In(b, {"confirmed"})
  /\ Becomes(b, "refunded")
  /\ UNCHANGED <<nightVars, deskVars>>

\* HotelFriendClient.create_booking: all nights are checked before any is lowered.
CreateBooking(b, ns, r) ==
  /\ engine = "hotelfriend" /\ ns # {}
  /\ Take(b, ns, r) /\ Enter(b, "confirmed", ns, r)
  /\ UNCHANGED deskVars

Cancellable(b) == In(b, {"confirmed"})

\* HotelFriendClient.cancel_booking returns the rooms, also to a night whose number
\* has been pushed anew since.
CancelBooking(b) ==
  /\ engine = "hotelfriend" /\ Known(b) /\ Cancellable(b)
  /\ LET ns == bookings[b].nights
         r  == bookings[b].rooms
     IN  /\ left' = [n \in Nights |-> IF n \in ns THEN left[n] + r ELSE left[n]]
         /\ surplus' = [n \in Nights |-> IF n \in ns \ took[b] THEN surplus[n] + r ELSE surplus[n]]
  /\ took' = [took EXCEPT ![b] = {}]
  /\ Becomes(b, "cancelled")
  /\ UNCHANGED <<pushed, deskVars>>

-----------------------------------------------------------------------------
(* Reservations without inventory *)

\* CloudbedsClient.post_reservation: the status comes from the caller.
PostReservation(b, s) ==
  /\ engine = "cloudbeds"
  /\ Enter(b, s, {}, 1)
  /\ UNCHANGED <<nightVars, deskVars>>

\* CloudbedsClient.post_payment and MewsClient.post_charge: the reservation must be
\* known, its status does not matter.
Charge(b) ==
  /\ Known(b) /\ bill[b] < MaxBill
  /\ bill' = [bill EXCEPT ![b] = @ + 1]
  /\ UNCHANGED <<nightVars, bookings, token, room>>

PostPayment(b) == engine = "cloudbeds" /\ Charge(b)
PostCharge(b)  == engine = "mews" /\ Charge(b)

\* MewsClient.create_reservation opens an invoice.  The room may be taken for these
\* nights: get_availability_block tells, and nobody asks it here.
CreateMewsReservation(b, ns) ==
  /\ engine = "mews" /\ ns # {}
  /\ Enter(b, "confirmed", ns, 1)
  /\ UNCHANGED <<nightVars, deskVars>>

\* BookingComClient.
ConfirmReservation(b) ==
  /\ engine = "bookingcom"
  /\ Enter(b, "confirmed", {}, 1)
  /\ UNCHANGED <<nightVars, deskVars>>

\* FAULT: the state is not looked at.
AnyState(b) == TRUE

NotCancelled(b) == In(b, {"confirmed", "modified"})

ModifyReservation(b) ==
  /\ engine = "bookingcom" /\ Known(b) /\ NotCancelled(b)
  /\ Becomes(b, "modified")
  /\ UNCHANGED <<nightVars, deskVars>>

CancelReservation(b) ==
  /\ engine = "bookingcom" /\ Known(b) /\ NotCancelled(b)
  /\ Becomes(b, "cancelled")
  /\ UNCHANGED <<nightVars, deskVars>>

\* MockPMSBackend: an update may set any status, also of a cancelled reservation.
CreateIbeReservation(b, s) ==
  /\ engine = "ibe"
  /\ Enter(b, s, {}, 1)
  /\ UNCHANGED <<nightVars, deskVars>>

UpdateIbeReservation(b, s) ==
  /\ engine = "ibe" /\ Known(b)
  /\ Becomes(b, s)
  /\ UNCHANGED <<nightVars, deskVars>>

CancelIbeReservation(b) ==
  /\ engine = "ibe" /\ Known(b)
  /\ Becomes(b, "cancelled")
  /\ UNCHANGED <<nightVars, deskVars>>

\* ApaleoClient: _ensure_mock_mode refreshes a missing or expired token first.
EnsureToken == engine = "apaleopms" /\ token' = TRUE

TokenExpires ==
  /\ engine = "apaleopms"
  /\ token /\ token' = FALSE
  /\ UNCHANGED <<nightVars, bookings, bill, room>>

CreateApaleoReservation(b) ==
  /\ EnsureToken
  /\ Enter(b, "confirmed", {}, 1)
  /\ UNCHANGED <<nightVars, bill, room>>

CancelApaleoReservation(b) ==
  /\ EnsureToken /\ Known(b)
  /\ Becomes(b, "cancelled")
  /\ UNCHANGED <<nightVars, bill, room>>

\* update_inventory: a number nobody lowers.
UpdateApaleoInventory(n, q) ==
  /\ EnsureToken
  /\ left' = [left EXCEPT ![n] = q]
  /\ UNCHANGED <<pushed, surplus, took, bookings, bill, room>>

-----------------------------------------------------------------------------
(* StayNTouchClient *)

MobileCheckin(b) ==
  /\ engine = "staynstouch" /\ In(b, {"reserved"})
  /\ Becomes(b, "checked_in")
  /\ UNCHANGED <<nightVars, deskVars>>

MobileCheckout(b) ==
  /\ engine = "staynstouch" /\ In(b, {"checked_in"})
  /\ Becomes(b, "checked_out")
  /\ UNCHANGED <<nightVars, deskVars>>

PushRoomStatus(s) ==
  /\ engine = "staynstouch"
  /\ room' = s
  /\ UNCHANGED <<nightVars, bookings, bill, token>>

\* get_ and list_ operations copy records under the lock.
Read == engine \in Engines /\ UNCHANGED vars

Next ==
  \/ Read
  \/ \E n \in Nights, q \in 0..MaxRooms : PushInventory(n, q) \/ UpdateApaleoInventory(n, q)
  \/ \E b \in Ids :
       \/ \E n \in Nights : ConfirmBooking(b, n) \/ ModifyBooking(b, n)
       \/ \E first, last \in Nights : \/ CreateMewsReservation(b, Stay(first, last))
                                      \/ \E r \in 1..MaxRooms : CreateBooking(b, Stay(first, last), r)
       \/ RefundBooking(b) \/ CancelBooking(b)
       \/ PostPayment(b) \/ PostCharge(b)
       \/ ConfirmReservation(b) \/ ModifyReservation(b) \/ CancelReservation(b)
       \/ \E s \in {"confirmed", "cancelled"} : \/ PostReservation(b, s) \/ CreateIbeReservation(b, s)
                                                \/ UpdateIbeReservation(b, s)
       \/ CancelIbeReservation(b) \/ CreateApaleoReservation(b) \/ CancelApaleoReservation(b)
       \/ MobileCheckin(b) \/ MobileCheckout(b)
  \/ TokenExpires
  \/ \E s \in {"clean", "dirty", "inspected", "out_of_order"} : PushRoomStatus(s)

-----------------------------------------------------------------------------
(* Properties *)

\* Rooms are neither lost nor sold twice: what is left of a night and what the
\* bookings took from its present number is that number and what older bookings have
\* returned, and no booking that finds a night sold out takes the nights before it.
RoomsAccounted ==
  engine \in Stocked => \A n \in Nights :
    /\ left[n] >= 0
    /\ left[n] + FoldSet(LAMBDA b, sum : sum + bookings[b].rooms, 0, {b \in Ids : n \in took[b]})
         = pushed[n] + surplus[n]

Final == [expedia |-> {"refunded"}, hotelfriend |-> {"cancelled"}, bookingcom |-> {"cancelled"},
          apaleopms |-> {"cancelled"}, staynstouch |-> {"checked_out"}]

\* A booking that was refunded, cancelled or checked out is never changed again, where
\* the adapter keeps to that (a generic PMS does not).
BookingEnds ==
  engine \in DOMAIN Final => \A b \in Ids :
    Known(b) /\ In(b, Final[engine]) => bookings'[b] = bookings[b]
BookingsEnd == [][BookingEnds]_<<engine, vars>>
=============================================================================
