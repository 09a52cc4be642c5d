--------------------------- MODULE GuestServices ---------------------------
(***************************************************************************)
(* The adapters around a stay: payment, contacts, messages, channels.      *)
(*   stripe      StripeClient: intents, charges, refunds, idempotency keys *)
(*   hubspot     HubSpotClient: contacts by email, their deals             *)
(*   twilio      TwilioClient: messages under a limit per minute           *)
(*   sendgrid    SendGridClient: mail, lists, suppressions                 *)
(*   siteminder  SiteMinderClient: rates and inventory of channels         *)
(*   google      GBPClient: replies to reviews, updates                    *)
(*   rategain    RateGainRMSClient: accepted rates                         *)
(* All operations hold the client's lock, with two exceptions: a Twilio    *)
(* message reads the clock before the limiter's lock, and SiteMinder takes *)
(* its lock once per channel of a distribution.                            *)
(***************************************************************************)
EXTENDS Integers, FiniteSets

CONSTANTS
  Ids,         \* intents, contacts, messages, lists, reviews, decisions
  Keys,        \* idempotency keys
  Emails,      \* addresses
  Channels,    \* channels of SiteMinder
  Unknown,     \* those of them that are not registered
  Threads,     \* callers of Twilio and SiteMinder
  Amount,      \* amount of an intent
  MaxRefunds,  \* bound: refunded amount of a charge, deals of a contact
  Limit,       \* rate_limit_per_minute
  Minute,      \* 60 s, in ticks
  MaxTime,     \* bound: the clock
  None

VARIABLES
  engine,
  intents,     \* _payment_intents: status of each
  charges,     \* _charges: number of charges of each intent
  refunds,     \* _refunds: sum of the refunds of each charge
  keys,        \* _idempotency: operation and record of each key
  effects,     \* history: operations carried out under a key
  contacts,    \* _contacts: email of each
  deals,       \* _deals, _activities: number of each contact's
  clock,       \* time.time(), in ticks
  read,        \* per thread: the clock it has read for its message
  stamps,      \* _request_times: one per message that passed, as a function of its id
  sentAt,      \* history: when each of these messages passed
  status,      \* _messages: status of each message
  lists,       \* _lists: name and contacts
  suppressed,  \* _suppressions
  table,       \* _channels, _reviews, _rate_decisions: the last value of each key
  left         \* per thread: its value and the channels its distribution has still to reach

payVars  == <<intents, charges, refunds, keys, effects>>
crmVars  == <<contacts, deals>>
sendVars == <<clock, read, stamps, sentAt, status>>
mailVars == <<lists, suppressed>>
ariVars  == <<table, left>>
vars     == <<payVars, crmVars, sendVars, mailVars, ariVars>>

Engines == {"stripe", "hubspot", "twilio", "sendgrid", "siteminder", "google", "rategain"}

Start ==
  /\ intents = [i \in Ids |-> None] /\ charges = [i \in Ids |-> 0] /\ refunds = [i \in Ids |-> 0]
  /\ keys = [k \in Keys |-> None] /\ effects = [k \in Keys |-> 0]
  /\ contacts = [i \in Ids |-> None] /\ deals = [i \in Ids |-> 0]
  /\ clock = 0 /\ read = [t \in Threads |-> None]
  /\ stamps = [i \in Ids |-> None] /\ sentAt = [i \in Ids |-> None] /\ status = [i \in Ids |-> None]
  /\ lists = [i \in Ids |-> None] /\ suppressed = {}
  /\ table = [c \in Channels |-> None] /\ left = [t \in Threads |-> None]

-----------------------------------------------------------------------------
(* StripeClient *)

\* FAULT: only captures remember their key.
RemembersCaptures(k, op, i) == [op |-> op, of |-> i, kept |-> op = "capture"]

Remembered(k, op, i) == [op |-> op, of |-> i, kept |-> TRUE]

\* _get_idempotent, _set_idempotent: an operation under a key that is known returns
\* what is kept there, be it another operation's.
UnderKey(k, op, i) ==
  IF k = None THEN UNCHANGED <<keys, effects>>
  ELSE /\ keys[k] = None
       /\ keys' = [keys EXCEPT ![k] = IF Remembered(k, op, i).kept THEN <<op, i>> ELSE None]
       /\ effects' = [effects EXCEPT ![k] = @ + 1]

CreatePaymentIntent(i, k) ==
  /\ engine = "stripe" /\ intents[i] = None
  /\ UnderKey(k, "intent", i)
  /\ intents' = [intents EXCEPT ![i] = "requires_capture"]
  /\ UNCHANGED <<charges, refunds, crmVars, sendVars, mailVars, ariVars>>

\* FAULT: an intent can be captured again.
EverCreated(i) == intents[i] # None /\ charges[i] < 2

Capturable(i) == intents[i] # None /\ intents[i] = "requires_capture"

CapturePayment(i, k) ==
  /\ engine = "stripe" /\ Capturable(i)
  /\ UnderKey(k, "capture", i)
  /\ intents' = [intents EXCEPT ![i] = "succeeded"] /\ charges' = [charges EXCEPT ![i] = @ + 1]
  /\ UNCHANGED <<refunds, crmVars, sendVars, mailVars, ariVars>>

\* refund_payment compares one refund with the charge, not the sum of all.
RefundPayment(i, a, k) ==
  /\ engine = "stripe" /\ charges[i] > 0 /\ a <= Amount /\ refunds[i] + a <= MaxRefunds
  /\ UnderKey(k, "refund", i)
  /\ refunds' = [refunds EXCEPT ![i] = @ + a]
  /\ UNCHANGED <<intents, charges, crmVars, sendVars, mailVars, ariVars>>

\* A retry returns the kept record.  webhook_handler and list_charges only read.
Answer == engine = "stripe" /\ UNCHANGED vars

-----------------------------------------------------------------------------
(* HubSpotClient *)

\* FAULT: an update looks only at the contact itself.
OwnOnly(c, e) == contacts[c] = e

Taken(c, e) == \E d \in Ids \ {c} : contacts[d] # None /\ contacts[d] = e

CreateContact(c, e) ==
  /\ engine = "hubspot" /\ contacts[c] = None /\ ~Taken(c, e)
  /\ contacts' = [contacts EXCEPT ![c] = e]
  /\ UNCHANGED <<payVars, deals, sendVars, mailVars, ariVars>>

UpdateContact(c, e) ==
  /\ engine = "hubspot" /\ contacts[c] # None /\ ~Taken(c, e)
  /\ contacts' = [contacts EXCEPT ![c] = e]
  /\ UNCHANGED <<payVars, deals, sendVars, mailVars, ariVars>>

\* create_deal, log_activity.
AddRecord(c) ==
  /\ engine = "hubspot" /\ contacts[c] # None /\ deals[c] < MaxRefunds
  /\ deals' = [deals EXCEPT ![c] = @ + 1]
  /\ UNCHANGED <<payVars, contacts, sendVars, mailVars, ariVars>>

CreateDeal(c)  == AddRecord(c)
LogActivity(c) == AddRecord(c)
ListDeals      == engine = "hubspot" /\ UNCHANGED vars

-----------------------------------------------------------------------------
(* TwilioClient *)

\* _check_rate_limit: the clock is read first.
ReadClock(t) ==
  /\ engine = "twilio" /\ read[t] = None
  /\ read' = [read EXCEPT ![t] = clock]
  /\ UNCHANGED <<payVars, crmVars, clock, stamps, sentAt, status, mailVars, ariVars>>

\* FAULT: the whole minute has to lie after the stamp.
LateWindow(now) == {i \in Ids : stamps[i] # None /\ stamps[i] > now - Minute + 1}

Window(now) == {i \in Ids : stamps[i] # None /\ stamps[i] >= now - Minute}

\* ... then, under the lock, old stamps are dropped and the rest are counted.  What is
\* dropped stays dropped for a thread with an older reading.
CheckRateLimit(t) ==
  /\ engine = "twilio" /\ read[t] # None
  /\ LET recent == Window(read[t])
         kept   == [i \in Ids |-> IF i \in recent THEN stamps[i] ELSE None]
     IN  IF Cardinality(recent) >= Limit
           THEN stamps' = kept /\ UNCHANGED <<sentAt, status>>
           ELSE \E i \in Ids :
                  /\ status[i] = None /\ \A j \in Ids : status[j] = None => i <= j
                  /\ stamps' = [kept EXCEPT ![i] = read[t]]
                  /\ sentAt' = [sentAt EXCEPT ![i] = <<read[t], clock>>]
                  /\ status' = [status EXCEPT ![i] = "queued"]
  /\ read' = [read EXCEPT ![t] = None]
  /\ UNCHANGED <<payVars, crmVars, clock, mailVars, ariVars>>

\* status_callback takes any status in any order: a delivered message may fail.
StatusCallback(i, s) ==
  /\ engine = "twilio" /\ status[i] # None
  /\ status' = [status EXCEPT ![i] = s]
  /\ UNCHANGED <<payVars, crmVars, clock, read, stamps, sentAt, mailVars, ariVars>>

Tick ==
  /\ engine = "twilio" /\ clock < MaxTime
  /\ clock' = clock + 1
  /\ UNCHANGED <<payVars, crmVars, read, stamps, sentAt, status, mailVars, ariVars>>

MessageHistory == engine = "twilio" /\ UNCHANGED vars

-----------------------------------------------------------------------------
(* SendGridClient *)

\* send_email, send_template: suppressions are not looked at.
SendEmail(e) == engine = "sendgrid" /\ e \in Emails /\ UNCHANGED vars

\* manage_lists: an update sets the name before it looks at the contacts, so that a
\* refused call may have renamed the list.
CreateList(i, e) ==
  /\ engine = "sendgrid" /\ lists[i] = None
  /\ lists' = [lists EXCEPT ![i] = [renamed |-> FALSE, contacts |-> {e}]]
  /\ UNCHANGED <<payVars, crmVars, sendVars, suppressed, ariVars>>

UpdateList(i, e, valid) ==
  /\ engine = "sendgrid" /\ lists[i] # None
  /\ lists' = [lists EXCEPT ![i] = [renamed |-> TRUE, contacts |-> IF valid THEN {e} ELSE @.contacts]]
  /\ UNCHANGED <<payVars, crmVars, sendVars, suppressed, ariVars>>

DeleteList(i) ==
  /\ engine = "sendgrid" /\ lists[i] # None
  /\ lists' = [lists EXCEPT ![i] = None]
  /\ UNCHANGED <<payVars, crmVars, sendVars, suppressed, ariVars>>

SuppressionHandling(e, on) ==
  /\ engine = "sendgrid"
  /\ suppressed' = IF on THEN suppressed \cup {e} ELSE suppressed \ {e}
  /\ UNCHANGED <<payVars, crmVars, sendVars, lists, ariVars>>

-----------------------------------------------------------------------------
(* SiteMinderClient, GBPClient, RateGainRMSClient *)

\* distribute_ari: the channels of the call, one after the other.
DistributeAri(t, v) ==
  /\ engine = "siteminder" /\ left[t] = None
  /\ left' = [left EXCEPT ![t] = [value |-> v, failed |-> FALSE, channels |-> Channels]]
  /\ UNCHANGED <<payVars, crmVars, sendVars, mailVars, table>>

\* push_to_channel: rate and inventory under one lock.  A channel that is not known
\* fails and the others are pushed all the same.
PushToChannel(t, c) ==
  /\ engine = "siteminder" /\ left[t] # None /\ c \in left[t].channels
  /\ table' = IF c \in Unknown THEN table ELSE [table EXCEPT ![c] = left[t].value]
  /\ left' = [left EXCEPT ![t].channels = @ \ {c}, ![t].failed = @ \/ c \in Unknown]
  /\ UNCHANGED <<payVars, crmVars, sendVars, mailVars>>

Distributed(t) ==
  /\ engine = "siteminder" /\ left[t] # None /\ left[t].channels = {}
  /\ left' = [left EXCEPT ![t] = None]
  /\ UNCHANGED <<payVars, crmVars, sendVars, mailVars, table>>

\* receive_booking_from_channel, reply_to_review, push_rate_decision: the last
\* value of a key replaces the one before.
Overwrite(c, v) ==
  /\ table' = [table EXCEPT ![c] = v]
  /\ UNCHANGED <<payVars, crmVars, sendVars, mailVars, left>>

ReceiveBooking(c, v)   == engine = "siteminder" /\ c \notin Unknown /\ Overwrite(c, v)
ReplyToReview(c, v)    == engine = "google" /\ c \notin Unknown /\ Overwrite(c, v)
PushRateDecision(c, v) == engine = "rategain" /\ Overwrite(c, v)

\* post_update numbers the updates; the recommendations and forecasts only compute.
PostUpdate == engine = "google" /\ UNCHANGED vars
Recommend  == engine = "rategain" /\ UNCHANGED vars

Next ==
  \/ \E i \in Ids, k \in Keys \cup {None} :
       \/ CreatePaymentIntent(i, k) \/ CapturePayment(i, k)
       \/ \E a \in 1..Amount : RefundPayment(i, a, k)
  \/ Answer \/ ListDeals \/ MessageHistory \/ Tick \/ PostUpdate \/ Recommend
  \/ \E i \in Ids :
       \/ \E e \in Emails : \/ CreateContact(i, e) \/ UpdateContact(i, e) \/ CreateList(i, e)
                            \/ \E valid \in BOOLEAN : UpdateList(i, e, valid)
       \/ CreateDeal(i) \/ LogActivity(i) \/ DeleteList(i)
       \/ \E s \in {"delivered", "failed"} : StatusCallback(i, s)
  \/ \E e \in Emails : SendEmail(e) \/ \E on \in BOOLEAN : SuppressionHandling(e, on)
  \/ \E t \in Threads : \/ ReadClock(t) \/ CheckRateLimit(t) \/ Distributed(t)
                        \/ \E v \in Threads : DistributeAri(t, v)
                        \/ \E c \in Channels : PushToChannel(t, c)
  \/ \E c \in Channels, v \in Threads : \/ ReceiveBooking(c, v) \/ ReplyToReview(c, v)
                                        \/ PushRateDecision(c, v)

-----------------------------------------------------------------------------
(* Properties *)

\* No intent is charged twice, and under one idempotency key no more than one
\* operation is carried out, whichever operations the retries are of.
ChargedOnce ==
  engine = "stripe" =>
    /\ \A i \in Ids : charges[i] <= 1 /\ (charges[i] = 1 <=> intents[i] # None /\ intents[i] = "succeeded")
    /\ \A k \in Keys : effects[k] <= 1

\* Two contacts never share an email, by whatever updates they came to it.
EmailUnique ==
  engine = "hubspot" => \A c, d \in Ids : c # d /\ contacts[c] # None => contacts[c] # contacts[d]

\* No more than the limit passes in any minute, of the messages that read the clock in
\* it: a thread that stalls between clock and lock passes beside the limit.
RateKept ==
  engine = "twilio" => \A from \in 0..clock :
    Cardinality({i \in Ids : sentAt[i] # None /\ sentAt[i][1] >= from /\ sentAt[i][2] <= from + Minute})
      <= Limit
=============================================================================
