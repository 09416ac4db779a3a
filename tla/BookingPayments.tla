--------------------------- MODULE BookingPayments ---------------------------
(***************************************************************************)
(* The payments of one booking: orders opened at the payment gateway, the  *)
(* Payment documents that follow them, the checkout's verify call and the  *)
(* gateway's webhooks, either of which captures a payment and moves the    *)
(* booking on, retries with a fresh order, and the refund of an advance no *)
(* store has room for.  The gateway delivers an event again until it is    *)
(* answered, in any order, and sometimes once more.                        *)
(*                                                                         *)
(* Orders are numbered as they are opened.  All amounts of an order are    *)
(* the whole order: the code never asks for a part of it back.             *)
(***************************************************************************)
EXTENDS Naturals

CONSTANTS
    Handlers,       \* requests under way at one time
    None,           \* no order, or no event
    MaxOrders,      \* bound on the orders of the booking
    HasEventId,     \* whether a delivery carries the identity of its event
    MaxFaults       \* bound on errors, crashes and surplus deliveries

ASSUME MaxOrdersAssumption == MaxOrders \in Nat \ {0}
ASSUME EventIdAssumption == HasEventId \in BOOLEAN
ASSUME MaxFaultsAssumption == MaxFaults \in Nat

Payments == 1..MaxOrders

PaymentType == {"advance", "final"}

\* authorized and partially_refunded are declared and never reached.
PaymentStatus == {"created", "captured", "failed", "refunded"}

BookingStatus == {"payment_pending", "store_assigned", "stored", "return_requested",
                  "final_payment_pending", "final_payment_captured", "delivered", "cancelled"}

Events == [kind: {"captured", "failed", "refunded"}, p: Payments]

ASSUME NoneAssumption == None \notin Nat /\ None \notin Events

Event(kind, p) == [kind |-> kind, p |-> p]

VARIABLES
    booking,    \* Booking.status, the legs of the rides left out
    doc,        \* the Payment documents
    orders,     \* how many orders the gateway opened
    charge,     \* what became of each, hidden until its number is sent to the user
    sent,       \* the events the gateway has to tell
    acked,      \* those answered with 200
    log,        \* the WebhookEvent documents
    handler,    \* the next step of each request under way
    begun,      \* history: how often a service was begun
    searched,   \* services whose driver search was queued
    asked,      \* history: how often the gateway was asked for a refund
    faults

gateway == <<orders, charge, sent, acked>>
trace   == <<begun, searched, asked>>
vars    == <<booking, doc, gateway, log, handler, trace, faults>>

------------------------------------------------------------------------------
Document ==
    [type: PaymentType \cup {"none"}, status: PaymentStatus \cup {"none"}, refunded: Nat]

NoDoc == [type |-> "none", status |-> "none", refunded |-> 0]

Created(type) == [type |-> type, status |-> "created", refunded |-> 0]

Idle == [do |-> "idle", p |-> None, e |-> None, new |-> None]

Steps == {"idle", "record", "apply", "assign", "search", "refund_read", "refund_call",
          "refund_save", "cancel", "finish", "supersede", "reopen", "bill"}

Request ==
    [do: Steps, p: Payments \cup {None}, e: Events \cup {None}, new: Payments \cup {None}]

At(h, step) == handler[h].do = step

Begin(h, step, p, e) ==
    /\ handler[h] = Idle
    /\ handler' = [handler EXCEPT ![h] = [do |-> step, p |-> p, e |-> e, new |-> None]]

GoTo(h, step) == handler' = [handler EXCEPT ![h].do = step]

End(h) == handler' = [handler EXCEPT ![h] = Idle]

\* A webhook goes on to log its event, a verify call has ended.
Proceed(h) == IF handler[h].e = None THEN End(h) ELSE GoTo(h, "finish")

\* Saving the booking raises its version: a return being billed loses.
WithoutBills(requests) == [g \in Handlers |-> IF At(g, "bill") THEN Idle ELSE requests[g]]

Fault == faults < MaxFaults /\ faults' = faults + 1

\* The gateway opens one more order.
OpenOrder == orders < MaxOrders /\ orders' = orders + 1

\* schedulePickup has answered with the first order.
Init ==
    /\ booking = "payment_pending"
    /\ doc = [p \in Payments |-> IF p = 1 THEN Created("advance") ELSE NoDoc]
    /\ orders = 1
    /\ charge = [p \in Payments |-> IF p = 1 THEN "open" ELSE "hidden"]
    /\ sent = {}
    /\ acked = {}
    /\ log = [e \in Events |-> "absent"]
    /\ handler = [h \in Handlers |-> Idle]
    /\ begun = [t \in PaymentType |-> 0]
    /\ searched = {}
    /\ asked = [p \in Payments |-> 0]
    /\ faults = 0

------------------------------------------------------------------------------
(* The user at the gateway's checkout. *)

Pay(p) ==
    /\ charge[p] = "open"
    /\ charge' = [charge EXCEPT ![p] = "paid"]
    /\ sent' = sent \cup {Event("captured", p)}
    /\ UNCHANGED <<booking, doc, orders, acked, log, handler, trace, faults>>

\* An attempt is declined; the order stays open for another one.
AttemptFails(p) ==
    /\ charge[p] = "open"
    /\ Event("failed", p) \notin sent
    /\ sent' = sent \cup {Event("failed", p)}
    /\ UNCHANGED <<booking, doc, orders, charge, acked, log, handler, trace, faults>>

------------------------------------------------------------------------------
(* razorpayWebhook. *)

Known(e) == HasEventId /\ log[e] = "PROCESSED"

\* An event logged as processed is answered at once.
Receive(h, e) ==
    /\ e \in sent
    /\ IF Known(e)
       THEN /\ handler[h] = Idle /\ UNCHANGED handler
            /\ acked' = acked \cup {e}
       ELSE /\ Begin(h, "record", e.p, e)
            /\ UNCHANGED acked
    /\ UNCHANGED <<booking, doc, orders, charge, sent, log, trace>>

UnderWay(e) == \E h \in Handlers : handler[h].e = e

Deliver(h, e) ==
    /\ e \notin acked /\ ~UnderWay(e)
    /\ Receive(h, e)
    /\ UNCHANGED faults

\* The gateway did not wait for the answer, or did not get it.
Redeliver(h, e) ==
    /\ e \in acked \/ UnderWay(e)
    /\ Receive(h, e)
    /\ Fault

Record(h) ==
    /\ At(h, "record")
    /\ log' = [log EXCEPT ![handler[h].e] = "RECEIVED"]
    /\ GoTo(h, "apply")
    /\ UNCHANGED <<booking, doc, gateway, trace, faults>>

Applies(h, kind) == At(h, "apply") /\ handler[h].e.kind = kind

\* Mutant: a webhook marks the payment and leaves the rest to the verify call.
ApplyCapturedOnly(h) ==
    /\ Applies(h, "captured")
    /\ doc' = [doc EXCEPT ![handler[h].p].status = "captured"]
    /\ GoTo(h, "finish")
    /\ UNCHANGED <<booking, gateway, log, trace, faults>>

\* Only the delivery that turns the payment captured moves the booking on.
ApplyCaptured(h) ==
    /\ Applies(h, "captured")
    /\ LET p == handler[h].p IN
        IF doc[p].status = "captured"
        THEN GoTo(h, "finish") /\ UNCHANGED doc
        ELSE /\ doc' = [doc EXCEPT ![p].status = "captured"]
             /\ GoTo(h, "assign")
    /\ UNCHANGED <<booking, gateway, log, trace, faults>>

ApplyFailed(h) ==
    /\ Applies(h, "failed")
    /\ doc' = [doc EXCEPT ![handler[h].p].status = "failed"]
    /\ GoTo(h, "cancel")
    /\ UNCHANGED <<booking, gateway, log, trace, faults>>

\* Mutant: a total equal to the amount does not count as all of it.
RefundStatusStrict(total) == IF total > 1 THEN "refunded" ELSE "partially_refunded"

\* The status at a total of refunds, in amounts of the payment.
RefundStatus(total) == IF total >= 1 THEN "refunded" ELSE "partially_refunded"

\* The amount is added to what the document has.
ApplyRefunded(h) ==
    /\ Applies(h, "refunded")
    /\ LET p == handler[h].p
           total == doc[p].refunded + 1 IN
        doc' = [doc EXCEPT ![p].status = RefundStatus(total), ![p].refunded = total]
    /\ GoTo(h, "finish")
    /\ UNCHANGED <<booking, gateway, log, trace, faults>>

\* autoCancelBooking after a failed attempt.
CancelOnFailure(h) ==
    /\ At(h, "cancel")
    /\ booking' = IF booking = "delivered" THEN booking ELSE "cancelled"
    /\ GoTo(h, "finish")
    /\ UNCHANGED <<doc, gateway, log, trace, faults>>

\* ... which reports no error of its own.
CancelFails(h) ==
    /\ At(h, "cancel")
    /\ Fault
    /\ GoTo(h, "finish")
    /\ UNCHANGED <<booking, doc, gateway, log, trace>>

\* The event is logged as processed, if the log can be written, and answered.
Finish(h) ==
    /\ At(h, "finish")
    /\ \/ log' = [log EXCEPT ![handler[h].e] = "PROCESSED"] /\ UNCHANGED faults
       \/ Fault /\ UNCHANGED log
    /\ acked' = acked \cup {handler[h].e}
    /\ End(h)
    /\ UNCHANGED <<booking, doc, orders, charge, sent, trace>>

------------------------------------------------------------------------------
(* verifyPayment, and what follows a capture. *)

\* Mutant: the signature of the callback is not checked.
SignedOrNot(p) == charge[p] # "hidden"

\* The gateway signs the callback of a payment it took.
Signed(p) == charge[p] \in {"paid", "returned"}

\* A checkout's callback, which may be sent again: a transaction that marks the
\* payment captured, whatever it was.  It moves the booking on in any case.
Verify(h, p) ==
    /\ Signed(p)
    /\ doc' = [doc EXCEPT ![p].status = "captured"]
    /\ Begin(h, "assign", p, None)
    /\ UNCHANGED <<booking, gateway, log, trace, faults>>

\* The status each service is due at, and the one it moves the booking to.
Due(t) == IF t = "advance" THEN "payment_pending" ELSE "final_payment_pending"

ServedStatus(t) == IF t = "advance" THEN "store_assigned" ELSE "final_payment_captured"

\* Mutant: the status is not looked at again in the transaction.
DueOrNot(t) == booking \in BookingStatus /\ t \in PaymentType

IsDue(t) == booking = Due(t)

AssignsFor(h, t) == At(h, "assign") /\ doc[handler[h].p].type = t

Serve(h, t) ==
    /\ booking' = ServedStatus(t)
    /\ begun' = [begun EXCEPT ![t] = @ + 1]
    /\ handler' = WithoutBills([handler EXCEPT ![h].do = "search"])
    /\ UNCHANGED <<doc, gateway, log, searched, asked, faults>>

\* assignStoreDriverToBooking: a transaction on the booking and the store.
AssignStore(h) ==
    /\ AssignsFor(h, "advance") /\ IsDue("advance")
    /\ \/ Serve(h, "advance")
       \/ /\ booking' = "cancelled"
          /\ GoTo(h, "refund_read")
          /\ UNCHANGED <<doc, gateway, log, trace, faults>>

\* assignDriverToBooking.
AssignDriver(h) ==
    /\ AssignsFor(h, "final") /\ IsDue("final")
    /\ Serve(h, "final")

AlreadyAssigned(h) ==
    /\ \E t \in PaymentType : AssignsFor(h, t) /\ ~IsDue(t)
    /\ Proceed(h)
    /\ UNCHANGED <<booking, doc, gateway, log, trace, faults>>

\* scheduleDriverSearch or scheduleReturnProcessing, after the commit.
QueueSearch(h) ==
    /\ At(h, "search")
    /\ searched' = searched \cup {doc[handler[h].p].type}
    /\ Proceed(h)
    /\ UNCHANGED <<booking, doc, gateway, log, begun, asked, faults>>

------------------------------------------------------------------------------
(* triggerAutoRefund: read, ask the gateway, save. *)

RefundRead(h) ==
    /\ At(h, "refund_read")
    /\ LET d == doc[handler[h].p] IN
        IF d.status = "captured" /\ d.refunded = 0
        THEN GoTo(h, "refund_call")
        ELSE Proceed(h)
    /\ UNCHANGED <<booking, doc, gateway, log, trace, faults>>

\* The gateway gives the money back, or answers that it has.
RefundCall(h) ==
    /\ At(h, "refund_call")
    /\ LET p == handler[h].p IN
        /\ charge' = [charge EXCEPT ![p] = "returned"]
        /\ sent' = sent \cup {Event("refunded", p)}
        /\ asked' = [asked EXCEPT ![p] = @ + 1]
    /\ GoTo(h, "refund_save")
    /\ UNCHANGED <<booking, doc, orders, acked, log, begun, searched, faults>>

RefundSave(h) ==
    /\ At(h, "refund_save")
    /\ doc' = [doc EXCEPT ![handler[h].p].status = "refunded", ![handler[h].p].refunded = 1]
    /\ Proceed(h)
    /\ UNCHANGED <<booking, gateway, log, trace, faults>>

------------------------------------------------------------------------------
(* retryPayment and requestReturn. *)

Retryable(t) == {p \in Payments : doc[p].type = t /\ doc[p].status = "created"}

\* The newest order of the service that is due, if its document is as created:
\* a recent one is handed out again, an old one superseded by a new one ...
RetryPayment(h, t) ==
    /\ IsDue(t)
    /\ \E p \in Retryable(t) :
        /\ \A q \in Retryable(t) : q <= p
        /\ \/ /\ charge[p] = "hidden"
              /\ charge' = [charge EXCEPT ![p] = "open"]
              /\ UNCHANGED <<orders, handler>>
           \/ /\ OpenOrder
              /\ handler[h] = Idle
              /\ handler' = [handler EXCEPT ![h] =
                                [do |-> "supersede", p |-> p, e |-> None, new |-> orders']]
              /\ UNCHANGED charge
    /\ UNCHANGED <<booking, doc, sent, acked, log, trace, faults>>

\* ... its document saved as failed, whatever it has become ...
Supersede(h) ==
    /\ At(h, "supersede")
    /\ doc' = [doc EXCEPT ![handler[h].p].status = "failed"]
    /\ GoTo(h, "reopen")
    /\ UNCHANGED <<booking, gateway, log, trace, faults>>

\* ... and the new one's created.
Reopen(h) ==
    /\ At(h, "reopen")
    /\ LET p == handler[h].new IN
        /\ doc' = [doc EXCEPT ![p] = Created(doc[handler[h].p].type)]
        /\ charge' = [charge EXCEPT ![p] = "open"]
    /\ End(h)
    /\ UNCHANGED <<booking, orders, sent, acked, log, trace, faults>>

\* requestReturn: an order for the price of the return, if there is one ...
RequestReturn(h) ==
    /\ booking \in {"stored", "final_payment_pending"}
    /\ \/ Begin(h, "bill", None, None) /\ UNCHANGED <<doc, orders>>
       \/ /\ OpenOrder
          /\ doc' = [doc EXCEPT ![orders'] = Created("final")]
          /\ Begin(h, "bill", orders', None)
    /\ UNCHANGED <<booking, charge, sent, acked, log, trace, faults>>

\* ... and the booking saved, if no other save came first.
Bill(h) ==
    /\ At(h, "bill")
    /\ booking' = IF handler[h].p = None THEN "return_requested" ELSE "final_payment_pending"
    /\ charge' = [p \in Payments |->
                    IF p = handler[h].p /\ charge[p] = "hidden" THEN "open" ELSE charge[p]]
    /\ handler' = WithoutBills(handler)
    /\ UNCHANGED <<doc, orders, sent, acked, log, trace, faults>>

\* A return asked for again only queues its search once more.
SearchAgain ==
    /\ booking \in {"return_requested", "final_payment_captured"}
    /\ handler' = WithoutBills(handler)
    /\ \/ searched' = searched \cup {"final"} /\ UNCHANGED faults
       \/ Fault /\ UNCHANGED searched
    /\ UNCHANGED <<booking, doc, gateway, log, begun, asked>>

------------------------------------------------------------------------------
(* What else becomes of the booking, of which BookingCore has the detail. *)

\* By its user, by the auto-cancel job, or for want of a driver.
CancelBooking ==
    /\ booking \in {"payment_pending", "store_assigned"}
    /\ booking' = "cancelled"
    /\ UNCHANGED <<doc, gateway, log, handler, trace, faults>>

\* A search finds the driver of a leg, who ends it.
RideEnds ==
    /\ \/ /\ booking = "store_assigned" /\ "advance" \in searched
          /\ booking' = "stored"
       \/ /\ booking = "return_requested" \/ (booking = "final_payment_captured" /\ "final" \in searched)
          /\ booking' = "delivered"
    /\ UNCHANGED <<doc, gateway, log, handler, trace, faults>>

\* An error is thrown, or the process dies: a webhook is not answered.
Throw(h) ==
    /\ handler[h] # Idle
    /\ Fault
    /\ End(h)
    /\ UNCHANGED <<booking, doc, gateway, log, trace>>

Continue(h) ==
    \/ Record(h) \/ ApplyCaptured(h) \/ ApplyFailed(h) \/ ApplyRefunded(h)
    \/ CancelOnFailure(h) \/ CancelFails(h) \/ Finish(h)
    \/ AssignStore(h) \/ AssignDriver(h) \/ AlreadyAssigned(h) \/ QueueSearch(h)
    \/ RefundRead(h) \/ RefundCall(h) \/ RefundSave(h)
    \/ Supersede(h) \/ Reopen(h) \/ Bill(h)

Next ==
    \/ CancelBooking \/ RideEnds \/ SearchAgain
    \/ \E p \in Payments : Pay(p) \/ AttemptFails(p)
    \/ \E h \in Handlers :
        \/ Continue(h) \/ Throw(h) \/ RequestReturn(h)
        \/ \E e \in Events : Deliver(h, e) \/ Redeliver(h, e)
        \/ \E p \in Payments : Verify(h, p)
        \/ \E t \in PaymentType : RetryPayment(h, t)

\* Awaits end, and the gateway tells of a payment until it is answered; that a
\* process has room for one more request is given only now and then here.
Fairness ==
    /\ \A h \in Handlers : WF_vars(Continue(h))
    /\ \A p \in Payments : SF_vars(\E h \in Handlers : Deliver(h, Event("captured", p)))

Spec == Init /\ [][Next]_vars
FairSpec == Spec /\ Fairness

------------------------------------------------------------------------------
(* Properties. *)

\* Every variable keeps its shape: the documents, the gateway's orders and
\* events, and the requests under way.
TypeOK ==
    /\ booking \in BookingStatus
    /\ doc \in [Payments -> Document]
    /\ orders \in 1..MaxOrders
    /\ charge \in [Payments -> {"hidden", "open", "paid", "returned"}]
    /\ sent \subseteq Events
    /\ acked \subseteq Events
    /\ log \in [Events -> {"absent", "RECEIVED", "PROCESSED"}]
    /\ handler \in [Handlers -> Request]
    /\ begun \in [PaymentType -> Nat]
    /\ searched \subseteq PaymentType
    /\ asked \in [Payments -> Nat]
    /\ faults \in 0..MaxFaults

\* A document never claims more than happened: captured and refunded are only
\* written for an order that was paid, and an amount given back only for one
\* that was, however verify calls, webhooks and retries interleave.
DocumentsAreBacked ==
    \A p \in Payments :
        /\ doc[p].status \in {"captured", "refunded"} => charge[p] \in {"paid", "returned"}
        /\ doc[p].status = "refunded" \/ doc[p].refunded > 0 => charge[p] = "returned"

\* The verify call and the webhook of every order, delivered in any order and
\* more than once, begin each service once and for money that was taken, and
\* give back at most once a payment nothing was done for.
Promise ==
    INSTANCE PaymentPromise WITH
        taken <- {<<p, doc[p].type>> : p \in {q \in Payments : charge[q] \in {"paid", "returned"}}},
        returned <- asked

PromiseKept == Promise!Spec

\* What is due is served: once an order of it is paid, its driver search is
\* queued or the booking is cancelled, as long as no request fails.
PaidIsServed ==
    \A p \in Payments, t \in PaymentType :
        charge[p] = "paid" /\ doc[p].type = t
            ~> \/ t \in searched
               \/ booking \in {"cancelled", "return_requested", "delivered"}
               \/ faults > 0

(* The inductive invariant behind PromiseKept. *)

Charged(p) == charge[p] \in {"paid", "returned"}

\* An order whose document does not exist is unknown to the user, and one the
\* gateway has not opened has no document.
OrdersOpened ==
    \A p \in Payments :
        /\ doc[p].type = "none" => charge[p] = "hidden"
        /\ p > orders => doc[p].type = "none"

\* The orders retries have opened, and will write the documents of; those that
\* are billed have theirs.
OrdersPromised ==
    /\ \A h \in Handlers : At(h, "supersede") \/ At(h, "reopen") =>
          /\ handler[h].p \in Payments /\ doc[handler[h].p].type \in PaymentType
          /\ handler[h].new \in 1..orders /\ doc[handler[h].new].type = "none"
    /\ \A h \in Handlers : At(h, "bill") /\ handler[h].p # None =>
          doc[handler[h].p].type = "final"
    /\ \A h, g \in Handlers :
          handler[h].new # None /\ handler[h].new = handler[g].new => h = g
    /\ \A h \in Handlers : handler[h].new \in (1..orders) \cup {None}

\* The gateway tells of payments it took, and what follows a capture is done
\* for one of them.
CapturesArePaid ==
    /\ \A e \in sent : /\ e.kind = "captured" => Charged(e.p)
                       /\ e.kind = "refunded" => charge[e.p] = "returned"
    /\ \A h \in Handlers :
          /\ handler[h].e # None => handler[h].e \in sent /\ handler[h].p = handler[h].e.p
          /\ handler[h].do \in {"record", "apply", "finish", "cancel"} => handler[h].e # None
          /\ handler[h].do \in {"assign", "search", "refund_read", "refund_call", "refund_save"} =>
                handler[h].p \in Payments /\ Charged(handler[h].p)
          /\ At(h, "refund_save") => charge[handler[h].p] = "returned"

Refunding(h) == handler[h].do \in {"refund_read", "refund_call", "refund_save"}

\* Nothing was begun for the booking, nor is about to be billed.
Unserved ==
    /\ begun["advance"] = 0 /\ begun["final"] = 0
    /\ \A h \in Handlers : ~At(h, "bill")

NothingReturned == \A p \in Payments : asked[p] = 0

ServiceOrder ==
    /\ booking = "payment_pending" =>
          Unserved /\ NothingReturned /\ \A h \in Handlers : ~Refunding(h)
    /\ booking \in {"store_assigned", "stored", "final_payment_pending"} =>
          begun["final"] = 0
    /\ \A h \in Handlers : At(h, "bill") => begun["final"] = 0
    /\ booking # "cancelled" => NothingReturned /\ \A h \in Handlers : ~Refunding(h)
    /\ \A h \in Handlers : At(h, "bill") => NothingReturned /\ \A g \in Handlers : ~Refunding(g)

RefundOnce ==
    /\ (~NothingReturned \/ \E h \in Handlers : Refunding(h)) => Unserved
    /\ \A h, g \in Handlers : Refunding(h) /\ Refunding(g) => h = g
    /\ \A h \in Handlers : At(h, "refund_read") \/ At(h, "refund_call") => NothingReturned

PaymentInv ==
    /\ OrdersOpened /\ OrdersPromised /\ CapturesArePaid /\ DocumentsAreBacked
    /\ ServiceOrder /\ RefundOnce

==============================================================================
