---------------------- MODULE BookingPayments_proofs ----------------------
(* Proofs about BookingPayments for every number of orders, requests and     *)
(* faults: its types, and that it implements PaymentPromise.                 *)
EXTENDS BookingPayments, TLAPS

------------------------------------------------------------------------------
(* What the helpers keep of the types. *)

LEMMA IdleType == Idle \in Request
BY DEF Idle, Request, Steps

LEMMA GoToType ==
  ASSUME TypeOK, NEW h \in Handlers, NEW step \in Steps, GoTo(h, step)
  PROVE  handler' \in [Handlers -> Request]
BY DEF TypeOK, GoTo, Request

LEMMA EndType ==
  ASSUME TypeOK, NEW h \in Handlers, End(h)
  PROVE  handler' \in [Handlers -> Request]
BY IdleType DEF TypeOK, End

LEMMA ProceedType ==
  ASSUME TypeOK, NEW h \in Handlers, Proceed(h)
  PROVE  handler' \in [Handlers -> Request]
BY GoToType, EndType DEF Proceed, Steps

LEMMA BeginType ==
  ASSUME TypeOK, NEW h \in Handlers, NEW step \in Steps,
         NEW p \in Payments \cup {None}, NEW e \in Events \cup {None}, Begin(h, step, p, e)
  PROVE  handler' \in [Handlers -> Request]
BY DEF TypeOK, Begin, Request

LEMMA WithoutBillsType ==
  ASSUME NEW requests \in [Handlers -> Request]
  PROVE  WithoutBills(requests) \in [Handlers -> Request]
BY IdleType DEF WithoutBills

LEMMA ServeType ==
  ASSUME TypeOK, NEW h \in Handlers, NEW t \in PaymentType, Serve(h, t)
  PROVE  TypeOK'
<1>1. [handler EXCEPT ![h].do = "search"] \in [Handlers -> Request]
  BY DEF TypeOK, Request, Steps
<1>2. handler' \in [Handlers -> Request]
  BY <1>1, WithoutBillsType DEF Serve
<1>3. booking' \in BookingStatus
  BY DEF Serve, ServedStatus, BookingStatus
<1>4. begun' \in [PaymentType -> Nat]
  BY DEF Serve, TypeOK
<1>. QED BY <1>2, <1>3, <1>4 DEF Serve, TypeOK, gateway

LEMMA StatusType ==
  ASSUME TypeOK, NEW p, NEW s \in PaymentStatus, doc' = [doc EXCEPT ![p].status = s]
  PROVE  doc' \in [Payments -> Document]
BY DEF TypeOK, Document

LEMMA RefundedType ==
  ASSUME TypeOK, NEW p, NEW n \in Nat,
         doc' = [doc EXCEPT ![p].status = "refunded", ![p].refunded = n]
  PROVE  doc' \in [Payments -> Document]
<1>1. doc \in [Payments -> Document]
  BY DEF TypeOK
<1>2. DOMAIN doc' = Payments
  BY <1>1
<1>3. \A q \in Payments : doc'[q] \in Document
  BY <1>1 DEF Document, PaymentStatus
<1>. QED BY <1>1, <1>2, <1>3

\* What is paid has a document.
LEMMA ChargedHasType ==
  ASSUME TypeOK, OrdersOpened, NEW p \in Payments, charge[p] # "hidden"
  PROVE  doc[p].type \in PaymentType
BY DEF TypeOK, OrdersOpened, Document

LEMMA TypeStep ==
  ASSUME TypeOK, PaymentInv, [Next]_vars
  PROVE  TypeOK'
<1> USE MaxOrdersAssumption, NoneAssumption, MaxFaultsAssumption DEF TypeOK, gateway, trace
<1>1. ASSUME NEW p \in Payments, Pay(p) PROVE TypeOK'
  BY <1>1 DEF Pay, Event, Events
<1>2. ASSUME NEW p \in Payments, AttemptFails(p) PROVE TypeOK'
  BY <1>2 DEF AttemptFails, Event, Events
<1>3. ASSUME NEW h \in Handlers, NEW e \in Events, Deliver(h, e) PROVE TypeOK'
  BY <1>3, BeginType DEF Deliver, Receive, Known, UnderWay, Steps, Events
<1>4. ASSUME NEW h \in Handlers, NEW e \in Events, Redeliver(h, e) PROVE TypeOK'
  BY <1>4, BeginType DEF Redeliver, Receive, Known, UnderWay, Fault, Steps, Events
<1>5. ASSUME NEW h \in Handlers, Record(h) PROVE TypeOK'
  BY <1>5, GoToType DEF Record, Steps
<1>6. ASSUME NEW h \in Handlers, ApplyCaptured(h) PROVE TypeOK'
  BY <1>6, GoToType, StatusType DEF ApplyCaptured, Applies, Steps, PaymentStatus
<1>7. ASSUME NEW h \in Handlers, ApplyFailed(h) PROVE TypeOK'
  BY <1>7, GoToType, StatusType DEF ApplyFailed, Applies, Steps, PaymentStatus
<1>8. ASSUME NEW h \in Handlers, ApplyRefunded(h) PROVE TypeOK'
  <2>1. handler' \in [Handlers -> Request]
    BY <1>8, GoToType DEF ApplyRefunded, Steps
  <2>2. doc' \in [Payments -> Document]
    <3>. DEFINE p == handler[h].p
                total == doc[p].refunded + 1
    <3>1. CASE p \in Payments
      <4>1. total \in Nat /\ RefundStatus(total) = "refunded"
        BY <3>1 DEF RefundStatus, Document
      <4>. QED BY <1>8, <4>1, RefundedType DEF ApplyRefunded
    <3>2. CASE p \notin Payments
      BY <1>8, <3>2 DEF ApplyRefunded
    <3>. QED BY <3>1, <3>2
  <2>. QED BY <1>8, <2>1, <2>2 DEF ApplyRefunded
<1>9. ASSUME NEW h \in Handlers, CancelOnFailure(h) PROVE TypeOK'
  BY <1>9, GoToType DEF CancelOnFailure, Steps, BookingStatus
<1>10. ASSUME NEW h \in Handlers, CancelFails(h) PROVE TypeOK'
  BY <1>10, GoToType DEF CancelFails, Fault, Steps
<1>11. ASSUME NEW h \in Handlers, Finish(h) PROVE TypeOK'
  <2>1. handler' \in [Handlers -> Request]
    BY <1>11, EndType DEF Finish
  <2>2. handler[h].e \in Events
    BY <1>11 DEF Finish, At, PaymentInv, CapturesArePaid
  <2>3. log' \in [Events -> {"absent", "RECEIVED", "PROCESSED"}]
    BY <1>11 DEF Finish
  <2>4. faults' \in 0..MaxFaults
    BY <1>11 DEF Finish, Fault
  <2>5. UNCHANGED <<booking, doc, orders, charge, sent, trace>>
    BY <1>11 DEF Finish
  <2>6. acked' \subseteq Events
    BY <1>11, <2>2 DEF Finish
  <2>. QED BY <2>1, <2>3, <2>4, <2>5, <2>6
<1>12. ASSUME NEW h \in Handlers, NEW p \in Payments, Verify(h, p) PROVE TypeOK'
  BY <1>12, BeginType, StatusType DEF Verify, Signed, Steps, PaymentStatus
<1>13. ASSUME NEW h \in Handlers, AssignStore(h) PROVE TypeOK'
  <2>1. CASE Serve(h, "advance")
    BY <2>1, ServeType DEF PaymentType
  <2>2. CASE /\ booking' = "cancelled" /\ GoTo(h, "refund_read")
             /\ UNCHANGED <<doc, gateway, log, trace, faults>>
    BY <2>2, GoToType DEF Steps, BookingStatus
  <2>. QED BY <1>13, <2>1, <2>2 DEF AssignStore
<1>14. ASSUME NEW h \in Handlers, AssignDriver(h) PROVE TypeOK'
  BY <1>14, ServeType DEF AssignDriver, PaymentType
<1>15. ASSUME NEW h \in Handlers, AlreadyAssigned(h) PROVE TypeOK'
  BY <1>15, ProceedType DEF AlreadyAssigned, AssignsFor
<1>16. ASSUME NEW h \in Handlers, QueueSearch(h) PROVE TypeOK'
  <2>1. handler' \in [Handlers -> Request]
    BY <1>16, ProceedType DEF QueueSearch
  <2>2. handler[h].p \in Payments /\ Charged(handler[h].p)
    BY <1>16 DEF QueueSearch, At, PaymentInv, CapturesArePaid
  <2>3. doc[handler[h].p].type \in PaymentType
    BY <2>2, ChargedHasType DEF Charged, PaymentInv
  <2>. QED BY <1>16, <2>1, <2>3 DEF QueueSearch
<1>17. ASSUME NEW h \in Handlers, RefundRead(h) PROVE TypeOK'
  BY <1>17, GoToType, ProceedType DEF RefundRead, Steps
<1>18. ASSUME NEW h \in Handlers, RefundCall(h) PROVE TypeOK'
  <2>. DEFINE p == handler[h].p
  <2>1. handler' \in [Handlers -> Request]
    BY <1>18, GoToType DEF RefundCall, Steps
  <2>2. p \in Payments
    BY <1>18 DEF RefundCall, At, PaymentInv, CapturesArePaid
  <2>3. sent' \subseteq Events
    BY <1>18, <2>2 DEF RefundCall, Event, Events
  <2>4. asked' \in [Payments -> Nat]
    BY <1>18, <2>2 DEF RefundCall
  <2>5. charge' \in [Payments -> {"hidden", "open", "paid", "returned"}]
    BY <1>18 DEF RefundCall
  <2>. QED BY <1>18, <2>1, <2>3, <2>4, <2>5 DEF RefundCall
<1>19. ASSUME NEW h \in Handlers, RefundSave(h) PROVE TypeOK'
  BY <1>19, ProceedType, RefundedType DEF RefundSave
<1>20. ASSUME NEW h \in Handlers, NEW t \in PaymentType, RetryPayment(h, t) PROVE TypeOK'
  <2>. PICK p \in Payments :
            \/ charge' = [charge EXCEPT ![p] = "open"] /\ UNCHANGED <<orders, handler>>
            \/ /\ OpenOrder
               /\ handler' = [handler EXCEPT ![h] =
                                [do |-> "supersede", p |-> p, e |-> None, new |-> orders']]
               /\ UNCHANGED charge
    BY <1>20 DEF RetryPayment, Retryable
  <2>1. orders' \in 1..MaxOrders
    BY DEF OpenOrder
  <2>2. [do |-> "supersede", p |-> p, e |-> None, new |-> orders'] \in Request
    BY <2>1 DEF Request, Steps, Payments
  <2>4. handler' \in [Handlers -> Request]
    BY <2>2
  <2>3. charge' \in [Payments -> {"hidden", "open", "paid", "returned"}]
    OBVIOUS
  <2>. QED BY <1>20, <2>1, <2>4, <2>3 DEF RetryPayment
<1>21. ASSUME NEW h \in Handlers, Supersede(h) PROVE TypeOK'
  BY <1>21, GoToType, StatusType DEF Supersede, Steps, PaymentStatus
<1>22. ASSUME NEW h \in Handlers, Reopen(h) PROVE TypeOK'
  <2>1. handler' \in [Handlers -> Request]
    BY <1>22, EndType DEF Reopen
  <2>2. doc[handler[h].p].type \in PaymentType
    BY <1>22 DEF Reopen, PaymentInv, OrdersPromised
  <2>3. Created(doc[handler[h].p].type) \in Document
    BY <2>2 DEF Created, Document, PaymentStatus
  <2>4. doc' \in [Payments -> Document]
    BY <1>22, <2>3 DEF Reopen
  <2>5. charge' \in [Payments -> {"hidden", "open", "paid", "returned"}]
    BY <1>22 DEF Reopen
  <2>. QED BY <1>22, <2>1, <2>4, <2>5 DEF Reopen
<1>23. ASSUME NEW h \in Handlers, RequestReturn(h) PROVE TypeOK'
  <2>1. CASE Begin(h, "bill", None, None) /\ UNCHANGED <<doc, orders>>
    BY <1>23, <2>1, BeginType DEF RequestReturn, Steps
  <2>2. CASE /\ OpenOrder
             /\ doc' = [doc EXCEPT ![orders'] = Created("final")]
             /\ Begin(h, "bill", orders', None)
    <3>1. orders' \in 1..MaxOrders
      BY <2>2 DEF OpenOrder
    <3>2. Created("final") \in Document
      BY DEF Created, Document, PaymentType, PaymentStatus
    <3>3. handler' \in [Handlers -> Request]
      BY <2>2, <3>1, BeginType DEF Payments, Steps
    <3>4. doc' \in [Payments -> Document]
      BY <2>2, <3>2
    <3>. QED BY <1>23, <3>1, <3>3, <3>4 DEF RequestReturn
  <2>. QED BY <1>23, <2>1, <2>2 DEF RequestReturn
<1>24. ASSUME NEW h \in Handlers, Bill(h) PROVE TypeOK'
  BY <1>24, WithoutBillsType DEF Bill, BookingStatus
<1>25. CASE CancelBooking
  BY <1>25 DEF CancelBooking, BookingStatus
<1>26. CASE RideEnds
  BY <1>26 DEF RideEnds, BookingStatus
<1>27. CASE SearchAgain
  <2>1. handler' \in [Handlers -> Request]
    BY <1>27, WithoutBillsType DEF SearchAgain
  <2>2. searched' \subseteq PaymentType
    BY <1>27 DEF SearchAgain, PaymentType
  <2>3. faults' \in 0..MaxFaults
    BY <1>27 DEF SearchAgain, Fault
  <2>. QED BY <1>27, <2>1, <2>2, <2>3 DEF SearchAgain
<1>28. ASSUME NEW h \in Handlers, Throw(h) PROVE TypeOK'
  BY <1>28, EndType DEF Throw, Fault
<1>29. CASE UNCHANGED vars
  BY <1>29 DEF vars
<1>. QED BY <1>1, <1>2, <1>3, <1>4, <1>5, <1>6, <1>7, <1>8, <1>9, <1>10, <1>11, <1>12,
    <1>13, <1>14, <1>15, <1>16, <1>17, <1>18, <1>19, <1>20, <1>21, <1>22, <1>23, <1>24,
    <1>25, <1>26, <1>27, <1>28, <1>29 DEF Next, Continue

------------------------------------------------------------------------------
(* What a step does to the requests under way. *)

LEMMA Proceeds ==
  ASSUME TypeOK, NEW h \in Handlers, Proceed(h)
  PROVE  /\ \A g \in Handlers : g # h => handler'[g] = handler[g]
         /\ \/ handler'[h] = Idle
            \/ /\ handler'[h].do = "finish" /\ handler[h].e # None
               /\ handler'[h].p = handler[h].p /\ handler'[h].e = handler[h].e
               /\ handler'[h].new = handler[h].new
BY DEF TypeOK, Proceed, End, GoTo, Request

LEMMA GoesTo ==
  ASSUME TypeOK, NEW h \in Handlers, NEW step, GoTo(h, step)
  PROVE  /\ \A g \in Handlers : g # h => handler'[g] = handler[g]
         /\ handler'[h].do = step /\ handler'[h].p = handler[h].p
         /\ handler'[h].e = handler[h].e /\ handler'[h].new = handler[h].new
BY DEF TypeOK, GoTo, Request

LEMMA Receives ==
  ASSUME TypeOK, NEW h \in Handlers, NEW e \in Events, Receive(h, e)
  PROVE  /\ e \in sent
         /\ UNCHANGED <<booking, doc, orders, charge, sent, trace>>
         /\ \A g \in Handlers : g # h => handler'[g] = handler[g]
         /\ \/ handler'[h] = handler[h]
            \/ handler'[h] = [do |-> "record", p |-> e.p, e |-> e, new |-> None]
BY DEF TypeOK, Receive, Begin

LEMMA Serves ==
  ASSUME TypeOK, NEW h \in Handlers, NEW t \in PaymentType, At(h, "assign"), Serve(h, t)
  PROVE  /\ booking' = ServedStatus(t) /\ begun' = [begun EXCEPT ![t] = @ + 1]
         /\ UNCHANGED <<doc, orders, charge, sent, asked>>
         /\ \A g \in Handlers : g # h =>
               handler'[g] = IF At(g, "bill") THEN Idle ELSE handler[g]
         /\ handler'[h].do = "search" /\ handler'[h].p = handler[h].p
         /\ handler'[h].e = handler[h].e /\ handler'[h].new = handler[h].new
BY DEF TypeOK, Serve, WithoutBills, At, gateway, Request

------------------------------------------------------------------------------
(* Orders and their documents. *)

\* A step that opens no order, and writes no new document.
SameOrders ==
    /\ orders' = orders
    /\ \A p \in Payments : doc'[p].type = doc[p].type
    /\ \A p \in Payments : charge[p] = "hidden" => charge'[p] = "hidden"

\* ... and takes up no order to write the document of.
SamePromises ==
    \A g \in Handlers :
        /\ handler'[g].new \in {None, handler[g].new}
        /\ handler'[g].do \in {"supersede", "reopen", "bill"} =>
              /\ handler'[g].p = handler[g].p /\ handler'[g].new = handler[g].new
              /\ \/ handler[g].do = handler'[g].do
                 \/ handler[g].do = "supersede" /\ handler'[g].do = "reopen"

LEMMA SameOrdersStep ==
  ASSUME TypeOK, OrdersOpened, OrdersPromised, SameOrders, SamePromises
  PROVE  OrdersOpened' /\ OrdersPromised'
<1>1. OrdersOpened'
  BY DEF OrdersOpened, SameOrders
<1>2. \A h \in Handlers : At(h, "supersede")' \/ At(h, "reopen")' =>
        At(h, "supersede") \/ At(h, "reopen")
  BY DEF SamePromises, At
<1>3. \A h \in Handlers : handler[h].new \in Payments \cup {None}
  BY DEF TypeOK, Request
<1>4. \A h \in Handlers : At(h, "supersede")' \/ At(h, "reopen")' =>
          /\ handler[h].p \in Payments /\ doc[handler[h].p].type \in PaymentType
          /\ handler[h].new \in 1..orders /\ doc[handler[h].new].type = "none"
          /\ handler'[h].p = handler[h].p /\ handler'[h].new = handler[h].new
          /\ handler[h].new \in Payments
  BY <1>2, <1>3, NoneAssumption DEF OrdersPromised, SamePromises, At
<1>5. \A h \in Handlers : At(h, "bill")' /\ handler'[h].p # None =>
        doc'[handler'[h].p].type = "final"
  BY DEF OrdersPromised, SamePromises, SameOrders, At, TypeOK, Request
<1>6. \A h, g \in Handlers :
        handler'[h].new # None /\ handler'[h].new = handler'[g].new => h = g
  BY DEF OrdersPromised, SamePromises
<1>7. \A h \in Handlers : handler'[h].new \in (1..orders') \cup {None}
  BY DEF OrdersPromised, SamePromises, SameOrders
<1>. QED BY <1>1, <1>4, <1>5, <1>6, <1>7 DEF OrdersPromised, SameOrders, At

LEMMA OrdersStep ==
  ASSUME TypeOK, TypeOK', PaymentInv, [Next]_vars
  PROVE  OrdersOpened' /\ OrdersPromised'
<1> USE MaxOrdersAssumption, NoneAssumption DEF gateway
<1>. SUFFICES \/ SameOrders /\ SamePromises
              \/ OrdersOpened' /\ OrdersPromised'
  BY SameOrdersStep DEF PaymentInv
<1>1. ASSUME NEW p \in Payments, Pay(p)
      PROVE  SameOrders /\ SamePromises
  <2>1. SameOrders
    BY <1>1 DEF Pay, Event, SameOrders, TypeOK, Document
  <2>2. SamePromises
    BY <1>1 DEF Pay, Event, SamePromises, At, Idle, TypeOK, Request
  <2>. QED BY <2>1, <2>2
<1>2. ASSUME NEW p \in Payments, AttemptFails(p)
      PROVE  SameOrders /\ SamePromises
  <2>1. SameOrders
    BY <1>2 DEF AttemptFails, Event, SameOrders, TypeOK, Document
  <2>2. SamePromises
    BY <1>2 DEF AttemptFails, Event, SamePromises, At, Idle, TypeOK, Request
  <2>. QED BY <2>1, <2>2
<1>3. ASSUME NEW h \in Handlers, NEW e \in Events, Deliver(h, e)
      PROVE  SameOrders /\ SamePromises
  <2>1. SameOrders
    BY <1>3, Receives DEF Deliver, SameOrders, TypeOK, Document
  <2>2. SamePromises
    BY <1>3, Receives DEF Deliver, SamePromises, At, Idle, TypeOK, Request
  <2>. QED BY <2>1, <2>2
<1>4. ASSUME NEW h \in Handlers, NEW e \in Events, Redeliver(h, e)
      PROVE  SameOrders /\ SamePromises
  <2>1. SameOrders
    BY <1>4, Receives DEF Redeliver, SameOrders, TypeOK, Document
  <2>2. SamePromises
    BY <1>4, Receives DEF Redeliver, SamePromises, At, Idle, TypeOK, Request
  <2>. QED BY <2>1, <2>2
<1>5. ASSUME NEW h \in Handlers, Record(h)
      PROVE  SameOrders /\ SamePromises
  <2>1. SameOrders
    BY <1>5 DEF Record, SameOrders, TypeOK, Document
  <2>2. SamePromises
    BY <1>5, GoesTo DEF Record, SamePromises, At, Idle, TypeOK, Request
  <2>. QED BY <2>1, <2>2
<1>6. ASSUME NEW h \in Handlers, ApplyCaptured(h)
      PROVE  SameOrders /\ SamePromises
  <2>1. SameOrders
    BY <1>6 DEF ApplyCaptured, Applies, SameOrders, TypeOK, Document
  <2>2. SamePromises
    BY <1>6, GoesTo DEF ApplyCaptured, Applies, SamePromises, At, Idle, TypeOK, Request
  <2>. QED BY <2>1, <2>2
<1>7. ASSUME NEW h \in Handlers, ApplyFailed(h)
      PROVE  SameOrders /\ SamePromises
  <2>1. SameOrders
    BY <1>7 DEF ApplyFailed, Applies, SameOrders, TypeOK, Document
  <2>2. SamePromises
    BY <1>7, GoesTo DEF ApplyFailed, Applies, SamePromises, At, Idle, TypeOK, Request
  <2>. QED BY <2>1, <2>2
<1>8. ASSUME NEW h \in Handlers, ApplyRefunded(h)
      PROVE  SameOrders /\ SamePromises
  <2>1. SameOrders
    BY <1>8 DEF ApplyRefunded, Applies, SameOrders, TypeOK, Document
  <2>2. SamePromises
    BY <1>8, GoesTo DEF ApplyRefunded, Applies, SamePromises, At, Idle, TypeOK, Request
  <2>. QED BY <2>1, <2>2
<1>9. ASSUME NEW h \in Handlers, CancelOnFailure(h)
      PROVE  SameOrders /\ SamePromises
  <2>1. SameOrders
    BY <1>9 DEF CancelOnFailure, SameOrders, TypeOK, Document
  <2>2. SamePromises
    BY <1>9, GoesTo DEF CancelOnFailure, SamePromises, At, Idle, TypeOK, Request
  <2>. QED BY <2>1, <2>2
<1>10. ASSUME NEW h \in Handlers, CancelFails(h)
      PROVE  SameOrders /\ SamePromises
  <2>1. SameOrders
    BY <1>10 DEF CancelFails, SameOrders, TypeOK, Document
  <2>2. SamePromises
    BY <1>10, GoesTo DEF CancelFails, SamePromises, At, Idle, TypeOK, Request
  <2>. QED BY <2>1, <2>2
<1>11. ASSUME NEW h \in Handlers, Finish(h)
      PROVE  SameOrders /\ SamePromises
  <2>1. SameOrders
    BY <1>11 DEF Finish, End, SameOrders, TypeOK, Document
  <2>2. SamePromises
    BY <1>11 DEF Finish, End, SamePromises, At, Idle, TypeOK, Request
  <2>. QED BY <2>1, <2>2
<1>12. ASSUME NEW h \in Handlers, NEW p \in Payments, Verify(h, p)
      PROVE  SameOrders /\ SamePromises
  <2>1. SameOrders
    BY <1>12 DEF Verify, Signed, Begin, SameOrders, TypeOK, Document
  <2>2. SamePromises
    BY <1>12 DEF Verify, Signed, Begin, SamePromises, At, Idle, TypeOK, Request
  <2>. QED BY <2>1, <2>2
<1>13. ASSUME NEW h \in Handlers, AssignStore(h)
      PROVE  SameOrders /\ SamePromises
  <2>1. CASE Serve(h, "advance")
    <3>1. SameOrders
      BY <2>1 DEF Serve, SameOrders
    <3>2. At(h, "assign") /\ "advance" \in PaymentType
      BY <1>13 DEF AssignStore, AssignsFor, PaymentType
    <3>. QED BY <2>1, <3>1, <3>2, Serves DEF SamePromises, At, Idle
  <2>2. CASE GoTo(h, "refund_read") /\ UNCHANGED <<doc, gateway, log, trace, faults>>
    BY <2>2, GoesTo DEF SameOrders, SamePromises
  <2>. QED BY <1>13, <2>1, <2>2 DEF AssignStore
<1>14. ASSUME NEW h \in Handlers, AssignDriver(h)
      PROVE  SameOrders /\ SamePromises
  <2>1. SameOrders
    BY <1>14, Serves DEF AssignDriver, AssignsFor, IsDue, Due, ServedStatus,
        PaymentType, SameOrders, TypeOK, Document
  <2>2. SamePromises
    BY <1>14, Serves DEF AssignDriver, AssignsFor, IsDue, Due, ServedStatus,
        PaymentType, SamePromises, At, Idle, TypeOK, Request
  <2>. QED BY <2>1, <2>2
<1>15. ASSUME NEW h \in Handlers, AlreadyAssigned(h)
      PROVE  SameOrders /\ SamePromises
  <2>1. SameOrders
    BY <1>15 DEF AlreadyAssigned, AssignsFor, SameOrders, TypeOK, Document
  <2>2. SamePromises
    BY <1>15, Proceeds DEF AlreadyAssigned, AssignsFor, SamePromises, At, Idle, TypeOK,
        Request
  <2>. QED BY <2>1, <2>2
<1>16. ASSUME NEW h \in Handlers, QueueSearch(h)
      PROVE  SameOrders /\ SamePromises
  <2>1. SameOrders
    BY <1>16 DEF QueueSearch, SameOrders, TypeOK, Document
  <2>2. SamePromises
    BY <1>16, Proceeds DEF QueueSearch, SamePromises, At, Idle, TypeOK, Request
  <2>. QED BY <2>1, <2>2
<1>17. ASSUME NEW h \in Handlers, RefundRead(h)
      PROVE  SameOrders /\ SamePromises
  <2>1. SameOrders
    BY <1>17 DEF RefundRead, SameOrders, TypeOK, Document
  <2>2. SamePromises
    BY <1>17, Proceeds, GoesTo DEF RefundRead, SamePromises, At, Idle, TypeOK, Request
  <2>. QED BY <2>1, <2>2
<1>18. ASSUME NEW h \in Handlers, RefundCall(h)
      PROVE  SameOrders /\ SamePromises
  <2>1. handler[h].p \in Payments /\ charge[handler[h].p] # "hidden"
    BY <1>18 DEF RefundCall, At, PaymentInv, CapturesArePaid, Charged
  <2>2. SameOrders
    BY <1>18, <2>1 DEF RefundCall, SameOrders, TypeOK
  <2>3. SamePromises
    BY <1>18, GoesTo DEF RefundCall, SamePromises
  <2>. QED BY <2>2, <2>3
<1>19. ASSUME NEW h \in Handlers, RefundSave(h)
      PROVE  SameOrders /\ SamePromises
  <2>1. SameOrders
    BY <1>19 DEF RefundSave, SameOrders, TypeOK, Document
  <2>2. SamePromises
    BY <1>19, Proceeds DEF RefundSave, SamePromises, At, Idle, TypeOK, Request
  <2>. QED BY <2>1, <2>2
<1>20. ASSUME NEW h \in Handlers, NEW t \in PaymentType, RetryPayment(h, t)
      PROVE  OrdersOpened' /\ OrdersPromised'
  <2>1. PICK p \in Retryable(t) :
          \/ charge' = [charge EXCEPT ![p] = "open"] /\ UNCHANGED <<orders, handler>>
          \/ /\ OpenOrder
             /\ handler[h] = Idle
             /\ handler' = [handler EXCEPT ![h] =
                              [do |-> "supersede", p |-> p, e |-> None, new |-> orders']]
             /\ UNCHANGED charge
    BY <1>20 DEF RetryPayment
  <2>2. p \in Payments /\ doc[p].type = t /\ UNCHANGED doc
    BY <1>20, <2>1 DEF Retryable, RetryPayment
  <2>3. CASE charge' = [charge EXCEPT ![p] = "open"] /\ UNCHANGED <<orders, handler>>
    <3>1. OrdersOpened'
      BY <2>2, <2>3 DEF PaymentInv, OrdersOpened, TypeOK, PaymentType
    <3>. QED BY <2>2, <2>3, <3>1 DEF PaymentInv, OrdersPromised, At
  <2>4. CASE /\ OpenOrder
             /\ handler' = [handler EXCEPT ![h] =
                              [do |-> "supersede", p |-> p, e |-> None, new |-> orders']]
             /\ UNCHANGED charge
    <3>0. orders' = orders + 1 /\ orders' \in Payments
      BY <2>4 DEF OpenOrder, TypeOK, Payments
    <3>1. doc'[orders'].type = "none" /\ orders' = orders + 1 /\ orders' \in Payments
      BY <2>2, <3>0 DEF PaymentInv, OrdersOpened, TypeOK
    <3>2. OrdersOpened'
      BY <2>2, <2>4, <3>1 DEF PaymentInv, OrdersOpened, TypeOK, Payments
    <3>3. \A g \in Handlers : g # h => handler'[g] = handler[g]
      BY <2>4 DEF TypeOK
    <3>4. /\ handler'[h].do = "supersede" /\ handler'[h].p = p
          /\ handler'[h].new = orders'
      BY <2>4 DEF TypeOK
    <3>5. \A g \in Handlers : g # h => handler'[g].new # orders'
      BY <3>1, <3>3 DEF PaymentInv, OrdersPromised, TypeOK
    <3>6. \A g \in Handlers : handler'[g].new \in (1..orders') \cup {None}
      BY <3>1, <3>3, <3>4 DEF PaymentInv, OrdersPromised, TypeOK
    <3>. QED
      BY <2>2, <3>1, <3>2, <3>3, <3>4, <3>5, <3>6
         DEF PaymentInv, OrdersPromised, At, TypeOK
  <2>. QED BY <2>1, <2>3, <2>4
<1>21. ASSUME NEW h \in Handlers, Supersede(h)
      PROVE  SameOrders /\ SamePromises
  <2>1. SameOrders
    BY <1>21 DEF Supersede, SameOrders, TypeOK, Document
  <2>2. SamePromises
    BY <1>21, GoesTo DEF Supersede, SamePromises, At, Idle, TypeOK, Request
  <2>. QED BY <2>1, <2>2
<1>22. ASSUME NEW h \in Handlers, Reopen(h)
      PROVE  OrdersOpened' /\ OrdersPromised'
  <2>. DEFINE p == handler[h].new
  <2>1. /\ p \in 1..orders /\ p \in Payments
        /\ doc[handler[h].p].type \in PaymentType
    BY <1>22 DEF Reopen, PaymentInv, OrdersPromised, At, TypeOK, Payments
  <2>2. /\ doc'[p].type \in PaymentType
        /\ \A q \in Payments : q # p => doc'[q] = doc[q] /\ charge'[q] = charge[q]
        /\ orders' = orders
    BY <1>22, <2>1 DEF Reopen, Created, TypeOK
  <2>3. \A g \in Handlers : g # h => handler'[g] = handler[g] /\ handler[g].new # p
    BY <1>22, <2>1 DEF Reopen, End, TypeOK, PaymentInv, OrdersPromised
  <2>4. handler'[h] = Idle
    BY <1>22 DEF Reopen, End, TypeOK
  <2>5. OrdersOpened'
    BY <2>1, <2>2 DEF PaymentInv, OrdersOpened, TypeOK, PaymentType
  <2>6. \A g \in Handlers : At(g, "bill")' /\ handler'[g].p # None =>
          doc'[handler'[g].p].type = "final"
    <3>. SUFFICES ASSUME NEW g \in Handlers, At(g, "bill")', handler'[g].p # None
                  PROVE  doc'[handler'[g].p].type = "final"
      OBVIOUS
    <3>1. g # h /\ handler'[g] = handler[g]
      BY <2>3, <2>4 DEF At, Idle
    <3>2. doc[handler[g].p].type = "final" /\ handler[g].p \in Payments
      BY <3>1 DEF At, PaymentInv, OrdersPromised, TypeOK, Request
    <3>3. handler[g].p # p
      BY <1>22, <3>2 DEF Reopen, PaymentInv, OrdersPromised
    <3>. QED BY <2>2, <3>1, <3>2, <3>3
  <2>7. \A g \in Handlers : At(g, "supersede")' \/ At(g, "reopen")' =>
          /\ handler'[g].p \in Payments /\ doc'[handler'[g].p].type \in PaymentType
          /\ handler'[g].new \in 1..orders' /\ doc'[handler'[g].new].type = "none"
    <3>. SUFFICES ASSUME NEW g \in Handlers, At(g, "supersede")' \/ At(g, "reopen")'
                  PROVE  /\ handler'[g].p \in Payments
                         /\ doc'[handler'[g].p].type \in PaymentType
                         /\ handler'[g].new \in 1..orders'
                         /\ doc'[handler'[g].new].type = "none"
      OBVIOUS
    <3>1. g # h /\ handler'[g] = handler[g]
      BY <2>3, <2>4 DEF At, Idle
    <3>2. /\ handler[g].p \in Payments /\ doc[handler[g].p].type \in PaymentType
          /\ handler[g].new \in 1..orders /\ doc[handler[g].new].type = "none"
      BY <3>1 DEF At, PaymentInv, OrdersPromised
    <3>3. handler[g].new \in Payments /\ handler[g].new # p
      BY <2>3, <3>1, <3>2 DEF TypeOK, Payments
    <3>4. doc'[handler[g].p].type \in PaymentType
      BY <2>2, <3>2
    <3>. QED BY <2>2, <3>1, <3>2, <3>3, <3>4
  <2>. QED
    BY <2>2, <2>3, <2>4, <2>5, <2>6, <2>7 DEF PaymentInv, OrdersPromised, Idle
<1>23. ASSUME NEW h \in Handlers, RequestReturn(h)
      PROVE  OrdersOpened' /\ OrdersPromised'
  <2>. /\ \A g \in Handlers : g # h => handler'[g] = handler[g]
       /\ handler'[h].do = "bill" /\ handler'[h].new = None
    BY <1>23 DEF RequestReturn, Begin, TypeOK
  <2>1. CASE Begin(h, "bill", None, None) /\ UNCHANGED <<doc, orders>>
    <3>1. handler'[h].p = None
      BY <2>1 DEF Begin, TypeOK
    <3>2. OrdersOpened'
      BY <1>23, <2>1 DEF RequestReturn, PaymentInv, OrdersOpened
    <3>. QED BY <2>1, <3>1, <3>2 DEF PaymentInv, OrdersPromised, At
  <2>2. CASE /\ OpenOrder
             /\ doc' = [doc EXCEPT ![orders'] = Created("final")]
             /\ Begin(h, "bill", orders', None)
    <3>1. orders' = orders + 1 /\ orders' \in Payments /\ doc[orders'].type = "none"
      BY <2>2 DEF OpenOrder, TypeOK, PaymentInv, OrdersOpened, Payments
    <3>2. handler'[h].p = orders'
      BY <2>2 DEF Begin, TypeOK
    <3>3. /\ doc'[orders'].type = "final"
          /\ \A q \in Payments : q # orders' => doc'[q] = doc[q]
          /\ UNCHANGED charge
      BY <1>23, <2>2, <3>1 DEF RequestReturn, Created, TypeOK
    <3>4. OrdersOpened'
      BY <3>1, <3>3 DEF PaymentInv, OrdersOpened, TypeOK, Payments
    <3>5. \A g \in Handlers : At(g, "supersede")' \/ At(g, "reopen")' =>
            /\ handler'[g] = handler[g] /\ handler[g].new # orders'
            /\ handler[g].new \in Payments /\ handler[g].p \in Payments
            /\ doc[handler[g].p].type \in PaymentType /\ doc[handler[g].new].type = "none"
            /\ handler[g].new \in 1..orders' /\ handler[g].p # orders'
      <4>. SUFFICES ASSUME NEW g \in Handlers, At(g, "supersede")' \/ At(g, "reopen")'
                    PROVE  /\ handler'[g] = handler[g] /\ handler[g].new # orders'
                           /\ handler[g].new \in Payments /\ handler[g].p \in Payments
                           /\ doc[handler[g].p].type \in PaymentType
                           /\ doc[handler[g].new].type = "none"
                           /\ handler[g].new \in 1..orders' /\ handler[g].p # orders'
        OBVIOUS
      <4>1. handler'[g] = handler[g] /\ (At(g, "supersede") \/ At(g, "reopen"))
        BY DEF At
      <4>2. /\ handler[g].p \in Payments /\ doc[handler[g].p].type \in PaymentType
            /\ handler[g].new \in 1..orders /\ doc[handler[g].new].type = "none"
        BY <4>1 DEF PaymentInv, OrdersPromised
      <4>3. /\ handler[g].new \in 1..orders' /\ handler[g].new # orders'
            /\ handler[g].new \in Payments
        <5>1. orders \in Nat /\ orders' = orders + 1 /\ orders' <= MaxOrders
          BY <3>1 DEF TypeOK, Payments
        <5>. QED BY <4>2, <5>1 DEF Payments
      <4>4. handler[g].p # orders'
        BY <3>1, <4>2 DEF PaymentType
      <4>. QED BY <4>1, <4>2, <4>3, <4>4
    <3>6. \A g \in Handlers : At(g, "bill")' /\ handler'[g].p # None =>
            doc'[handler'[g].p].type = "final"
      <4>. SUFFICES ASSUME NEW g \in Handlers, At(g, "bill")', handler'[g].p # None
                    PROVE  doc'[handler'[g].p].type = "final"
        OBVIOUS
      <4>1. CASE g = h
        BY <3>2, <3>3, <4>1
      <4>2. CASE g # h
        <5>1. handler'[g] = handler[g] /\ At(g, "bill") /\ handler[g].p # None
          BY <4>2 DEF At
        <5>2. handler[g].p \in Payments /\ doc[handler[g].p].type = "final"
          BY <5>1 DEF PaymentInv, OrdersPromised, TypeOK, Request
        <5>3. handler[g].p # orders'
          BY <3>1, <5>2
        <5>. QED BY <3>3, <5>1, <5>2, <5>3
      <4>. QED BY <4>1, <4>2
    <3>7. \A g \in Handlers : handler'[g].new \in (1..orders') \cup {None}
      BY <3>1 DEF PaymentInv, OrdersPromised, TypeOK
    <3>8. \A f, g \in Handlers :
            handler'[f].new # None /\ handler'[f].new = handler'[g].new => f = g
      BY DEF PaymentInv, OrdersPromised
    <3>. QED BY <3>3, <3>4, <3>5, <3>6, <3>7, <3>8 DEF OrdersPromised, At
  <2>. QED BY <1>23, <2>1, <2>2 DEF RequestReturn
<1>24. ASSUME NEW h \in Handlers, Bill(h)
      PROVE  OrdersOpened' /\ OrdersPromised'
  <2>1. \A g \in Handlers : handler'[g] = IF At(g, "bill") THEN Idle ELSE handler[g]
    BY <1>24 DEF Bill, WithoutBills
  <2>2. UNCHANGED <<doc, orders>>
    BY <1>24 DEF Bill
  <2>3. SamePromises
    BY <2>1 DEF SamePromises, Idle
  <2>4. \A p \in Payments : charge[p] = "hidden" /\ charge'[p] # "hidden" => doc[p].type = "final"
    BY <1>24 DEF Bill, PaymentInv, OrdersPromised, At, Payments
  <2>5. OrdersOpened'
    BY <1>24, <2>2, <2>4 DEF Bill, PaymentInv, OrdersOpened
  <2>6. OrdersPromised'
    <3>1. \A g \in Handlers : At(g, "supersede")' \/ At(g, "reopen")' => handler'[g] = handler[g]
      BY <2>1 DEF At, Idle
    <3>2. \A g \in Handlers : ~At(g, "bill")'
      BY <2>1 DEF At, Idle
    <3>. QED BY <2>1, <2>2, <3>1, <3>2 DEF PaymentInv, OrdersPromised, At, Idle
  <2>. QED BY <2>5, <2>6
<1>25. CASE CancelBooking
  <2>1. SameOrders
    BY <1>25 DEF CancelBooking, SameOrders, TypeOK, Document
  <2>2. SamePromises
    BY <1>25 DEF CancelBooking, SamePromises, At, Idle, TypeOK, Request
  <2>. QED BY <2>1, <2>2
<1>26. CASE RideEnds
  <2>1. SameOrders
    BY <1>26 DEF RideEnds, SameOrders, TypeOK, Document
  <2>2. SamePromises
    BY <1>26 DEF RideEnds, SamePromises, At, Idle, TypeOK, Request
  <2>. QED BY <2>1, <2>2
<1>27. CASE SearchAgain
  <2>1. SameOrders
    BY <1>27 DEF SearchAgain, WithoutBills, SameOrders, TypeOK, Document
  <2>2. SamePromises
    BY <1>27 DEF SearchAgain, WithoutBills, SamePromises, At, Idle, TypeOK, Request
  <2>. QED BY <2>1, <2>2
<1>28. ASSUME NEW h \in Handlers, Throw(h)
      PROVE  SameOrders /\ SamePromises
  <2>1. SameOrders
    BY <1>28 DEF Throw, End, SameOrders, TypeOK, Document
  <2>2. SamePromises
    BY <1>28 DEF Throw, End, SamePromises, At, Idle, TypeOK, Request
  <2>. QED BY <2>1, <2>2
<1>29. CASE UNCHANGED vars
  BY <1>29 DEF vars, SameOrders, SamePromises
<1>. QED BY <1>1, <1>2, <1>3, <1>4, <1>5, <1>6, <1>7, <1>8, <1>9, <1>10, <1>11, <1>12,
    <1>13, <1>14, <1>15, <1>16, <1>17, <1>18, <1>19, <1>20, <1>21, <1>22, <1>23, <1>24,
    <1>25, <1>26, <1>27, <1>28, <1>29 DEF Next, Continue

LEMMA CapturesArePaidStep ==
  ASSUME TypeOK, TypeOK', PaymentInv, [Next]_vars
  PROVE  CapturesArePaid'
<1> USE MaxOrdersAssumption, NoneAssumption DEF TypeOK, gateway, trace, PaymentInv, At,
    Idle, CapturesArePaid, Charged, Event, Events
<1>1. ASSUME NEW p \in Payments, Pay(p) PROVE CapturesArePaid'
  BY <1>1 DEF Pay, Event
<1>2. ASSUME NEW p \in Payments, AttemptFails(p) PROVE CapturesArePaid'
  BY <1>2 DEF AttemptFails, Event
<1>3. ASSUME NEW h \in Handlers, NEW e \in Events, Deliver(h, e) PROVE CapturesArePaid'
  <2>1. /\ e \in sent /\ UNCHANGED <<charge, sent>>
        /\ \A g \in Handlers : g # h => handler'[g] = handler[g]
        /\ \/ handler'[h] = handler[h]
           \/ handler'[h] = [do |-> "record", p |-> e.p, e |-> e, new |-> None]
    BY <1>3, Receives DEF Deliver
  <2>2. CASE handler'[h] = handler[h]
    BY <2>1, <2>2
  <2>3. CASE handler'[h] = [do |-> "record", p |-> e.p, e |-> e, new |-> None]
    BY <2>1, <2>3
  <2>. QED BY <2>1, <2>2, <2>3
<1>4. ASSUME NEW h \in Handlers, NEW e \in Events, Redeliver(h, e) PROVE CapturesArePaid'
  <2>1. /\ e \in sent /\ UNCHANGED <<charge, sent>>
        /\ \A g \in Handlers : g # h => handler'[g] = handler[g]
        /\ \/ handler'[h] = handler[h]
           \/ handler'[h] = [do |-> "record", p |-> e.p, e |-> e, new |-> None]
    BY <1>4, Receives DEF Redeliver
  <2>2. CASE handler'[h] = handler[h]
    BY <2>1, <2>2
  <2>3. CASE handler'[h] = [do |-> "record", p |-> e.p, e |-> e, new |-> None]
    BY <2>1, <2>3
  <2>. QED BY <2>1, <2>2, <2>3
<1>5. ASSUME NEW h \in Handlers, Record(h) PROVE CapturesArePaid'
  BY <1>5, GoesTo DEF Record
<1>6. ASSUME NEW h \in Handlers, ApplyCaptured(h) PROVE CapturesArePaid'
  <2>1. CASE doc[handler[h].p].status = "captured"
    BY <1>6, <2>1, GoesTo DEF ApplyCaptured, Applies
  <2>2. CASE doc[handler[h].p].status # "captured"
    BY <1>6, <2>2, GoesTo DEF ApplyCaptured, Applies
  <2>. QED BY <1>6, <2>1, <2>2 DEF ApplyCaptured
<1>7. ASSUME NEW h \in Handlers, ApplyFailed(h) PROVE CapturesArePaid'
  BY <1>7, GoesTo DEF ApplyFailed, Applies
<1>8. ASSUME NEW h \in Handlers, ApplyRefunded(h) PROVE CapturesArePaid'
  BY <1>8, GoesTo DEF ApplyRefunded, Applies
<1>9. ASSUME NEW h \in Handlers, CancelOnFailure(h) PROVE CapturesArePaid'
  BY <1>9, GoesTo DEF CancelOnFailure
<1>10. ASSUME NEW h \in Handlers, CancelFails(h) PROVE CapturesArePaid'
  BY <1>10, GoesTo DEF CancelFails
<1>11. ASSUME NEW h \in Handlers, Finish(h) PROVE CapturesArePaid'
  BY <1>11 DEF Finish, End
<1>12. ASSUME NEW h \in Handlers, NEW p \in Payments, Verify(h, p) PROVE CapturesArePaid'
  BY <1>12 DEF Verify, Signed, Begin
<1>13. ASSUME NEW h \in Handlers, AssignStore(h) PROVE CapturesArePaid'
  <2>1. CASE Serve(h, "advance")
    BY <1>13, <2>1, GoesTo, Serves DEF AssignStore, AssignsFor, IsDue, Due,
        ServedStatus, PaymentType
  <2>2. CASE /\ booking' = "cancelled"
             /\ GoTo(h, "refund_read")
             /\ UNCHANGED <<doc, gateway, log, trace, faults>>
    BY <1>13, <2>2, GoesTo, Serves DEF AssignStore, AssignsFor, IsDue, Due,
        ServedStatus, PaymentType
  <2>. QED BY <1>13, <2>1, <2>2 DEF AssignStore
<1>14. ASSUME NEW h \in Handlers, AssignDriver(h) PROVE CapturesArePaid'
  BY <1>14, Serves DEF AssignDriver, AssignsFor, IsDue, Due, ServedStatus, PaymentType
<1>15. ASSUME NEW h \in Handlers, AlreadyAssigned(h) PROVE CapturesArePaid'
  BY <1>15, Proceeds DEF AlreadyAssigned, AssignsFor
<1>16. ASSUME NEW h \in Handlers, QueueSearch(h) PROVE CapturesArePaid'
  BY <1>16, Proceeds DEF QueueSearch
<1>17. ASSUME NEW h \in Handlers, RefundRead(h) PROVE CapturesArePaid'
  <2>1. CASE GoTo(h, "refund_call")
    BY <1>17, <2>1, Proceeds, GoesTo DEF RefundRead
  <2>2. CASE Proceed(h)
    BY <1>17, <2>2, Proceeds, GoesTo DEF RefundRead
  <2>. QED BY <1>17, <2>1, <2>2 DEF RefundRead
<1>18. ASSUME NEW h \in Handlers, RefundCall(h) PROVE CapturesArePaid'
  BY <1>18, GoesTo DEF RefundCall, Event
<1>19. ASSUME NEW h \in Handlers, RefundSave(h) PROVE CapturesArePaid'
  BY <1>19, Proceeds DEF RefundSave
<1>20. ASSUME NEW h \in Handlers, NEW t \in PaymentType, RetryPayment(h, t)
      PROVE CapturesArePaid'
  BY <1>20 DEF RetryPayment, Retryable, OpenOrder, IsDue, Due
<1>21. ASSUME NEW h \in Handlers, Supersede(h) PROVE CapturesArePaid'
  BY <1>21, GoesTo DEF Supersede
<1>22. ASSUME NEW h \in Handlers, Reopen(h) PROVE CapturesArePaid'
  <2>1. /\ \A g \in Handlers : g # h => handler'[g] = handler[g]
        /\ handler'[h] = Idle /\ UNCHANGED sent
    BY <1>22 DEF Reopen, End
  <2>2. \A p \in Payments : charge[p] \in {"paid", "returned"} => charge'[p] = charge[p]
    <3>1. doc[handler[h].new].type = "none" /\ handler[h].new \in Payments
      BY <1>22 DEF Reopen, OrdersPromised, Payments
    <3>. QED BY <1>22, <3>1 DEF Reopen, OrdersOpened
  <2>. QED BY <2>1, <2>2
<1>23. ASSUME NEW h \in Handlers, RequestReturn(h) PROVE CapturesArePaid'
  <2>1. CASE UNCHANGED <<doc, orders>> /\ Begin(h, "bill", None, None)
    BY <1>23, <2>1 DEF RequestReturn, OpenOrder, Begin, Created
  <2>2. CASE /\ OpenOrder
             /\ doc' = [doc EXCEPT ![orders'] = Created("final")]
             /\ Begin(h, "bill", orders', None)
    BY <1>23, <2>2 DEF RequestReturn, OpenOrder, Begin, Created
  <2>. QED BY <1>23, <2>1, <2>2 DEF RequestReturn
<1>24. ASSUME NEW h \in Handlers, Bill(h) PROVE CapturesArePaid'
  BY <1>24 DEF Bill, WithoutBills
<1>25. CASE CancelBooking
  BY <1>25 DEF CancelBooking
<1>26. CASE RideEnds
  BY <1>26 DEF RideEnds
<1>27. CASE SearchAgain
  BY <1>27 DEF SearchAgain, WithoutBills
<1>28. ASSUME NEW h \in Handlers, Throw(h) PROVE CapturesArePaid'
  BY <1>28 DEF Throw, End
<1>29. CASE UNCHANGED vars
  BY <1>29 DEF vars
<1>. QED BY <1>1, <1>2, <1>3, <1>4, <1>5, <1>6, <1>7, <1>8, <1>9, <1>10, <1>11, <1>12,
    <1>13, <1>14, <1>15, <1>16, <1>17, <1>18, <1>19, <1>20, <1>21, <1>22, <1>23, <1>24,
    <1>25, <1>26, <1>27, <1>28, <1>29 DEF Next, Continue

LEMMA DocumentsAreBackedStep ==
  ASSUME TypeOK, TypeOK', PaymentInv, [Next]_vars
  PROVE  DocumentsAreBacked'
<1> USE MaxOrdersAssumption, NoneAssumption DEF TypeOK, gateway, trace, PaymentInv, At,
    Idle, DocumentsAreBacked, Charged, CapturesArePaid, RefundStatus
<1>1. ASSUME NEW p \in Payments, Pay(p) PROVE DocumentsAreBacked'
  BY <1>1 DEF Pay, Event
<1>2. ASSUME NEW p \in Payments, AttemptFails(p) PROVE DocumentsAreBacked'
  BY <1>2 DEF AttemptFails, Event
<1>3. ASSUME NEW h \in Handlers, NEW e \in Events, Deliver(h, e) PROVE DocumentsAreBacked'
  BY <1>3, Receives DEF Deliver
<1>4. ASSUME NEW h \in Handlers, NEW e \in Events, Redeliver(h, e) PROVE DocumentsAreBacked'
  BY <1>4, Receives DEF Redeliver
<1>5. ASSUME NEW h \in Handlers, Record(h) PROVE DocumentsAreBacked'
  BY <1>5, GoesTo DEF Record
<1>6. ASSUME NEW h \in Handlers, ApplyCaptured(h) PROVE DocumentsAreBacked'
  <2>1. handler[h].p \in Payments /\ charge[handler[h].p] \in {"paid", "returned"}
    <3>1. handler[h].e \in sent /\ handler[h].e.kind = "captured" /\ handler[h].p = handler[h].e.p
      BY <1>6 DEF ApplyCaptured, Applies
    <3>. QED BY <3>1 DEF Events
  <2>2. UNCHANGED charge
    BY <1>6 DEF ApplyCaptured
  <2>3. \A p \in Payments : doc'[p] = doc[p] \/
          (p = handler[h].p /\ doc'[p].status = "captured" /\ doc'[p].refunded = doc[p].refunded)
    BY <1>6 DEF ApplyCaptured, Document
  <2>. QED BY <2>1, <2>2, <2>3
<1>7. ASSUME NEW h \in Handlers, ApplyFailed(h) PROVE DocumentsAreBacked'
  BY <1>7, GoesTo DEF ApplyFailed, Applies
<1>8. ASSUME NEW h \in Handlers, ApplyRefunded(h) PROVE DocumentsAreBacked'
  BY <1>8, GoesTo DEF ApplyRefunded, Applies
<1>9. ASSUME NEW h \in Handlers, CancelOnFailure(h) PROVE DocumentsAreBacked'
  BY <1>9, GoesTo DEF CancelOnFailure
<1>10. ASSUME NEW h \in Handlers, CancelFails(h) PROVE DocumentsAreBacked'
  BY <1>10, GoesTo DEF CancelFails
<1>11. ASSUME NEW h \in Handlers, Finish(h) PROVE DocumentsAreBacked'
  BY <1>11 DEF Finish, End
<1>12. ASSUME NEW h \in Handlers, NEW p \in Payments, Verify(h, p) PROVE DocumentsAreBacked'
  BY <1>12 DEF Verify, Signed, Begin
<1>13. ASSUME NEW h \in Handlers, AssignStore(h) PROVE DocumentsAreBacked'
  <2>1. CASE Serve(h, "advance")
    BY <1>13, <2>1, GoesTo, Serves DEF AssignStore, AssignsFor, IsDue, Due,
        ServedStatus, PaymentType
  <2>2. CASE /\ booking' = "cancelled"
             /\ GoTo(h, "refund_read")
             /\ UNCHANGED <<doc, gateway, log, trace, faults>>
    BY <1>13, <2>2, GoesTo, Serves DEF AssignStore, AssignsFor, IsDue, Due,
        ServedStatus, PaymentType
  <2>. QED BY <1>13, <2>1, <2>2 DEF AssignStore
<1>14. ASSUME NEW h \in Handlers, AssignDriver(h) PROVE DocumentsAreBacked'
  BY <1>14, Serves DEF AssignDriver, AssignsFor, IsDue, Due, ServedStatus, PaymentType
<1>15. ASSUME NEW h \in Handlers, AlreadyAssigned(h) PROVE DocumentsAreBacked'
  BY <1>15, Proceeds DEF AlreadyAssigned, AssignsFor
<1>16. ASSUME NEW h \in Handlers, QueueSearch(h) PROVE DocumentsAreBacked'
  BY <1>16, Proceeds DEF QueueSearch
<1>17. ASSUME NEW h \in Handlers, RefundRead(h) PROVE DocumentsAreBacked'
  <2>1. CASE GoTo(h, "refund_call")
    BY <1>17, <2>1, Proceeds, GoesTo DEF RefundRead
  <2>2. CASE Proceed(h)
    BY <1>17, <2>2, Proceeds, GoesTo DEF RefundRead
  <2>. QED BY <1>17, <2>1, <2>2 DEF RefundRead
<1>18. ASSUME NEW h \in Handlers, RefundCall(h) PROVE DocumentsAreBacked'
  BY <1>18, GoesTo DEF RefundCall, Event
<1>19. ASSUME NEW h \in Handlers, RefundSave(h) PROVE DocumentsAreBacked'
  BY <1>19, Proceeds DEF RefundSave
<1>20. ASSUME NEW h \in Handlers, NEW t \in PaymentType, RetryPayment(h, t)
      PROVE DocumentsAreBacked'
  BY <1>20 DEF RetryPayment, Retryable, OpenOrder, IsDue, Due
<1>21. ASSUME NEW h \in Handlers, Supersede(h) PROVE DocumentsAreBacked'
  BY <1>21, GoesTo DEF Supersede
<1>22. ASSUME NEW h \in Handlers, Reopen(h) PROVE DocumentsAreBacked'
  BY <1>22 DEF Reopen, End, Created
<1>23. ASSUME NEW h \in Handlers, RequestReturn(h) PROVE DocumentsAreBacked'
  <2>1. CASE UNCHANGED <<doc, orders>> /\ Begin(h, "bill", None, None)
    BY <1>23, <2>1 DEF RequestReturn, OpenOrder, Begin, Created
  <2>2. CASE /\ OpenOrder
             /\ doc' = [doc EXCEPT ![orders'] = Created("final")]
             /\ Begin(h, "bill", orders', None)
    BY <1>23, <2>2 DEF RequestReturn, OpenOrder, Begin, Created
  <2>. QED BY <1>23, <2>1, <2>2 DEF RequestReturn
<1>24. ASSUME NEW h \in Handlers, Bill(h) PROVE DocumentsAreBacked'
  BY <1>24 DEF Bill, WithoutBills
<1>25. CASE CancelBooking
  BY <1>25 DEF CancelBooking
<1>26. CASE RideEnds
  BY <1>26 DEF RideEnds
<1>27. CASE SearchAgain
  BY <1>27 DEF SearchAgain, WithoutBills
<1>28. ASSUME NEW h \in Handlers, Throw(h) PROVE DocumentsAreBacked'
  BY <1>28 DEF Throw, End
<1>29. CASE UNCHANGED vars
  BY <1>29 DEF vars
<1>. QED BY <1>1, <1>2, <1>3, <1>4, <1>5, <1>6, <1>7, <1>8, <1>9, <1>10, <1>11, <1>12,
    <1>13, <1>14, <1>15, <1>16, <1>17, <1>18, <1>19, <1>20, <1>21, <1>22, <1>23, <1>24,
    <1>25, <1>26, <1>27, <1>28, <1>29 DEF Next, Continue

LEMMA ServiceOrderStep ==
  ASSUME TypeOK, TypeOK', PaymentInv, [Next]_vars
  PROVE  ServiceOrder'
<1> USE MaxOrdersAssumption, NoneAssumption DEF TypeOK, gateway, trace, PaymentInv, At,
    Idle, ServiceOrder, Unserved, NothingReturned, Refunding
<1>1. ASSUME NEW p \in Payments, Pay(p) PROVE ServiceOrder'
  BY <1>1 DEF Pay, Event
<1>2. ASSUME NEW p \in Payments, AttemptFails(p) PROVE ServiceOrder'
  BY <1>2 DEF AttemptFails, Event
<1>3. ASSUME NEW h \in Handlers, NEW e \in Events, Deliver(h, e) PROVE ServiceOrder'
  BY <1>3, Receives DEF Deliver
<1>4. ASSUME NEW h \in Handlers, NEW e \in Events, Redeliver(h, e) PROVE ServiceOrder'
  BY <1>4, Receives DEF Redeliver
<1>5. ASSUME NEW h \in Handlers, Record(h) PROVE ServiceOrder'
  BY <1>5, GoesTo DEF Record
<1>6. ASSUME NEW h \in Handlers, ApplyCaptured(h) PROVE ServiceOrder'
  <2>1. CASE doc[handler[h].p].status = "captured"
    BY <1>6, <2>1, GoesTo DEF ApplyCaptured, Applies
  <2>2. CASE doc[handler[h].p].status # "captured"
    BY <1>6, <2>2, GoesTo DEF ApplyCaptured, Applies
  <2>. QED BY <1>6, <2>1, <2>2 DEF ApplyCaptured
<1>7. ASSUME NEW h \in Handlers, ApplyFailed(h) PROVE ServiceOrder'
  BY <1>7, GoesTo DEF ApplyFailed, Applies
<1>8. ASSUME NEW h \in Handlers, ApplyRefunded(h) PROVE ServiceOrder'
  BY <1>8, GoesTo DEF ApplyRefunded, Applies
<1>9. ASSUME NEW h \in Handlers, CancelOnFailure(h) PROVE ServiceOrder'
  BY <1>9, GoesTo DEF CancelOnFailure
<1>10. ASSUME NEW h \in Handlers, CancelFails(h) PROVE ServiceOrder'
  BY <1>10, GoesTo DEF CancelFails
<1>11. ASSUME NEW h \in Handlers, Finish(h) PROVE ServiceOrder'
  BY <1>11 DEF Finish, End
<1>12. ASSUME NEW h \in Handlers, NEW p \in Payments, Verify(h, p) PROVE ServiceOrder'
  BY <1>12 DEF Verify, Signed, Begin
<1>13. ASSUME NEW h \in Handlers, AssignStore(h) PROVE ServiceOrder'
  <2>1. CASE Serve(h, "advance")
    BY <1>13, <2>1, GoesTo, Serves DEF AssignStore, AssignsFor, IsDue, Due,
        ServedStatus, PaymentType
  <2>2. CASE /\ booking' = "cancelled"
             /\ GoTo(h, "refund_read")
             /\ UNCHANGED <<doc, gateway, log, trace, faults>>
    BY <1>13, <2>2, GoesTo, Serves DEF AssignStore, AssignsFor, IsDue, Due,
        ServedStatus, PaymentType
  <2>. QED BY <1>13, <2>1, <2>2 DEF AssignStore
<1>14. ASSUME NEW h \in Handlers, AssignDriver(h) PROVE ServiceOrder'
  BY <1>14, Serves DEF AssignDriver, AssignsFor, IsDue, Due, ServedStatus, PaymentType
<1>15. ASSUME NEW h \in Handlers, AlreadyAssigned(h) PROVE ServiceOrder'
  BY <1>15, Proceeds DEF AlreadyAssigned, AssignsFor
<1>16. ASSUME NEW h \in Handlers, QueueSearch(h) PROVE ServiceOrder'
  BY <1>16, Proceeds DEF QueueSearch
<1>17. ASSUME NEW h \in Handlers, RefundRead(h) PROVE ServiceOrder'
  <2>1. CASE GoTo(h, "refund_call")
    BY <1>17, <2>1, Proceeds, GoesTo DEF RefundRead
  <2>2. CASE Proceed(h)
    BY <1>17, <2>2, Proceeds, GoesTo DEF RefundRead
  <2>. QED BY <1>17, <2>1, <2>2 DEF RefundRead
<1>18. ASSUME NEW h \in Handlers, RefundCall(h) PROVE ServiceOrder'
  BY <1>18, GoesTo DEF RefundCall, Event
<1>19. ASSUME NEW h \in Handlers, RefundSave(h) PROVE ServiceOrder'
  BY <1>19, Proceeds DEF RefundSave
<1>20. ASSUME NEW h \in Handlers, NEW t \in PaymentType, RetryPayment(h, t)
      PROVE ServiceOrder'
  BY <1>20 DEF RetryPayment, Retryable, OpenOrder, IsDue, Due
<1>21. ASSUME NEW h \in Handlers, Supersede(h) PROVE ServiceOrder'
  BY <1>21, GoesTo DEF Supersede
<1>22. ASSUME NEW h \in Handlers, Reopen(h) PROVE ServiceOrder'
  BY <1>22 DEF Reopen, End, Created
<1>23. ASSUME NEW h \in Handlers, RequestReturn(h) PROVE ServiceOrder'
  <2>1. CASE UNCHANGED <<doc, orders>> /\ Begin(h, "bill", None, None)
    BY <1>23, <2>1 DEF RequestReturn, OpenOrder, Begin, Created
  <2>2. CASE /\ OpenOrder
             /\ doc' = [doc EXCEPT ![orders'] = Created("final")]
             /\ Begin(h, "bill", orders', None)
    BY <1>23, <2>2 DEF RequestReturn, OpenOrder, Begin, Created
  <2>. QED BY <1>23, <2>1, <2>2 DEF RequestReturn
<1>24. ASSUME NEW h \in Handlers, Bill(h) PROVE ServiceOrder'
  BY <1>24 DEF Bill, WithoutBills
<1>25. CASE CancelBooking
  BY <1>25 DEF CancelBooking
<1>26. CASE RideEnds
  BY <1>26 DEF RideEnds
<1>27. CASE SearchAgain
  BY <1>27 DEF SearchAgain, WithoutBills
<1>28. ASSUME NEW h \in Handlers, Throw(h) PROVE ServiceOrder'
  BY <1>28 DEF Throw, End
<1>29. CASE UNCHANGED vars
  BY <1>29 DEF vars
<1>. QED BY <1>1, <1>2, <1>3, <1>4, <1>5, <1>6, <1>7, <1>8, <1>9, <1>10, <1>11, <1>12,
    <1>13, <1>14, <1>15, <1>16, <1>17, <1>18, <1>19, <1>20, <1>21, <1>22, <1>23, <1>24,
    <1>25, <1>26, <1>27, <1>28, <1>29 DEF Next, Continue

LEMMA RefundOnceStep ==
  ASSUME TypeOK, TypeOK', PaymentInv, [Next]_vars
  PROVE  RefundOnce'
<1> USE MaxOrdersAssumption, NoneAssumption DEF TypeOK, gateway, trace, PaymentInv, At,
    Idle, RefundOnce, ServiceOrder, Unserved, NothingReturned, Refunding
<1>1. ASSUME NEW p \in Payments, Pay(p) PROVE RefundOnce'
  BY <1>1 DEF Pay, Event
<1>2. ASSUME NEW p \in Payments, AttemptFails(p) PROVE RefundOnce'
  BY <1>2 DEF AttemptFails, Event
<1>3. ASSUME NEW h \in Handlers, NEW e \in Events, Deliver(h, e) PROVE RefundOnce'
  BY <1>3, Receives DEF Deliver
<1>4. ASSUME NEW h \in Handlers, NEW e \in Events, Redeliver(h, e) PROVE RefundOnce'
  BY <1>4, Receives DEF Redeliver
<1>5. ASSUME NEW h \in Handlers, Record(h) PROVE RefundOnce'
  BY <1>5, GoesTo DEF Record
<1>6. ASSUME NEW h \in Handlers, ApplyCaptured(h) PROVE RefundOnce'
  <2>1. CASE doc[handler[h].p].status = "captured"
    BY <1>6, <2>1, GoesTo DEF ApplyCaptured, Applies
  <2>2. CASE doc[handler[h].p].status # "captured"
    BY <1>6, <2>2, GoesTo DEF ApplyCaptured, Applies
  <2>. QED BY <1>6, <2>1, <2>2 DEF ApplyCaptured
<1>7. ASSUME NEW h \in Handlers, ApplyFailed(h) PROVE RefundOnce'
  BY <1>7, GoesTo DEF ApplyFailed, Applies
<1>8. ASSUME NEW h \in Handlers, ApplyRefunded(h) PROVE RefundOnce'
  BY <1>8, GoesTo DEF ApplyRefunded, Applies
<1>9. ASSUME NEW h \in Handlers, CancelOnFailure(h) PROVE RefundOnce'
  BY <1>9, GoesTo DEF CancelOnFailure
<1>10. ASSUME NEW h \in Handlers, CancelFails(h) PROVE RefundOnce'
  BY <1>10, GoesTo DEF CancelFails
<1>11. ASSUME NEW h \in Handlers, Finish(h) PROVE RefundOnce'
  BY <1>11 DEF Finish, End
<1>12. ASSUME NEW h \in Handlers, NEW p \in Payments, Verify(h, p) PROVE RefundOnce'
  BY <1>12 DEF Verify, Signed, Begin
<1>13. ASSUME NEW h \in Handlers, AssignStore(h) PROVE RefundOnce'
  <2>1. CASE Serve(h, "advance")
    BY <1>13, <2>1, GoesTo, Serves DEF AssignStore, AssignsFor, IsDue, Due,
        ServedStatus, PaymentType
  <2>2. CASE /\ booking' = "cancelled"
             /\ GoTo(h, "refund_read")
             /\ UNCHANGED <<doc, gateway, log, trace, faults>>
    BY <1>13, <2>2, GoesTo, Serves DEF AssignStore, AssignsFor, IsDue, Due,
        ServedStatus, PaymentType
  <2>. QED BY <1>13, <2>1, <2>2 DEF AssignStore
<1>14. ASSUME NEW h \in Handlers, AssignDriver(h) PROVE RefundOnce'
  BY <1>14, Serves DEF AssignDriver, AssignsFor, IsDue, Due, ServedStatus, PaymentType
<1>15. ASSUME NEW h \in Handlers, AlreadyAssigned(h) PROVE RefundOnce'
  BY <1>15, Proceeds DEF AlreadyAssigned, AssignsFor
<1>16. ASSUME NEW h \in Handlers, QueueSearch(h) PROVE RefundOnce'
  BY <1>16, Proceeds DEF QueueSearch
<1>17. ASSUME NEW h \in Handlers, RefundRead(h) PROVE RefundOnce'
  <2>1. CASE GoTo(h, "refund_call")
    BY <1>17, <2>1, Proceeds, GoesTo DEF RefundRead
  <2>2. CASE Proceed(h)
    BY <1>17, <2>2, Proceeds, GoesTo DEF RefundRead
  <2>. QED BY <1>17, <2>1, <2>2 DEF RefundRead
<1>18. ASSUME NEW h \in Handlers, RefundCall(h) PROVE RefundOnce'
  BY <1>18, GoesTo DEF RefundCall, Event
<1>19. ASSUME NEW h \in Handlers, RefundSave(h) PROVE RefundOnce'
  BY <1>19, Proceeds DEF RefundSave
<1>20. ASSUME NEW h \in Handlers, NEW t \in PaymentType, RetryPayment(h, t)
      PROVE RefundOnce'
  BY <1>20 DEF RetryPayment, Retryable, OpenOrder, IsDue, Due
<1>21. ASSUME NEW h \in Handlers, Supersede(h) PROVE RefundOnce'
  BY <1>21, GoesTo DEF Supersede
<1>22. ASSUME NEW h \in Handlers, Reopen(h) PROVE RefundOnce'
  BY <1>22 DEF Reopen, End, Created
<1>23. ASSUME NEW h \in Handlers, RequestReturn(h) PROVE RefundOnce'
  <2>1. CASE UNCHANGED <<doc, orders>> /\ Begin(h, "bill", None, None)
    BY <1>23, <2>1 DEF RequestReturn, OpenOrder, Begin, Created
  <2>2. CASE /\ OpenOrder
             /\ doc' = [doc EXCEPT ![orders'] = Created("final")]
             /\ Begin(h, "bill", orders', None)
    BY <1>23, <2>2 DEF RequestReturn, OpenOrder, Begin, Created
  <2>. QED BY <1>23, <2>1, <2>2 DEF RequestReturn
<1>24. ASSUME NEW h \in Handlers, Bill(h) PROVE RefundOnce'
  BY <1>24 DEF Bill, WithoutBills
<1>25. CASE CancelBooking
  BY <1>25 DEF CancelBooking
<1>26. CASE RideEnds
  BY <1>26 DEF RideEnds
<1>27. CASE SearchAgain
  BY <1>27 DEF SearchAgain, WithoutBills
<1>28. ASSUME NEW h \in Handlers, Throw(h) PROVE RefundOnce'
  BY <1>28 DEF Throw, End
<1>29. CASE UNCHANGED vars
  BY <1>29 DEF vars
<1>. QED BY <1>1, <1>2, <1>3, <1>4, <1>5, <1>6, <1>7, <1>8, <1>9, <1>10, <1>11, <1>12,
    <1>13, <1>14, <1>15, <1>16, <1>17, <1>18, <1>19, <1>20, <1>21, <1>22, <1>23, <1>24,
    <1>25, <1>26, <1>27, <1>28, <1>29 DEF Next, Continue

------------------------------------------------------------------------------
(* The invariant. *)

LEMMA TypeInit == Init => TypeOK
BY MaxOrdersAssumption, MaxFaultsAssumption, IdleType, Z3
   DEF Init, TypeOK, BookingStatus, Document, PaymentType, PaymentStatus, Created, NoDoc,
       Payments, Events

LEMMA InvInit == Init => PaymentInv
<1>. SUFFICES ASSUME Init PROVE PaymentInv
  OBVIOUS
<1>. USE NoneAssumption, MaxOrdersAssumption DEF Init, At, Idle
<1>1. OrdersOpened
  BY DEF OrdersOpened, Created, NoDoc, Payments
<1>2. OrdersPromised
  BY DEF OrdersPromised
<1>3. CapturesArePaid
  BY DEF CapturesArePaid
<1>4. DocumentsAreBacked
  BY DEF DocumentsAreBacked, Created, NoDoc
<1>5. ServiceOrder
  BY DEF ServiceOrder, Unserved, NothingReturned, Refunding, PaymentType
<1>6. RefundOnce
  BY DEF RefundOnce, Unserved, NothingReturned, Refunding, PaymentType
<1>. QED BY <1>1, <1>2, <1>3, <1>4, <1>5, <1>6 DEF PaymentInv

LEMMA InvStep == TypeOK /\ PaymentInv /\ [Next]_vars => (TypeOK /\ PaymentInv)'
<1>. SUFFICES ASSUME TypeOK, PaymentInv, [Next]_vars PROVE (TypeOK /\ PaymentInv)'
  OBVIOUS
<1>1. TypeOK'
  BY TypeStep
<1>2. OrdersOpened' /\ OrdersPromised'
  BY <1>1, OrdersStep
<1>3. CapturesArePaid'
  BY <1>1, CapturesArePaidStep
<1>4. DocumentsAreBacked'
  BY <1>1, DocumentsAreBackedStep
<1>5. ServiceOrder'
  BY <1>1, ServiceOrderStep
<1>6. RefundOnce'
  BY <1>1, RefundOnceStep
<1>. QED BY <1>1, <1>2, <1>3, <1>4, <1>5, <1>6 DEF PaymentInv

\* The inductive invariant, types and PaymentInv together: what is known of
\* orders not yet open, of captures under way, and of the order in which
\* services and the refund can come.
THEOREM PaymentInvariant == Spec => [](TypeOK /\ PaymentInv)
BY TypeInit, InvInit, InvStep, PTL DEF Spec

\* Every variable keeps its type, for any number of orders, requests and faults.
THEOREM TypeCorrect == Spec => []TypeOK
BY PaymentInvariant, PTL

\* DocumentsAreBacked for any number of orders, requests and faults: a
\* document is captured or refunded only for an order that was paid.
THEOREM Backed == Spec => []DocumentsAreBacked
<1>1. PaymentInv => DocumentsAreBacked
  BY DEF PaymentInv
<1>. QED BY <1>1, PaymentInvariant, PTL

------------------------------------------------------------------------------
(* BookingPayments implements PaymentPromise. *)

Taken == {<<p, doc[p].type>> : p \in {q \in Payments : charge[q] \in {"paid", "returned"}}}

\* A step that takes no payment.
KeepsTaken ==
    \A p \in Payments :
        /\ charge'[p] \in {"paid", "returned"} <=> charge[p] \in {"paid", "returned"}
        /\ charge[p] \in {"paid", "returned"} => doc'[p].type = doc[p].type

\* ... and neither begins a service nor gives anything back.
Silent == KeepsTaken /\ UNCHANGED <<begun, asked>>

LEMMA TakenKept == ASSUME KeepsTaken PROVE Taken' = Taken
BY DEF Taken, KeepsTaken

LEMMA TakenIs ==
  ASSUME NEW p \in Payments, Charged(p) PROVE <<p, doc[p].type>> \in Taken
BY DEF Taken, Charged

LEMMA PayTakes ==
  ASSUME TypeOK, PaymentInv, NEW p \in Payments, NEW t, doc[p].type = t, Pay(p)
  PROVE  Promise!Take(p, t)
<1>1. charge[p] = "open" /\ UNCHANGED <<doc, begun, asked>>
  BY DEF Pay, trace
<1>2. \A q \in Payments : charge'[q] = IF q = p THEN "paid" ELSE charge[q]
  BY DEF Pay, TypeOK
<1>3. \A x \in Taken : x[1] # p
  BY <1>1 DEF Taken
<1>4. Taken' = Taken \cup {<<p, doc[p].type>>}
  BY <1>1, <1>2 DEF Taken
<1>. QED BY <1>1, <1>3, <1>4 DEF Promise!Take, Taken

LEMMA ServeBegins ==
  ASSUME TypeOK, PaymentInv, NEW h \in Handlers, NEW t \in PaymentType,
         AssignsFor(h, t), IsDue(t), Serve(h, t)
  PROVE  Promise!BeginService(handler[h].p, t)
<1>1. handler[h].p \in Payments /\ Charged(handler[h].p) /\ doc[handler[h].p].type = t
  BY DEF AssignsFor, At, PaymentInv, CapturesArePaid
<1>2. begun[t] = 0 /\ NothingReturned
  BY DEF IsDue, Due, PaymentInv, ServiceOrder, Unserved, PaymentType
<1>3. UNCHANGED <<charge, doc, asked>> /\ begun' = [begun EXCEPT ![t] = 1]
  BY <1>2 DEF Serve, gateway
<1>4. <<handler[h].p, t>> \in Taken
  BY <1>1, TakenIs
<1>5. Taken' = Taken
  BY <1>3 DEF Taken
<1>. QED BY <1>2, <1>3, <1>4, <1>5 DEF Promise!BeginService, Taken, NothingReturned

LEMMA RefundGivesBack ==
  ASSUME TypeOK, PaymentInv, NEW h \in Handlers, RefundCall(h)
  PROVE  Promise!GiveBack(handler[h].p)
<1>. DEFINE p == handler[h].p
<1>1. p \in Payments /\ Charged(p)
  BY DEF RefundCall, At, PaymentInv, CapturesArePaid
<1>2. asked[p] = 0 /\ begun["advance"] = 0 /\ begun["final"] = 0
  BY <1>1 DEF RefundCall, At, PaymentInv, RefundOnce, NothingReturned, Unserved, Refunding
<1>3. UNCHANGED <<doc, begun>> /\ asked' = [asked EXCEPT ![p] = 1]
      /\ charge' = [charge EXCEPT ![p] = "returned"]
  BY <1>2 DEF RefundCall
<1>4. KeepsTaken
  BY <1>1, <1>3 DEF KeepsTaken, Charged, TypeOK
<1>5. doc[p].type \in PaymentType /\ <<p, doc[p].type>> \in Taken
  BY <1>1, ChargedHasType, TakenIs DEF Charged, PaymentInv
<1>6. \E t \in Promise!Services : <<p, t>> \in Taken
  BY <1>5 DEF Promise!Services, PaymentType
<1>. QED BY <1>2, <1>3, <1>4, <1>6, TakenKept DEF Promise!GiveBack, Promise!Services, Taken

LEMMA PromiseStep ==
  ASSUME TypeOK, PaymentInv, [Next]_vars
  PROVE  [Promise!Next]_Promise!promise
<1>. USE DEF gateway, trace
<1>. SUFFICES \/ Silent
              \/ \E p \in Payments : \/ \E t \in PaymentType : \/ Promise!Take(p, t)
                                                             \/ Promise!BeginService(p, t)
                                    \/ Promise!GiveBack(p)
  BY TakenKept DEF Silent, Taken, Promise!Next, Promise!Services, Promise!promise,
      PaymentType
<1>1. ASSUME NEW p \in Payments, Pay(p)
      PROVE  \E t \in PaymentType : Promise!Take(p, t)
  <2>1. PICK t \in PaymentType : doc[p].type = t
    BY <1>1, ChargedHasType DEF Pay, PaymentInv
  <2>2. Promise!Take(p, t)
    BY <1>1, <2>1, PayTakes
  <2>. QED BY <2>2
<1>2. ASSUME NEW p \in Payments, AttemptFails(p)
      PROVE  Silent
  BY <1>2 DEF AttemptFails, Silent, KeepsTaken, TypeOK, Document
<1>3. ASSUME NEW h \in Handlers, NEW e \in Events, Deliver(h, e)
      PROVE  Silent
  BY <1>3 DEF Deliver, Receive, Silent, KeepsTaken
<1>4. ASSUME NEW h \in Handlers, NEW e \in Events, Redeliver(h, e)
      PROVE  Silent
  BY <1>4 DEF Redeliver, Receive, Silent, KeepsTaken
<1>5. ASSUME NEW h \in Handlers, Record(h)
      PROVE  Silent
  BY <1>5 DEF Record, Silent, KeepsTaken, TypeOK, Document
<1>6. ASSUME NEW h \in Handlers, ApplyCaptured(h)
      PROVE  Silent
  BY <1>6 DEF ApplyCaptured, Silent, KeepsTaken, TypeOK, Document
<1>7. ASSUME NEW h \in Handlers, ApplyFailed(h)
      PROVE  Silent
  BY <1>7 DEF ApplyFailed, Silent, KeepsTaken, TypeOK, Document
<1>8. ASSUME NEW h \in Handlers, ApplyRefunded(h)
      PROVE  Silent
  BY <1>8 DEF ApplyRefunded, Silent, KeepsTaken, TypeOK, Document
<1>9. ASSUME NEW h \in Handlers, CancelOnFailure(h)
      PROVE  Silent
  BY <1>9 DEF CancelOnFailure, Silent, KeepsTaken, TypeOK, Document
<1>10. ASSUME NEW h \in Handlers, CancelFails(h)
      PROVE  Silent
  BY <1>10 DEF CancelFails, Silent, KeepsTaken, TypeOK, Document
<1>11. ASSUME NEW h \in Handlers, Finish(h)
      PROVE  Silent
  BY <1>11 DEF Finish, Silent, KeepsTaken, TypeOK, Document
<1>12. ASSUME NEW h \in Handlers, NEW p \in Payments, Verify(h, p)
      PROVE  Silent
  BY <1>12 DEF Verify, Silent, KeepsTaken, TypeOK, Document
<1>13. ASSUME NEW h \in Handlers, AssignStore(h)
      PROVE  Silent \/ \E p \in Payments : Promise!BeginService(p, "advance")
  <2>1. handler[h].p \in Payments /\ "advance" \in PaymentType
    BY <1>13 DEF AssignStore, AssignsFor, At, PaymentInv, CapturesArePaid, PaymentType
  <2>2. CASE Serve(h, "advance")
    BY <1>13, <2>1, <2>2, ServeBegins DEF AssignStore
  <2>3. CASE UNCHANGED <<doc, gateway, log, trace, faults>>
    BY <2>3 DEF Silent, KeepsTaken
  <2>. QED BY <1>13, <2>2, <2>3 DEF AssignStore
<1>14. ASSUME NEW h \in Handlers, AssignDriver(h)
      PROVE  \E p \in Payments : Promise!BeginService(p, "final")
  <2>1. handler[h].p \in Payments /\ "final" \in PaymentType
    BY <1>14 DEF AssignDriver, AssignsFor, At, PaymentInv, CapturesArePaid, PaymentType
  <2>. QED BY <1>14, <2>1, ServeBegins DEF AssignDriver
<1>15. ASSUME NEW h \in Handlers, AlreadyAssigned(h)
      PROVE  Silent
  BY <1>15 DEF AlreadyAssigned, Silent, KeepsTaken, TypeOK, Document
<1>16. ASSUME NEW h \in Handlers, QueueSearch(h)
      PROVE  Silent
  BY <1>16 DEF QueueSearch, Silent, KeepsTaken, TypeOK, Document
<1>17. ASSUME NEW h \in Handlers, RefundRead(h)
      PROVE  Silent
  BY <1>17 DEF RefundRead, Silent, KeepsTaken, TypeOK, Document
<1>18. ASSUME NEW h \in Handlers, RefundCall(h)
      PROVE  \E p \in Payments : Promise!GiveBack(p)
  BY <1>18, RefundGivesBack DEF RefundCall, At, PaymentInv, CapturesArePaid
<1>19. ASSUME NEW h \in Handlers, RefundSave(h)
      PROVE  Silent
  BY <1>19 DEF RefundSave, Silent, KeepsTaken, TypeOK, Document
<1>20. ASSUME NEW h \in Handlers, NEW t \in PaymentType, RetryPayment(h, t)
      PROVE  Silent
  BY <1>20 DEF RetryPayment, Silent, KeepsTaken, TypeOK
<1>21. ASSUME NEW h \in Handlers, Supersede(h)
      PROVE  Silent
  BY <1>21 DEF Supersede, Silent, KeepsTaken, TypeOK, Document
<1>22. ASSUME NEW h \in Handlers, Reopen(h)
      PROVE  Silent
  <2>1. charge[handler[h].new] = "hidden" /\ handler[h].new \in Payments
    <3>1. handler[h].new \in 1..orders /\ doc[handler[h].new].type = "none"
      BY <1>22 DEF Reopen, PaymentInv, OrdersPromised
    <3>2. handler[h].new \in Payments
      BY <3>1, MaxOrdersAssumption DEF TypeOK, Payments
    <3>. QED BY <3>1, <3>2 DEF PaymentInv, OrdersOpened
  <2>. QED BY <1>22, <2>1 DEF Reopen, Silent, KeepsTaken, TypeOK
<1>23. ASSUME NEW h \in Handlers, RequestReturn(h)
      PROVE  Silent
  <2>1. CASE UNCHANGED doc
    BY <1>23, <2>1 DEF RequestReturn, Silent, KeepsTaken
  <2>2. CASE OpenOrder /\ doc' = [doc EXCEPT ![orders'] = Created("final")]
    <3>1. orders' \in Payments /\ orders' > orders
      BY <2>2, MaxOrdersAssumption DEF OpenOrder, TypeOK, Payments
    <3>2. charge[orders'] = "hidden"
      BY <3>1 DEF PaymentInv, OrdersOpened
    <3>. QED BY <1>23, <2>2, <3>2 DEF RequestReturn, Silent, KeepsTaken, TypeOK
  <2>. QED BY <1>23, <2>1, <2>2 DEF RequestReturn
<1>24. ASSUME NEW h \in Handlers, Bill(h)
      PROVE  Silent
  BY <1>24 DEF Bill, Silent, KeepsTaken, TypeOK, Document
<1>25. CASE CancelBooking
  BY <1>25 DEF CancelBooking, Silent, KeepsTaken, TypeOK, Document
<1>26. CASE RideEnds
  BY <1>26 DEF RideEnds, Silent, KeepsTaken, TypeOK, Document
<1>27. CASE SearchAgain
  BY <1>27 DEF SearchAgain, Silent, KeepsTaken, TypeOK, Document
<1>28. ASSUME NEW h \in Handlers, Throw(h)
      PROVE  Silent
  BY <1>28 DEF Throw, Silent, KeepsTaken, TypeOK, Document
<1>29. CASE UNCHANGED vars
  BY <1>29 DEF vars, Silent, KeepsTaken
<1>30. "advance" \in PaymentType /\ "final" \in PaymentType
  BY DEF PaymentType
<1>. QED
  BY <1>1, <1>2, <1>3, <1>4, <1>5, <1>6, <1>7, <1>8, <1>9, <1>10, <1>11, <1>12, <1>13,
      <1>14, <1>15, <1>16, <1>17, <1>18, <1>19, <1>20, <1>21, <1>22, <1>23, <1>24,
      <1>25, <1>26, <1>27, <1>28, <1>29, <1>30 DEF Next, Continue

\* PromiseKept for any number of orders, requests and faults: however verify
\* calls, webhooks, retries and the refund interleave, a service is begun once
\* and for money taken for it, and a payment is given back at most once and
\* only when nothing was begun.
THEOREM PromiseIsKept == Spec => PromiseKept
<1>1. Init => Promise!Init
  BY DEF Init, Promise!Init, Promise!Services, PaymentType
<1>2. TypeOK /\ PaymentInv /\ [Next]_vars => [Promise!Next]_Promise!promise
  BY PromiseStep
<1>. QED BY <1>1, <1>2, TypeCorrect, PaymentInvariant, PTL DEF Spec, PromiseKept,
    Promise!Spec

==============================================================================
