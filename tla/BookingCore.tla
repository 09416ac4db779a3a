---------------------------- MODULE BookingCore ----------------------------
(***************************************************************************)
(* The life of a luggage booking: the user books and pays, a store slot is *)
(* reserved, a driver collects the luggage and brings it to the store, the *)
(* user asks for it back, a second driver returns it.  The handlers run in *)
(* many Node processes over one MongoDB and one Redis; a handler that      *)
(* reads a document, awaits, and then writes it is several actions here.   *)
(*                                                                         *)
(* One atomic MongoDB operation or transaction is one action.  What a      *)
(* handler still has to do after it is kept in handler[h], as the name of  *)
(* its next step and the values it read.  Bookings are of distinct users.  *)
(***************************************************************************)
EXTENDS BookingTerms, Naturals, FiniteSets

CONSTANTS
    Bookings,
    Capacity,       \* max_booking_capacity of each store
    LateCancel,     \* TRUE: a failed payment attempt, or a driver search job
                    \* out of retries, is reported after the booking moved on
    MaxCrash        \* bound on process crashes

ASSUME NoneIsNobody == None \notin Drivers \cup Stores \cup Bookings
ASSUME CapacityAssumption == Capacity \in [Stores -> Nat]
ASSUME SwitchAssumption == LateCancel \in BOOLEAN
ASSUME MaxCrashAssumption == MaxCrash \in Nat

VARIABLES
    status,         \* Booking.status, "none" before the booking exists
    storeOf,        \* Booking.storeId
    pickupDriver,   \* Booking.pickup.assignment.driverId
    deliveryDriver, \* Booking.delivery.assignment.driverId
    nulled,         \* bookings whose delivery.assignment is the value null
    codes,          \* the one-time codes set in the booking's assignments
    count,          \* Store.current_booking_count
    onTrip,         \* Driver.is_on_trip and its copy in Redis
    offer,          \* the Redis offer: the driver it is made to, who is locked
    armed,          \* bookings with an auto-cancel job in the queue
    handler,        \* the next step of each request or job under way
    stale,          \* history: an unguarded write landed on the booking in a
                    \* status, or with a driver, its handler had not read
    crossed,        \* history: bookings a driver was offered, given or taken off
                    \* upon a reading of his flag, lock, offer or leg that was
                    \* not true, or while an accept of his was under way
    swallowed,      \* history: bookings whose auto-cancel job has run and ended in an
                    \* error it swallowed, and has not been queued again since
    crashes

places == <<storeOf, count>>
rides  == <<pickupDriver, deliveryDriver, nulled, codes>>
market == <<onTrip, offer, crossed>>
jobs   == <<armed, swallowed>>
vars   == <<status, places, rides, market, jobs, handler, stale, crashes>>

------------------------------------------------------------------------------
(* Statuses and the tables the code keeps over them. *)

Status == {"none", "payment_pending", "store_assigned", "stored", "return_requested",
           "final_payment_pending", "final_payment_captured", "delivered", "cancelled",
           "driver_cancelled_critical"}
          \cup PickupLeg \cup DeliveryLeg

DriverSearch == {"store_assigned"} \cup AwaitingReturn

Cancellable == {"payment_pending", "store_assigned", "driver_assigned"}

\* The table the code declares for its status changes.
Transitions ==
    [s \in Status |->
        CASE s = "none"                   -> {"payment_pending"}
          [] s = "payment_pending"        -> {"store_assigned", "cancelled"}
          [] s = "store_assigned"         -> {"driver_assigned", "cancelled"}
          [] s = "driver_assigned"        -> {"driver_arrived", "cancelled"}
          [] s = "driver_arrived"         -> {"picked_up", "cancelled"}
          [] s = "picked_up"              -> {"at_store", "stored"}
          [] s = "at_store"               -> {"stored", "cancelled"}
          [] s = "stored"                 -> {"return_requested", "final_payment_pending"}
          [] s = "return_requested"       -> {"return_driver_assigned", "stored",
                                              "final_payment_pending"}
          [] s = "final_payment_pending"  -> {"final_payment_captured", "cancelled"}
          [] s = "final_payment_captured" -> {"return_driver_assigned", "stored"}
          [] s = "return_driver_assigned" -> {"out_for_return"}
          [] s = "out_for_return"         -> {"arrived_for_delivery"}
          [] s = "arrived_for_delivery"   -> {"delivered"}
          [] s \in Terminal               -> {}]

------------------------------------------------------------------------------
(* Handlers under way. *)

RideSteps  == {"pickup", "handover", "deliver"}
RideWrites == {"pickup_write", "handover_write", "deliver_write"}

Steps == {"idle", "arm", "claim", "release", "settle", "count", "return", "expire", "cancel",
          "unassign", "offer", "accept"} \cup RideSteps \cup RideWrites

\* Those that end in a write to the booking by id alone.
Blind == RideSteps \cup {"return", "unassign"}

Idle == [do |-> "idle", b |-> None, d |-> None, saw |-> "none"]

Continuation ==
    [do: Steps \ {"idle"}, b: Bookings, d: Drivers \cup {None}, saw: Status] \cup {Idle}

Continue(h, step, b, d) ==
    handler' = [handler EXCEPT ![h] =
                   [do |-> step, b |-> b, d |-> d, saw |-> IF step \in Blind THEN status[b] ELSE "none"]]

Begin(h, step, b, d) == handler[h] = Idle /\ Continue(h, step, b, d)

End(h) == handler' = [handler EXCEPT ![h] = Idle]

At(h, step) == handler[h].do = step

Claims(h, d) == At(h, "claim") /\ handler[h].d = d

Claiming(d) == \E h \in Handlers : Claims(h, d)

Move(b, s) == status' = [status EXCEPT ![b] = s]

\* The driver of booking b is the one the ride step of handler h was asked by.
SameDriver(h, b) ==
    /\ At(h, "pickup_write") => pickupDriver[b] = handler[h].d
    /\ At(h, "handover_write") \/ At(h, "deliver_write") => deliveryDriver[b] = handler[h].d

\* Whether the write handler h is about to make to booking b is a stale one.
NoteWrite(h, b) ==
    stale' = IF status[b] = handler[h].saw /\ SameDriver(h, b) THEN stale ELSE stale \cup {b}

------------------------------------------------------------------------------
Init ==
    /\ status = [b \in Bookings |-> "none"]
    /\ storeOf = [b \in Bookings |-> None]
    /\ pickupDriver = [b \in Bookings |-> None]
    /\ deliveryDriver = [b \in Bookings |-> None]
    /\ nulled = {}
    /\ codes = [b \in Bookings |-> {}]
    /\ count = [s \in Stores |-> 0]
    /\ onTrip = [d \in Drivers |-> FALSE]
    /\ offer = [b \in Bookings |-> None]
    /\ armed = {}
    /\ handler = [h \in Handlers |-> Idle]
    /\ stale = {}
    /\ crossed = {}
    /\ swallowed = {}
    /\ crashes = 0

------------------------------------------------------------------------------
(* Booking, payment and cancellation. *)

\* Mutant: an off-by-one in the capacity check.
HasSlotOrFull(s) == count[s] <= Capacity[s]

HasSlot(s) == count[s] < Capacity[s]

\* checkDriverAvailability: whoever the index and the drivers' documents tell of.
DriverAvailable == \E d \in Drivers : ~onTrip[d]

\* The booking and its first payment are created in one transaction ...
SchedulePickup(h, b) ==
    /\ status[b] = "none"
    /\ \E s \in Stores : HasSlot(s)
    /\ DriverAvailable
    /\ Move(b, "payment_pending")
    /\ Begin(h, "arm", b, None)
    /\ UNCHANGED <<places, rides, market, jobs, stale, crashes>>

\* The auto-cancel job of a booking is put in the queue.
Arm(b) == armed' = armed \cup {b} /\ swallowed' = swallowed \ {b}

\* ... and the auto-cancel job is queued after it.
ArmExpiry(h) ==
    /\ At(h, "arm")
    /\ Arm(handler[h].b)
    /\ End(h)
    /\ UNCHANGED <<status, places, rides, market, stale, crashes>>

\* Mutant: the store is found with room, and its counter not raised.
AssignStoreUncounted(b) ==
    /\ status[b] = "payment_pending"
    /\ \E s \in Stores : HasSlot(s) /\ storeOf' = [storeOf EXCEPT ![b] = s]
    /\ Move(b, "store_assigned")
    /\ UNCHANGED <<count, rides, market, jobs, handler, stale, crashes>>

\* The advance payment arrived.  The search only looks at stores in range that are
\* open, and an error of it cancels the booking too.
AssignStore(b) ==
    /\ status[b] = "payment_pending"
    /\ \/ \E s \in Stores :
            /\ HasSlot(s)
            /\ storeOf' = [storeOf EXCEPT ![b] = s]
            /\ count' = [count EXCEPT ![s] = @ + 1]
            /\ Move(b, "store_assigned")
       \/ Move(b, "cancelled") /\ UNCHANGED places
    /\ UNCHANGED <<rides, market, jobs, handler, stale, crashes>>

\* The slot a cancelled booking gives back, guarded against going below zero.
CountAfterRelease(b) ==
    [s \in Stores |-> IF s = storeOf[b] /\ count[s] > 0 THEN count[s] - 1 ELSE count[s]]

\* Mutant: autoCancelBooking without its status guard.
AutoCancelAnew(b) ==
    /\ Move(b, "cancelled")
    /\ count' = CountAfterRelease(b)
    /\ offer' = [offer EXCEPT ![b] = None]
    /\ UNCHANGED <<storeOf, rides, onTrip, crossed, stale>>

\* autoCancelBooking: one transaction guarded by the status, then the offer's
\* Redis keys are dropped.  It frees no driver.
AutoCancel(b) ==
    /\ status[b] \notin Terminal
    /\ Move(b, "cancelled")
    /\ count' = CountAfterRelease(b)
    /\ offer' = [offer EXCEPT ![b] = None]
    /\ UNCHANGED <<storeOf, rides, onTrip, crossed, stale>>

\* The webhook payment.failed, or the last failure of a pickup search job:
\* neither looks at the status before it calls autoCancelBooking.
CancelUnseen(b) ==
    /\ \/ status[b] = "payment_pending"
       \/ LateCancel /\ status[b] # "none"
    /\ AutoCancel(b)
    /\ UNCHANGED <<jobs, handler, crashes>>

\* Mutant: the job forgets the bookings that wait for their payment.
PaidPendingStatuses == {"store_assigned"}

\* The auto-cancel job reads the status and decides.
PendingStatuses == {"payment_pending", "store_assigned"}

ExpiryJob(h, b) ==
    /\ b \in armed
    /\ armed' = armed \ {b} /\ UNCHANGED swallowed
    /\ IF status[b] \in PendingStatuses
       THEN Begin(h, "expire", b, None)
       ELSE handler[h] = Idle /\ UNCHANGED handler
    /\ UNCHANGED <<status, places, rides, market, stale, crashes>>

\* A search job found no driver for a pickup.
PickupSearchFailed(h, b) ==
    /\ status[b] = "store_assigned"
    /\ Begin(h, "cancel", b, None)
    /\ UNCHANGED <<status, places, rides, market, jobs, stale, crashes>>

\* ... and what either of them goes on to do.  autoCancelBooking answers an error of
\* the database, or a conflicting write, as it answers a booking that is over: with
\* a result upon which the job ends, done, and is not run again.
CancelDecided(h) ==
    /\ At(h, "expire") \/ At(h, "cancel")
    /\ LET b == handler[h].b IN
        \/ AutoCancel(b) /\ UNCHANGED swallowed
        \/ /\ swallowed' = IF At(h, "expire") THEN swallowed \cup {b} ELSE swallowed
           /\ UNCHANGED <<status, places, rides, market, stale>>
    /\ End(h)
    /\ UNCHANGED <<armed, crashes>>

\* cancelBooking: a transaction, then the driver of the booking is released.
CancelByUser(h, b) ==
    /\ handler[h] = Idle
    /\ status[b] \in Cancellable
    /\ Move(b, "cancelled")
    /\ count' = CountAfterRelease(b)
    /\ IF pickupDriver[b] = None
       THEN UNCHANGED handler
       ELSE Continue(h, "release", b, pickupDriver[b])
    /\ UNCHANGED <<storeOf, rides, market, jobs, stale, crashes>>

\* retryPayment: a fresh order, and a new auto-cancel job.
RetryPayment(b) ==
    /\ status[b] \in {"payment_pending", "final_payment_pending"}
    /\ Arm(b)
    /\ UNCHANGED <<status, places, rides, market, handler, stale, crashes>>

------------------------------------------------------------------------------
(* Finding a driver.  Of the search, what it looks at before it offers, and   *)
(* the offer; DriverDispatch has the rest.                                     *)

\* Mutant: the driver's lock is not looked at.
UnlockedOrNot(d) == d \in Drivers

\* No offer of another booking holds the driver.
Unlocked(d) == \A c \in Bookings : offer[c] # d

MayOffer(b, d) == offer[b] = None /\ ~onTrip[d] /\ Unlocked(d)

\* The job reads the booking, the driver's flag and his lock ...
LookAtDriver(h, b, d) ==
    /\ status[b] \in DriverSearch /\ MayOffer(b, d)
    /\ Begin(h, "offer", b, d)
    /\ UNCHANGED <<status, places, rides, market, jobs, stale, crashes>>

\* Whether booking b goes to driver d as it was meant to.
NoteDriver(b, d, meant) ==
    crossed' = IF meant /\ ~Claiming(d) THEN crossed ELSE crossed \cup {b}

\* ... and writes the offer and the lock, whatever they are by now.
WriteOffer(h) ==
    /\ At(h, "offer")
    /\ LET b == handler[h].b
           d == handler[h].d IN
        /\ offer' = [offer EXCEPT ![b] = d]
        /\ NoteDriver(b, d, MayOffer(b, d))
    /\ End(h)
    /\ UNCHANGED <<status, places, rides, onTrip, jobs, stale, crashes>>

\* The driver rejects, the timeout job fires, or the keys expire.
OfferEnds(b) ==
    /\ offer[b] # None
    /\ offer' = [offer EXCEPT ![b] = None]
    /\ UNCHANGED <<status, places, rides, onTrip, crossed, jobs, handler, stale, crashes>>

\* The guarded update of both accept endpoints.  The assignment is replaced
\* (keep = {}) or only its driver is set (keep = the codes it may hold).
TakePickup(b, d) ==
    /\ status[b] = "store_assigned"
    /\ pickupDriver[b] = None
    /\ Move(b, "driver_assigned")
    /\ pickupDriver' = [pickupDriver EXCEPT ![b] = d]
    /\ UNCHANGED <<deliveryDriver, nulled>>

TakeDelivery(b, d) ==
    /\ status[b] \in AwaitingReturn
    /\ deliveryDriver[b] = None
    /\ Move(b, "return_driver_assigned")
    /\ deliveryDriver' = [deliveryDriver EXCEPT ![b] = d]
    /\ nulled' = nulled \ {b}
    /\ UNCHANGED pickupDriver

SetOnTrip(d) == onTrip' = [onTrip EXCEPT ![d] = TRUE]

\* Both accept endpoints read the offer first ...
ReadOffer(h, b, d) ==
    /\ offer[b] = d
    /\ Begin(h, "accept", b, d)
    /\ UNCHANGED <<status, places, rides, market, jobs, stale, crashes>>

\* ... and update the booking, be the offer still there or not.
Accepting(h, b, d) ==
    /\ At(h, "accept") /\ b = handler[h].b /\ d = handler[h].d
    /\ NoteDriver(b, d, offer[b] = d)

\* processRideAccept: the booking first, the driver's flag in a later write.
AcceptRide(h, b, d) ==
    /\ Accepting(h, b, d)
    /\ \/ /\ TakePickup(b, d)
          /\ codes' = [codes EXCEPT ![b] = @ \ {"otp"}]
       \/ /\ TakeDelivery(b, d)
          /\ codes' = [codes EXCEPT ![b] = @ \ {"storageReturnOtp", "returnOtp"}]
    /\ Continue(h, "claim", b, d)
    /\ UNCHANGED <<places, onTrip, offer, jobs, stale, crashes>>

ClaimDriver(h) ==
    /\ At(h, "claim")
    /\ SetOnTrip(handler[h].d)
    /\ offer' = [offer EXCEPT ![handler[h].b] = None]
    /\ End(h)
    /\ UNCHANGED <<status, places, rides, crossed, jobs, stale, crashes>>

\* acceptBookingOffer: booking and driver in one transaction, field by field,
\* which MongoDB refuses under an assignment that is null.
AcceptBookingOffer(h, b, d) ==
    /\ Accepting(h, b, d)
    /\ TakePickup(b, d) \/ (b \notin nulled /\ TakeDelivery(b, d))
    /\ SetOnTrip(d)
    /\ offer' = [offer EXCEPT ![b] = None]
    /\ End(h)
    /\ UNCHANGED <<places, codes, jobs, stale, crashes>>

\* Too late: the booking is not to be had.  One of the endpoints then clears the
\* offer, whoever it is made to by now.
AcceptFails(h) ==
    /\ At(h, "accept")
    /\ LET b == handler[h].b IN
        /\ \/ b \in nulled
           \/ /\ status[b] # "store_assigned" \/ pickupDriver[b] # None
              /\ status[b] \notin AwaitingReturn \/ deliveryDriver[b] # None
        /\ offer' \in {offer, [offer EXCEPT ![b] = None]}
    /\ End(h)
    /\ UNCHANGED <<status, places, rides, onTrip, crossed, jobs, stale, crashes>>

\* A search job found no driver for a return: it read the booking as awaiting
\* one, and later nulls the assignment whatever the booking has become.
ReturnSearchFailed(h, b) ==
    /\ status[b] \in AwaitingReturn
    /\ Begin(h, "unassign", b, None)
    /\ UNCHANGED <<status, places, rides, market, jobs, stale, crashes>>

NullAssignment(h) ==
    /\ At(h, "unassign")
    /\ LET b == handler[h].b IN
        /\ deliveryDriver' = [deliveryDriver EXCEPT ![b] = None]
        /\ nulled' = nulled \cup {b}
        /\ codes' = [codes EXCEPT ![b] = @ \ {"storageReturnOtp", "returnOtp"}]
        /\ NoteWrite(h, b)
    /\ End(h)
    /\ UNCHANGED <<status, places, pickupDriver, market, jobs, crashes>>

------------------------------------------------------------------------------
(* The driver's ride. *)

\* One guarded update: the driver of a leg reports an arrival.
Arrive(b, from, to, code) ==
    /\ status[b] = from
    /\ Move(b, to)
    /\ codes' = [codes EXCEPT ![b] = @ \cup code]
    /\ UNCHANGED <<places, pickupDriver, deliveryDriver, nulled, market, jobs, handler,
                   stale, crashes>>

ArriveAtPickup(b) ==
    /\ pickupDriver[b] # None
    /\ Arrive(b, "driver_assigned", "driver_arrived", {"otp"})

ArriveAtStore(b) ==
    /\ pickupDriver[b] # None
    /\ Arrive(b, "picked_up", "at_store", {})

\* Mutant: the driver's arrival at the store issues the user's code.
ArriveWithUserCode(b) ==
    /\ deliveryDriver[b] # None
    /\ Arrive(b, "return_driver_assigned", "return_driver_assigned",
              {"storageReturnOtp", "returnOtp"})

ArriveAtStoreForReturn(b) ==
    /\ deliveryDriver[b] # None
    /\ Arrive(b, "return_driver_assigned", "return_driver_assigned", {"storageReturnOtp"})

ArriveAtUserReturn(b) ==
    /\ deliveryDriver[b] # None
    /\ Arrive(b, "out_for_return", "arrived_for_delivery", {"returnOtp"})

\* Mutant: a delivery is completed without the user's code.
MayCompleteUnchecked(step, b, d) ==
    \/ /\ step = "pickup"
       /\ status[b] = "driver_arrived" /\ pickupDriver[b] = d
    \/ /\ step = "handover"
       /\ status[b] = "return_driver_assigned" /\ deliveryDriver[b] = d
    \/ /\ step = "deliver"
       /\ status[b] \in {"out_for_return", "arrived_for_delivery"}
       /\ deliveryDriver[b] = d

\* What a completion endpoint reads: the status, the driver, and the code.
MayComplete(step, b, d) ==
    \/ /\ step = "pickup"
       /\ status[b] = "driver_arrived"
       /\ pickupDriver[b] = d /\ "otp" \in codes[b]
    \/ /\ step = "handover"
       /\ status[b] = "return_driver_assigned"
       /\ deliveryDriver[b] = d /\ "storageReturnOtp" \in codes[b]
    \/ /\ step = "deliver"
       /\ status[b] \in {"out_for_return", "arrived_for_delivery"}
       /\ deliveryDriver[b] = d /\ "returnOtp" \in codes[b]

Target == [step \in RideSteps \cup RideWrites |->
              CASE step \in {"pickup", "pickup_write"}     -> "picked_up"
                [] step \in {"handover", "handover_write"} -> "out_for_return"
                [] step \in {"deliver", "deliver_write"}   -> "delivered"]

WriteOf == [step \in RideSteps |->
              CASE step = "pickup"   -> "pickup_write"
                [] step = "handover" -> "handover_write"
                [] step = "deliver"  -> "deliver_write"]

BeginRideStep(h, step, b, d) ==
    /\ MayComplete(step, b, d)
    /\ Begin(h, step, b, d)
    /\ UNCHANGED <<status, places, rides, market, jobs, stale, crashes>>

\* The schema's hook before findByIdAndUpdate: a read of its own that refuses
\* to move a booking out of a terminal status.
TerminalGuard(h) ==
    /\ handler[h].do \in RideSteps
    /\ LET s == status[handler[h].b] IN
        IF s \in Terminal /\ s # Target[handler[h].do]
        THEN End(h)
        ELSE handler' = [handler EXCEPT ![h].do = WriteOf[@]]
    /\ UNCHANGED <<status, places, rides, market, jobs, stale, crashes>>

\* The update itself, by id alone.  After a delivery the driver is released.
WriteRideStep(h) ==
    /\ handler[h].do \in RideWrites
    /\ LET b == handler[h].b IN
        /\ Move(b, Target[handler[h].do])
        /\ NoteWrite(h, b)
    /\ IF At(h, "deliver_write")
       THEN handler' = [handler EXCEPT ![h].do = "release"]
       ELSE End(h)
    /\ UNCHANGED <<places, rides, market, jobs, crashes>>

\* confirmStored: the booking, then the driver, then the store's count.
ConfirmStored(h, b) ==
    /\ status[b] = "at_store"
    /\ Move(b, "stored")
    /\ Begin(h, IF pickupDriver[b] = None THEN "count" ELSE "settle", b, pickupDriver[b])
    /\ UNCHANGED <<places, rides, market, jobs, stale, crashes>>

ReleaseDriver(h) ==
    /\ At(h, "release") \/ At(h, "settle")
    /\ onTrip' = [onTrip EXCEPT ![handler[h].d] = FALSE]
    /\ IF At(h, "settle")
       THEN handler' = [handler EXCEPT ![h].do = "count"]
       ELSE End(h)
    /\ UNCHANGED <<status, places, rides, offer, crossed, jobs, stale, crashes>>

CountStored(h) ==
    /\ At(h, "count")
    /\ LET s == storeOf[handler[h].b] IN count' = [count EXCEPT ![s] = @ + 1]
    /\ End(h)
    /\ UNCHANGED <<status, storeOf, rides, market, jobs, stale, crashes>>

------------------------------------------------------------------------------
(* The return. *)

\* requestReturn reads the booking, prices the return and opens an order ...
RequestReturn(h, b) ==
    /\ status[b] \in {"stored", "final_payment_pending"} \cup AwaitingReturn
    /\ Begin(h, "return", b, None)
    /\ UNCHANGED <<status, places, rides, market, jobs, stale, crashes>>

\* A quote of zero needs no payment, and a paid return is not priced again: it
\* only searches anew.
QuotedStatus(saw) ==
    IF saw \in AwaitingReturn THEN {saw} ELSE {"final_payment_pending", "return_requested"}

\* Saving a booking raises its version: who read it before can save it no more.
\* Only a save looks at the version, and an update leaves it alone.
HandlersAfterSave(b) ==
    [g \in Handlers |-> IF At(g, "return") /\ handler[g].b = b THEN Idle ELSE handler[g]]

\* ... and saves.  A status it leaves as it read it is not written.
SaveReturn(h) ==
    /\ At(h, "return")
    /\ LET b == handler[h].b
           saw == handler[h].saw IN
        /\ \E s \in QuotedStatus(saw) :
              IF s = saw
              THEN UNCHANGED <<status, stale>>
              ELSE Move(b, s) /\ NoteWrite(h, b)
        /\ handler' = HandlersAfterSave(b)
    /\ UNCHANGED <<places, rides, market, jobs, crashes>>

\* assignDriverToBooking: the final payment arrived.
ReturnPaid(b) ==
    /\ status[b] = "final_payment_pending"
    /\ Move(b, "final_payment_captured")
    /\ handler' = HandlersAfterSave(b)
    /\ UNCHANGED <<places, rides, market, jobs, stale, crashes>>

------------------------------------------------------------------------------
\* A process dies with handler h.  The queue delivers an unfinished job again.
Crash(h) ==
    /\ crashes < MaxCrash
    /\ handler[h] # Idle
    /\ End(h)
    /\ IF At(h, "expire") THEN Arm(handler[h].b) ELSE UNCHANGED jobs
    /\ crashes' = crashes + 1
    /\ UNCHANGED <<status, places, rides, market, stale>>

Accepts(h) ==
    \E b \in Bookings, d \in Drivers : AcceptRide(h, b, d) \/ AcceptBookingOffer(h, b, d)

Continuations(h) ==
    \/ ArmExpiry(h) \/ CancelDecided(h) \/ NullAssignment(h)
    \/ WriteOffer(h) \/ Accepts(h) \/ AcceptFails(h) \/ ClaimDriver(h)
    \/ TerminalGuard(h) \/ WriteRideStep(h) \/ ReleaseDriver(h) \/ CountStored(h) \/ SaveReturn(h)

Next ==
    \/ \E b \in Bookings :
        \/ AssignStore(b) \/ CancelUnseen(b) \/ RetryPayment(b) \/ OfferEnds(b) \/ ReturnPaid(b)
        \/ ArriveAtPickup(b) \/ ArriveAtStore(b)
        \/ ArriveAtStoreForReturn(b) \/ ArriveAtUserReturn(b)
    \/ \E h \in Handlers, b \in Bookings :
        \/ SchedulePickup(h, b) \/ CancelByUser(h, b) \/ ExpiryJob(h, b)
        \/ PickupSearchFailed(h, b) \/ ReturnSearchFailed(h, b) \/ ConfirmStored(h, b) \/ RequestReturn(h, b)
        \/ \E d \in Drivers :
            \/ LookAtDriver(h, b, d) \/ ReadOffer(h, b, d)
            \/ \E step \in RideSteps : BeginRideStep(h, step, b, d)
    \/ \E h \in Handlers : Continuations(h) \/ Crash(h)

\* The job queue redelivers and a handler's awaits end: both are fair.
Fairness ==
    /\ \A h \in Handlers : WF_vars(Continuations(h))
    /\ \A b \in Bookings : WF_vars(\E h \in Handlers : ExpiryJob(h, b))

Spec == Init /\ [][Next]_vars
FairSpec == Spec /\ Fairness

------------------------------------------------------------------------------
(* Properties. *)

\* Every variable keeps its shape: the documents' fields, the queue and the
\* handlers under way.
TypeOK ==
    /\ status \in [Bookings -> Status]
    /\ storeOf \in [Bookings -> Stores \cup {None}]
    /\ pickupDriver \in [Bookings -> Drivers \cup {None}]
    /\ deliveryDriver \in [Bookings -> Drivers \cup {None}]
    /\ nulled \subseteq Bookings
    /\ codes \in [Bookings -> SUBSET {"otp", "storageReturnOtp", "returnOtp"}]
    /\ count \in [Stores -> Nat]
    /\ onTrip \in [Drivers -> BOOLEAN]
    /\ offer \in [Bookings -> Drivers \cup {None}]
    /\ armed \subseteq Bookings
    /\ handler \in [Handlers -> Continuation]
    /\ stale \subseteq Bookings
    /\ crossed \subseteq Bookings
    /\ swallowed \subseteq Bookings
    /\ crashes \in Nat

\* The driver is on a live leg of the booking.
OnLeg(d, b) ==
    \/ status[b] \in PickupLeg /\ pickupDriver[b] = d
    \/ status[b] \in DeliveryLeg /\ deliveryDriver[b] = d

Releases(h, d) == (At(h, "release") \/ At(h, "settle")) /\ handler[h].d = d

\* No write was lost with a process, none landed on a status or driver unread,
\* and no driver was offered, given or taken off upon a reading untrue by then.
Undisturbed == stale = {} /\ crossed = {} /\ crashes = 0

NoStaleWrite == stale = {}

\* A driver has one trip at a time: the offer's lock, the is_on_trip flag and
\* the guarded accept keep him from a second booking although the accept
\* handler sets the flag after the booking and the release clears it later.
OneTripPerDriver ==
    Undisturbed => \A d \in Drivers, b, c \in Bookings :
                      OnLeg(d, b) /\ OnLeg(d, c) => b = c

\* The search offers no ride to a driver who is on the leg of another
\* booking, whichever of his handlers have not ended.
OfferedDriverIsFree ==
    Undisturbed => \A d \in Drivers, b, c \in Bookings :
                      offer[b] = d /\ OnLeg(d, c) => b = c

\* The bookings whose luggage is at store s, or is promised to it.
Reserved ==
    {"store_assigned", "stored", "return_driver_assigned", "final_payment_pending"}
    \cup PickupLeg \cup AwaitingReturn

Holds(s) == {b \in Bookings : storeOf[b] = s /\ status[b] \in Reserved}

\* The store's counter never falls below the bookings it has taken on: no
\* order of cancellations gives a slot back twice or before it is free.
HoldsCounted ==
    stale = {} => \A s \in Stores : Cardinality(Holds(s)) <= count[s]

\* A store never takes on more luggage than it has room for.
NeverOverbooked ==
    stale = {} => \A s \in Stores : Cardinality(Holds(s)) <= Capacity[s]

\* Every status a booking takes is one its table of transitions allows, or a
\* cancellation while it is not over, or a return priced again, at nothing;
\* except where a stale write landed.
\* In particular a delivered or cancelled booking is only revived by one.
StatusMovesFollowTable ==
    [][\A b \in Bookings :
          \/ status'[b] = status[b]
          \/ status'[b] \in Transitions[status[b]]
          \/ status'[b] = "cancelled" /\ status[b] \notin Terminal
          \/ status[b] = "final_payment_pending" /\ status'[b] = "return_requested"
          \/ b \in stale']_vars

\* What the store's own hand-over endpoint asks for: the code of the user's door.
MayVerifyReturnOtp(b) == status[b] = "return_driver_assigned" /\ "returnOtp" \in codes[b]

\* That endpoint, the only code that lowers the count of a delivered booking, is
\* never open: its code is not set while the luggage still waits at the store.
StoreHandoverUnreachable == \A b \in Bookings : ~MayVerifyReturnOtp(b)

\* A booking whose auto-cancel job is queued does not wait for its payment for
\* ever: the job ends it if nothing else does, and survives a crash of the
\* process that runs it.  An error of the cancellation itself it does not survive:
\* autoCancelBooking swallows it, and the job is done (autoCancelWorker).
PendingResolved ==
    \A b \in Bookings :
        status[b] = "payment_pending" /\ b \in armed ~>
            status[b] # "payment_pending" \/ b \in swallowed

(* The inductive invariant behind OneTripPerDriver and OfferedDriverIsFree. *)

\* What handler h read before it writes to a booking by id alone.
SawRight(h) ==
    LET saw == handler[h].saw IN
    /\ handler[h].do \in {"pickup", "pickup_write"} => saw = "driver_arrived"
    /\ handler[h].do \in {"handover", "handover_write"} => saw = "return_driver_assigned"
    /\ handler[h].do \in {"deliver", "deliver_write"} =>
          saw \in {"out_for_return", "arrived_for_delivery"} /\ handler[h].d \in Drivers
    /\ At(h, "unassign") => saw \in AwaitingReturn
    /\ At(h, "return") => saw \in {"stored", "final_payment_pending"} \cup AwaitingReturn

NoEarlyPickupDriver ==
    \A b \in Bookings :
        status[b] \in {"none", "payment_pending", "store_assigned"} => pickupDriver[b] = None

NoEarlyDeliveryDriver ==
    \A b \in Bookings :
        status[b] \notin DeliveryLeg \cup Terminal => deliveryDriver[b] = None

OneLeg ==
    \A d \in Drivers, b, c \in Bookings : OnLeg(d, b) /\ OnLeg(d, c) => b = c

OneOffer ==
    \A d \in Drivers, b, c \in Bookings : offer[b] = d /\ offer[c] = d => b = c

OneClaim ==
    \A d \in Drivers, h, g \in Handlers : Claims(h, d) /\ Claims(g, d) => h = g

OneRelease ==
    \A d \in Drivers, h, g \in Handlers : Releases(h, d) /\ Releases(g, d) => h = g

\* A driver on a leg is marked, or the handler that accepted it is about to.
LegMarked ==
    \A d \in Drivers, b \in Bookings : OnLeg(d, b) =>
        onTrip[d] \/ \E h \in Handlers : Claims(h, d) /\ handler[h].b = b

OfferedUnmarked == \A d \in Drivers, b \in Bookings : offer[b] = d => ~onTrip[d]

ClaimUnmarked == \A d \in Drivers, h \in Handlers : Claims(h, d) => ~onTrip[d]

ClaimKeepsOffer ==
    \A d \in Drivers, h \in Handlers, b \in Bookings :
        Claims(h, d) /\ offer[b] = d => handler[h].b = b

\* Who is being released has left his leg, and can take no other before.
ReleaseAfterLeg ==
    \A d \in Drivers, h \in Handlers : Releases(h, d) =>
        /\ \A b \in Bookings : ~OnLeg(d, b)
        /\ onTrip[d] \/ Claiming(d)

MarketInv ==
    /\ OneLeg /\ OneOffer /\ OneClaim /\ OneRelease
    /\ LegMarked /\ OfferedUnmarked /\ ClaimUnmarked /\ ClaimKeepsOffer
    /\ ReleaseAfterLeg

DriverInv ==
    Undisturbed =>
        /\ \A h \in Handlers : SawRight(h)
        /\ NoEarlyPickupDriver /\ NoEarlyDeliveryDriver
        /\ MarketInv

(* The inductive invariants behind HoldsCounted, NeverOverbooked and           *)
(* StoreHandoverUnreachable.                                                   *)

\* From the assignment of a store to the end: a cancellation lowers the count.
Live == Reserved \cup {"out_for_return", "arrived_for_delivery"}

LiveAt(s) == {b \in Bookings : storeOf[b] = s /\ status[b] \in Live}

\* A handler that writes a status by id alone had read a live one.
SawLive(h) ==
    handler[h].do \in RideSteps \cup RideWrites \cup {"return"} => handler[h].saw \in Live

NoEarlyStore ==
    \A b \in Bookings : status[b] \in {"none", "payment_pending"} => storeOf[b] = None

SlotsCounted(s) ==
    /\ IsFiniteSet(LiveAt(s))
    /\ Cardinality(LiveAt(s)) <= count[s]
    /\ Cardinality(LiveAt(s)) <= Capacity[s]

SlotInv ==
    stale = {} =>
        /\ \A h \in Handlers : SawLive(h)
        /\ NoEarlyStore
        /\ \A s \in Stores : SlotsCounted(s)

\* The user's code is set for the driver at the door, and a search for another
\* driver clears it.
UserCodeInv ==
    \A b \in Bookings : "returnOtp" \in codes[b] =>
        deliveryDriver[b] # None /\ status[b] # "return_driver_assigned"

(* ... and behind StatusMovesFollowTable. *)

\* What handler h read before it writes the status of a booking by id alone.
SawBefore(h) ==
    LET saw == handler[h].saw IN
    /\ handler[h].do \in {"pickup", "pickup_write"} => saw = "driver_arrived"
    /\ handler[h].do \in {"handover", "handover_write"} => saw = "return_driver_assigned"
    /\ handler[h].do \in {"deliver", "deliver_write"} => saw = "arrived_for_delivery"
    /\ At(h, "return") => saw \in {"stored", "final_payment_pending"} \cup AwaitingReturn

\* Only an arrival at the user's door issues the code of his door.
CodeAtDoor(b) ==
    "returnOtp" \in codes[b] => status[b] \in {"arrived_for_delivery"} \cup Terminal

TableInv ==
    /\ \A h \in Handlers : handler[h].b \notin stale => SawBefore(h)
    /\ \A b \in Bookings \ stale : CodeAtDoor(b)

==============================================================================
