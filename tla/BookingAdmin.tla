------------------------------ MODULE BookingAdmin ------------------------------
(* The administrators' hand on a booking, next to everything that goes on with *)
(* it in BookingCore: they cancel it from any status, give its leg to a driver *)
(* of their choice or back to the search, move it to another store, approve a  *)
(* driver's critical cancellation, and push it along its table of statuses.    *)
(*                                                                             *)
(* Each handler is one MongoDB transaction and then, outside of it, the        *)
(* release of the drivers it took off; a critical cancellation has no          *)
(* transaction, and writes by id what it decided on an earlier read.           *)
(* delivery.assignment.cancelledAt, which assignDriver also looks at, is only  *)
(* set together with a terminal status, so the status tells the leg.           *)
EXTENDS BookingCore

CONSTANTS
    Admins,     \* administrators' requests under way at once
    MaxActs     \* bound on administrators' requests

ASSUME MaxActsAssumption == MaxActs \in Nat

VARIABLES
    desk,  \* the next step of each administrator's request
    acts   \* requests begun

adminVars == <<vars, desk, acts>>

Empty == [do |-> "idle", b |-> None, ds |-> {}, leg |-> "none", saw |-> "none"]

Freeing(ds) == [do |-> "free", b |-> None, ds |-> ds, leg |-> "none", saw |-> "none"]

Desks ==
    [do: {"idle", "free", "critical", "force"}, b: Bookings \cup {None},
     ds: SUBSET Drivers, leg: {"none", "pickup", "delivery"}, saw: Status]

Close(a) == desk' = [desk EXCEPT ![a] = Empty]

\* The drivers to release once the transaction is committed.
ThenFree(a, ds) ==
    /\ desk[a] = Empty
    /\ desk' = IF ds = {} THEN desk ELSE [desk EXCEPT ![a] = Freeing(ds)]

\* Whether the drivers to be released are still on a leg of the booking.
OnIt(b, ds) == \A d \in ds : OnLeg(d, b)

NoteTakenOff(b, ds) == crossed' = IF OnIt(b, ds) THEN crossed ELSE crossed \cup {b}

Real(ds) == ds \ {None}

AdminInit == Init /\ desk = [a \in Admins |-> Empty] /\ acts = 0

------------------------------------------------------------------------------
(* The leg an administrator's assignment is about. *)

ReturnLeg == DeliveryLeg \cup AwaitingReturn

CurrentDriver(b) == IF status[b] \in ReturnLeg THEN deliveryDriver[b] ELSE pickupDriver[b]

\* The driver is written into the assignment field by field: MongoDB refuses to set
\* a field under an assignment that is null, and takes none away from it.
SetLegDriver(b, d) ==
    IF status[b] \in ReturnLeg
    THEN /\ b \in nulled => d = None
         /\ deliveryDriver' = [deliveryDriver EXCEPT ![b] = d]
         /\ UNCHANGED <<pickupDriver, nulled, codes>>
    ELSE /\ pickupDriver' = [pickupDriver EXCEPT ![b] = d]
         /\ UNCHANGED <<deliveryDriver, nulled, codes>>

\* Within the transaction: the new driver is marked, the old one is not any more.
FreeNow(d, new) ==
    onTrip' = [x \in Drivers |-> IF x = new THEN TRUE ELSE IF x = d THEN FALSE ELSE onTrip[x]]

\* The claim is one guarded update: a driver on a trip is not taken.  Offers are
\* not looked at.
Claim(b, d, meant) == ~onTrip[d] /\ NoteDriver(b, d, meant /\ Unlocked(d))

\* assignDriver with a driver: from any status that is not terminal.
AssignDriver(a, b, d) ==
    /\ desk[a] = Empty /\ status[b] \notin Terminal \cup {"none"}
    /\ CurrentDriver(b) # d
    /\ Claim(b, d, OnIt(b, Real({CurrentDriver(b)})))
    /\ SetLegDriver(b, d)
    /\ Move(b, IF status[b] \in ReturnLeg THEN "return_driver_assigned" ELSE "driver_assigned")
    /\ FreeNow(CurrentDriver(b), d)
    /\ UNCHANGED <<places, offer, jobs, handler, stale, crashes, desk>>

\* assignDriver without one: the leg is taken back to where it is searched for.
SearchAgain(a, b) ==
    /\ desk[a] = Empty /\ status[b] \notin Terminal \cup {"none"}
    /\ NoteTakenOff(b, Real({CurrentDriver(b)}))
    /\ SetLegDriver(b, None)
    /\ Move(b, IF status[b] \in ReturnLeg THEN "final_payment_captured" ELSE "store_assigned")
    /\ FreeNow(CurrentDriver(b), None)
    /\ UNCHANGED <<places, offer, jobs, handler, stale, crashes, desk>>

\* assignReturnDriver: the driver who was there, if any, is left as he is.
AssignReturnDriver(a, b, d) ==
    /\ desk[a] = Empty
    /\ "return_driver_assigned" \in Transitions[status[b]]
    /\ Claim(b, d, TRUE) /\ b \notin nulled
    /\ Move(b, "return_driver_assigned")
    /\ deliveryDriver' = [deliveryDriver EXCEPT ![b] = d]
    /\ FreeNow(None, d)
    /\ UNCHANGED <<places, pickupDriver, nulled, codes, offer, jobs, handler, stale, crashes,
                   desk>>

------------------------------------------------------------------------------
(* Stores. *)

\* The old store's release lowers current_capacity, a field stores do not have:
\* only the new store's counter changes.
Recount(old, new) == old # new /\ count' = [count EXCEPT ![new] = @ + 1]

MayTake(s) == HasSlot(s)

ReassignStore(a, b, s) ==
    /\ desk[a] = Empty
    /\ status[b] = "store_assigned"
    /\ MayTake(s) /\ Recount(storeOf[b], s)
    /\ storeOf' = [storeOf EXCEPT ![b] = s]
    /\ UNCHANGED <<status, rides, market, jobs, handler, stale, crashes, desk>>

------------------------------------------------------------------------------
(* Cancellations. *)

\* cancelBooking: both drivers the booking names are released after the commit,
\* whatever they do by then.  The store's counter stays: see Recount.  The update
\* writes into both assignments, and is refused where the delivery's is null.
ForceCancel(a, b) ==
    /\ status[b] \notin Terminal \cup {"none"} /\ b \notin nulled
    /\ LET ds == Real({pickupDriver[b], deliveryDriver[b]}) IN
        /\ NoteTakenOff(b, ds)
        /\ ThenFree(a, ds)
    /\ Move(b, "cancelled")
    /\ UNCHANGED <<places, rides, onTrip, offer, jobs, handler, stale, crashes>>

\* releaseDriver, one driver after the other.
Free(a) ==
    /\ desk[a].do = "free"
    /\ \E d \in desk[a].ds :
        /\ onTrip' = [onTrip EXCEPT ![d] = FALSE]
        /\ desk' = [desk EXCEPT ![a] = IF desk[a].ds = {d} THEN Empty
                                       ELSE Freeing(desk[a].ds \ {d})]
    /\ UNCHANGED <<status, places, rides, offer, crossed, jobs, handler, stale, crashes>>

\* adminProcessCriticalCancel reads which leg's driver it is about ...
DecideCritical(a, b) ==
    /\ status[b] # "none"
    /\ LET return == deliveryDriver[b] # None \/ status[b] \in {"out_for_return", "arrived_for_delivery"}
           ds == Real(IF return THEN {deliveryDriver[b]} ELSE {pickupDriver[b]}) IN
        /\ NoteTakenOff(b, ds)
        /\ desk[a] = Empty
        /\ desk' = [desk EXCEPT ![a] =
                       [do |-> "critical", b |-> b, ds |-> ds, saw |-> status[b],
                        leg |-> IF return THEN "delivery" ELSE "pickup"]]
    /\ UNCHANGED <<status, places, rides, onTrip, offer, jobs, handler, stale, crashes>>

\* ... the schema's hook reads the status ...
CriticalGuard(a) ==
    /\ desk[a].do = "critical"
    /\ IF status[desk[a].b] \in Terminal \ {"driver_cancelled_critical"}
       THEN Close(a)
       ELSE desk' = [desk EXCEPT ![a].do = "force"]
    /\ UNCHANGED vars

\* The leg's driver and codes, whosever they are by now.
UnsetLeg(b, leg) ==
    IF leg = "pickup"
    THEN /\ pickupDriver' = [pickupDriver EXCEPT ![b] = None]
         /\ codes' = [codes EXCEPT ![b] = @ \ {"otp"}]
         /\ UNCHANGED deliveryDriver
    ELSE /\ deliveryDriver' = [deliveryDriver EXCEPT ![b] = None]
         /\ codes' = [codes EXCEPT ![b] = @ \ {"storageReturnOtp", "returnOtp"}]
         /\ UNCHANGED pickupDriver

\* ... and the update follows, by id.  It is a stale one when the booking has
\* moved on, or its leg has another driver.
ForceCritical(a) ==
    /\ desk[a].do = "force"
    /\ LET b == desk[a].b
           now == IF desk[a].leg = "pickup" THEN pickupDriver[b] ELSE deliveryDriver[b] IN
        /\ Move(b, "driver_cancelled_critical")
        /\ UnsetLeg(b, desk[a].leg)
        /\ stale' = IF status[b] = desk[a].saw /\ Real({now}) = desk[a].ds
                    THEN stale ELSE stale \cup {b}
        /\ offer' = [offer EXCEPT ![b] = None]
    /\ IF desk[a].ds = {} THEN Close(a) ELSE desk' = [desk EXCEPT ![a] = Freeing(@.ds)]
    /\ UNCHANGED <<places, nulled, onTrip, crossed, jobs, handler, crashes>>

------------------------------------------------------------------------------
(* The buttons that push a booking along its table. *)

\* Mutant of Leaves: whoever arrives has left.
LeavesEarly(b, to) == Real(IF to = "driver_arrived" THEN {pickupDriver[b]} ELSE {deliveryDriver[b]})

\* Whose leg a status ends.
Leaves(b, to) ==
    Real(CASE to = "stored"    -> {pickupDriver[b]}
           [] to = "delivered" -> {deliveryDriver[b]}
           [] OTHER            -> {})

Progress(a, b, to) ==
    /\ to \in Transitions[status[b]]
    /\ NoteTakenOff(b, Leaves(b, to))
    /\ ThenFree(a, Leaves(b, to))
    /\ Move(b, to)
    /\ UNCHANGED <<places, rides, onTrip, offer, jobs, handler, stale, crashes>>

MarkDriverArrived(a, b) == Progress(a, b, "driver_arrived")
MarkPickedUp(a, b)      == Progress(a, b, "picked_up")
MarkStored(a, b)        == Progress(a, b, "stored")
RequestReturnFor(a, b)  == Progress(a, b, "return_requested")
MarkDelivered(a, b)     == Progress(a, b, "delivered")

\* The process dies with an administrator's request.
AdminCrash(a) ==
    /\ crashes < MaxCrash
    /\ desk[a] # Empty
    /\ Close(a)
    /\ crashes' = crashes + 1
    /\ UNCHANGED <<status, places, rides, market, jobs, handler, stale>>

Request(a) ==
    /\ acts < MaxActs /\ acts' = acts + 1
    /\ \E b \in Bookings :
        \/ SearchAgain(a, b) \/ ForceCancel(a, b) \/ DecideCritical(a, b)
        \/ MarkDriverArrived(a, b) \/ MarkPickedUp(a, b) \/ MarkStored(a, b)
        \/ RequestReturnFor(a, b) \/ MarkDelivered(a, b)
        \/ \E d \in Drivers : AssignDriver(a, b, d) \/ AssignReturnDriver(a, b, d)
        \/ \E s \in Stores : ReassignStore(a, b, s)

AdminNext ==
    \/ Next /\ UNCHANGED <<desk, acts>>
    \/ \E a \in Admins :
        \/ Request(a)
        \/ (Free(a) \/ CriticalGuard(a) \/ ForceCritical(a) \/ AdminCrash(a)) /\ UNCHANGED acts

AdminSpec == AdminInit /\ [][AdminNext]_adminVars

------------------------------------------------------------------------------
(* Properties: those of BookingCore hold with administrators about. *)

\* Every variable keeps its shape with administrators about.
AdminTypeOK ==
    /\ TypeOK
    /\ desk \in [Admins -> Desks]
    /\ \A a \in Admins : desk[a].do \in {"critical", "force"} => desk[a].b \in Bookings
    /\ acts \in 0..MaxActs

(* What the inductive invariant of BookingCore leaves to be said of them. *)

Frees(a, d) == desk[a].do = "free" /\ d \in desk[a].ds

\* The driver has left his leg, can take no other, and nobody else releases him.
BetweenTrips(d) ==
    /\ \A b \in Bookings : ~OnLeg(d, b)
    /\ onTrip[d] \/ Claiming(d)
    /\ \A h \in Handlers : ~Releases(h, d)

FreedAreBetween == \A a \in Admins, d \in Drivers : Frees(a, d) => BetweenTrips(d)

OneFrees == \A d \in Drivers, a, c \in Admins : Frees(a, d) /\ Frees(c, d) => a = c

\* A critical cancellation is about the leg its booking was read on.
DeskRight(a) ==
    desk[a].do \in {"critical", "force"} /\ desk[a].ds # {} =>
        /\ desk[a].saw \in IF desk[a].leg = "pickup" THEN PickupLeg ELSE DeliveryLeg
        /\ \A d, e \in desk[a].ds : d = e

AdminInv ==
    /\ DriverInv
    /\ Undisturbed => FreedAreBetween /\ OneFrees /\ \A a \in Admins : DeskRight(a)

==============================================================================
