----------------------------- MODULE BookingViews -----------------------------
(* Who sees what of a booking.  The customer, the drivers, the stores and the *)
(* administrators read it through views cached in Redis; each handler that    *)
(* changes it drops, after its write, the views it thinks of.  A view that is *)
(* read before a write and cached after the drop, or that nobody drops, shows *)
(* the past until its key expires.                                            *)
(*                                                                            *)
(* There is one booking; of its document only what tells who sees it is kept. *)
(* When a handler may act is that of BookingCore and BookingAdmin, without    *)
(* what they ask of drivers, offers, payments and capacities.  The look into  *)
(* the cache and the query after a miss are one step: the query only sees     *)
(* more the later it is.                                                      *)
EXTENDS BookingTerms, Naturals

CONSTANTS
    MaxReads,   \* views read and cached: they never meet, one at a time will do
    MaxAsks,    \* administrators' requests
    MaxLoss     \* requests whose drops are lost: a crash, or an error of Redis

ASSUME ViewsAssumption ==
    None \notin Drivers \cup Stores /\ {MaxReads, MaxAsks, MaxLoss} \subseteq Nat

VARIABLES
    booking,  \* the document: status, drivers of the two legs, store
    cached,   \* what the key of each view that is cached holds
    request,  \* the request under way
    by,       \* the driver whose endpoint wrote last, None if it was another's
    late,     \* views cached by a reader who had read before a write
    missed,   \* cached views a write left as they were
    moved,    \* cached views of a store the booking was moved to
    reads, asks, losses

history  == <<late, missed, moved>>
counts   == <<reads, asks, losses>>
viewVars == <<booking, cached, request, by, history, counts>>

(* What a view shows. *)

Over == {"delivered", "cancelled"}

Known == PickupLeg \cup DeliveryLeg \cup AwaitingReturn \cup Terminal
         \cup {"payment_pending", "store_assigned", "stored", "final_payment_pending"}

UserKinds   == {"userDetail", "userList", "userActive", "userHistory"}
DriverKinds == {"active", "assigned", "ride", "leg", "past"}
StoreKinds  == {"incoming", "kept", "returning", "storeDetail", "storePast", "dashboard"}

\* "leg" is a ride's detail asked for by the name of one of its legs.
Views == (UserKinds \X {"user"}) \cup {<<"adminList", "admin">>, <<"overview", "owner">>}
         \cup (DriverKinds \X Drivers) \cup (StoreKinds \X Stores)

\* The statuses in which a view has the booking in it.
Scope ==
    [k \in UserKinds \cup DriverKinds \cup StoreKinds \cup {"adminList", "overview"} |->
        CASE k = "userActive"                           -> Known \ Over
          [] k \in {"userHistory", "past", "storePast"} -> Over
          [] k \in {"active", "assigned"}               -> PickupLeg \cup DeliveryLeg
          [] k = "incoming"                             -> PickupLeg \cup {"store_assigned"}
          [] k = "kept"                                 -> {"stored", "return_requested"}
          [] k = "returning"                            -> {"return_driver_assigned"}
          [] OTHER                                      -> Known]

Blank == [st |-> "none", pickup |-> None, delivery |-> None, store |-> None]

\* A driver sees the bookings that name him on either leg, whichever is on.
Concerns(v) ==
    CASE v[1] \in DriverKinds -> v[2] \in {booking.pickup, booking.delivery}
      [] v[1] \in StoreKinds  -> v[2] = booking.store
      [] v[1] = "overview"    -> booking.store # None
      [] OTHER                -> TRUE

\* What the view's query finds now; dashboards have the latest bookings in them.
Face(v) == IF Concerns(v) /\ booking.st \in Scope[v[1]] THEN booking ELSE Blank

\* Views of one booking are not cached when there is none to show.
Single == {"userDetail", "active", "ride", "leg", "storeDetail"}

(* Requests. *)

AtRest == [do |-> "idle", view |-> <<"none", None>>, face |-> Blank, old |-> FALSE,
         left |-> {}, look |-> FALSE]

Documents == [st: Known \cup {"none"}, pickup: Drivers \cup {None},
             delivery: Drivers \cup {None}, store: Stores \cup {None}]

Requests == [do: {"idle", "read", "write"}, view: Views \cup {<<"none", None>>}, face: Documents,
             old: BOOLEAN, left: SUBSET Views, look: BOOLEAN]

Finish(k) == IF k.left = {} /\ ~k.look THEN AtRest ELSE k

ViewsInit ==
    /\ booking = Blank
    /\ cached = <<>>
    /\ request = [h \in Handlers |-> AtRest]
    /\ by = None
    /\ late = {} /\ missed = {} /\ moved = {}
    /\ reads = 0 /\ asks = 0 /\ losses = 0

(* Readers. *)

\* A miss: the view is looked up in MongoDB ...
Read(h, v) ==
    /\ request[h] = AtRest /\ reads < MaxReads /\ v \notin DOMAIN cached
    /\ reads' = reads + 1
    /\ request' = [request EXCEPT ![h] = [AtRest EXCEPT !.do = "read", !.view = v, !.face = Face(v)]]
    /\ UNCHANGED <<booking, cached, by, history, asks, losses>>

\* ... and cached.
Fill(h) ==
    /\ request[h].do = "read"
    /\ LET k == request[h] IN
       IF k.face = Blank /\ k.view[1] \in Single
       THEN UNCHANGED <<cached, history>>
       ELSE /\ cached' = [v \in DOMAIN cached \cup {k.view} |->
                            IF v = k.view THEN k.face ELSE cached[v]]
            /\ late' = IF k.old THEN late \cup {k.view} ELSE late \ {k.view}
            /\ missed' = missed \ {k.view} /\ moved' = moved \ {k.view}
    /\ request' = [request EXCEPT ![h] = AtRest]
    /\ UNCHANGED <<booking, by, counts>>

GetMyBookings(h)      == Read(h, <<"userList", "user">>)
GetBookingById(h)     == Read(h, <<"userDetail", "user">>)
GetActiveBookings(h)  == Read(h, <<"userActive", "user">>)
GetBookingHistory(h)  == Read(h, <<"userHistory", "user">>)
GetBookings(h)        == Read(h, <<"adminList", "admin">>)
AssignedRides(h, d)   == Read(h, <<"assigned", d>>)
ActiveRide(h, d)      == Read(h, <<"active", d>>)
RideDetails(h, d)     == Read(h, <<"ride", d>>) \/ Read(h, <<"leg", d>>)
RideHistory(h, d)     == Read(h, <<"past", d>>)
IncomingBookings(h, s) == Read(h, <<"incoming", s>>)
KeptBookings(h, s)     == Read(h, <<"kept", s>>)
ReturnParcels(h, s)    == Read(h, <<"returning", s>>)
BookingDetail(h, s)    == Read(h, <<"storeDetail", s>>)
StoreHistory(h, s)     == Read(h, <<"storePast", s>>)
Dashboard(h, s)        == Read(h, <<"dashboard", s>>)
OwnerDashboard(h)      == Read(h, <<"overview", "owner">>)

Forget(vs) ==
    /\ cached' = [v \in DOMAIN cached \ vs |-> cached[v]]
    /\ late' = late \ vs /\ missed' = missed \ vs /\ moved' = moved \ vs

\* A key's time to live is over; setCache has one for callers whose constant is
\* undefined, as those of the ride's detail, the rides' history and the parcels are.
Expire ==
    /\ \E v \in DOMAIN cached : Forget({v})
    /\ UNCHANGED <<booking, request, by, counts>>

(* What is dropped. *)

OfUser == UserKinds \X {"user"}

OfStore(s) == IF s = None THEN {} ELSE StoreKinds \X {s}

\* invalidateStoreBookingCache, or, with no store known, the lists of all stores;
\* owners' dashboards, here of one owner, go either way.
StoreDrops(s) ==
    {<<"overview", "owner">>}
        \cup IF s # None THEN OfStore(s) ELSE (StoreKinds \ {"storeDetail"}) \X Stores

\* invalidateBookingCache: of the drivers it is told, only the active ride.
CoreDrops(ds, s) ==
    OfUser \cup {<<"adminList", "admin">>} \cup ({"active"} \X (ds \ {None})) \cup StoreDrops(s)

\* invalidateDriverCache.  The history is cached under a key it does not know,
\* and the detail under the name a leg goes by.
DriverDrops(d) == IF d = None THEN {} ELSE {"active", "assigned", "ride"} \X {d}

\* Mutant of HelperDrops: the booking's store is not looked up.
HelperDropsBroad == CoreDrops({booking.pickup, booking.delivery}, None)

\* The booking helper's invalidateBookingCache looks up whom the booking names.
HelperDrops == CoreDrops({booking.pickup, booking.delivery}, booking.store)

Look(h) ==
    /\ request[h].look
    /\ request' = [request EXCEPT ![h] =
                      [@ EXCEPT !.look = FALSE, !.left = request[h].left \cup HelperDrops]]
    /\ UNCHANGED <<booking, cached, by, history, counts>>

\* All that is known so far goes; the view of a reader comes before it or after.
Drop(h) ==
    /\ request[h].left # {}
    /\ Forget(request[h].left)
    /\ request' = [request EXCEPT ![h] = IF @.look THEN [@ EXCEPT !.left = {}] ELSE AtRest]
    /\ UNCHANGED <<booking, by, counts>>

\* deleteCache and deleteByPattern report no error, and a crash leaves the rest.
Lose(h) ==
    /\ request[h].do = "write" /\ losses < MaxLoss
    /\ losses' = losses + 1
    /\ missed' = missed \cup (DOMAIN cached \cap IF request[h].look THEN Views ELSE request[h].left)
    /\ request' = [request EXCEPT ![h] = AtRest]
    /\ UNCHANGED <<booking, cached, by, late, moved, reads, asks>>

(* Writers. *)

\* The booking changes; what was read of it so far is of the past.
Write(h, new, d, drops, look) ==
    /\ request[h] = AtRest
    /\ booking' = new /\ by' = d
    /\ request' = [g \in Handlers |->
            IF g = h THEN Finish([AtRest EXCEPT !.do = "write", !.left = drops, !.look = look])
            ELSE IF request[g].do = "read" THEN [request[g] EXCEPT !.old = TRUE]
            ELSE request[g]]
    /\ UNCHANGED <<cached, late, reads, losses>>

Plain == UNCHANGED <<missed, moved, asks>>

In(st) == [booking EXCEPT !.st = st]

\* Mutant of EndpointDrops: the endpoint drops what the others see.
EndpointDropsOthers(d) == {}

EndpointDrops(d) == DriverDrops(d)

\* A driver's endpoint under /rides.
Endpoint(h, d, new) == Write(h, new, d, EndpointDrops(d), TRUE) /\ Plain

\* A write nobody announces: every view that is cached is left as it was.
Unannounced(h, new, d) ==
    /\ Write(h, new, d, {}, FALSE)
    /\ missed' = missed \cup DOMAIN cached /\ UNCHANGED moved

OnPickup(h, d, from, to) ==
    booking.st = from /\ booking.pickup = d /\ Endpoint(h, d, In(to))

OnDelivery(h, d, from, to) ==
    booking.st \in from /\ booking.delivery = d /\ Endpoint(h, d, In(to))

\* There is a leg to accept, and what the booking is with the driver on it.
Acceptable ==
    \/ booking.st = "store_assigned" /\ booking.pickup = None
    \/ booking.st \in AwaitingReturn /\ booking.delivery = None

AcceptedBy(d) ==
    IF booking.st = "store_assigned"
    THEN [booking EXCEPT !.st = "driver_assigned", !.pickup = d]
    ELSE [booking EXCEPT !.st = "return_driver_assigned", !.delivery = d]

RideAccepted(h, d) == Acceptable /\ Endpoint(h, d, AcceptedBy(d))

\* The same leg taken over /bookings/:id/accept or the socket: neither drops a view.
BookingAccepted(h, d) ==
    Acceptable /\ Unannounced(h, AcceptedBy(d), d) /\ UNCHANGED asks

ArrivedAtPickup(h, d)         == OnPickup(h, d, "driver_assigned", "driver_arrived")
PickupCompleted(h, d)         == OnPickup(h, d, "driver_arrived", "picked_up")
ArrivedAtStore(h, d)          == OnPickup(h, d, "picked_up", "at_store")
ArrivedAtStoreForReturn(h, d) == OnDelivery(h, d, {"return_driver_assigned"}, "return_driver_assigned")
HandoverCompleted(h, d)       == OnDelivery(h, d, {"return_driver_assigned"}, "out_for_return")
ArrivedAtUserReturn(h, d)     == OnDelivery(h, d, {"out_for_return"}, "arrived_for_delivery")
DeliveryCompleted(h, d) ==
    OnDelivery(h, d, {"out_for_return", "arrived_for_delivery"}, "delivered")

\* The store drops all stores' lists, its own views, and the driver's.
StoredConfirmed(h) ==
    /\ booking.st = "at_store"
    /\ Write(h, In("stored"), booking.pickup,
             CoreDrops({}, None) \cup StoreDrops(booking.store) \cup DriverDrops(booking.pickup), FALSE)
    /\ Plain

\* Others drop what the helper drops.
Helped(h, new) == Write(h, new, None, {}, TRUE) /\ Plain

\* The booking is new: nothing of it is dropped by name.
PickupScheduled(h) ==
    /\ booking.st = "none"
    /\ Write(h, In("payment_pending"), None, CoreDrops({}, None) \ {<<"userDetail", "user">>}, FALSE)
    /\ Plain

PlacedIn(s) == [booking EXCEPT !.st = "store_assigned", !.store = s]

StoreAssigned(h) ==
    booking.st = "payment_pending" /\ \E s \in Stores : Helped(h, PlacedIn(s))

AutoCancelled(h) == booking.st \notin Terminal \cup {"none"} /\ Helped(h, In("cancelled"))

\* Mutant of CancelledByUser: its drops come before the commit.
CancelledByUserEarly(h) ==
    /\ booking.st \in {"payment_pending", "store_assigned", "driver_assigned"}
    /\ Write(h, In("cancelled"), None, {}, FALSE) /\ Plain

CancelledByUser(h) ==
    /\ booking.st \in {"payment_pending", "store_assigned", "driver_assigned"}
    /\ Helped(h, In("cancelled"))

ReturnRequested(h) ==
    /\ booking.st = "stored"
    /\ \E st \in {"return_requested", "final_payment_pending"} : Helped(h, In(st))

ReturnPaidFor(h) == booking.st = "final_payment_pending" /\ Helped(h, In("final_payment_captured"))

\* It is written without a look at the status; a driver who has accepted by now
\* is off the booking when the helper looks for him.
AssignmentNulled(h) ==
    /\ booking.st \in AwaitingReturn \cup {"return_driver_assigned"}
    /\ Write(h, [booking EXCEPT !.delivery = None], None, {}, TRUE)
    /\ missed' = missed \cup (DOMAIN cached \cap ({"active"} \X {booking.delivery}))
    /\ UNCHANGED <<moved, asks>>

(* Administrators. *)

Ask == asks < MaxAsks /\ asks' = asks + 1

\* They drop what the booking named before the write, and whom they add.
Ordered(h, new, ds) ==
    /\ Ask
    /\ Write(h, new, None, CoreDrops({booking.pickup, booking.delivery} \cup ds, booking.store), FALSE)
    /\ UNCHANGED <<missed, moved>>

Returning == AwaitingReturn \cup DeliveryLeg

Open == booking.st \notin Terminal \cup {"none"}

LegDriver == IF booking.st \in Returning THEN booking.delivery ELSE booking.pickup

WithDriver(d) ==
    IF booking.st \in Returning
    THEN [booking EXCEPT !.st = "return_driver_assigned", !.delivery = d]
    ELSE [booking EXCEPT !.st = "driver_assigned", !.pickup = d]

DriverAssigned(h, d) == Open /\ LegDriver # d /\ Ordered(h, WithDriver(d), {d})

Researched ==
    IF booking.st \in Returning
    THEN [booking EXCEPT !.st = "final_payment_captured", !.delivery = None]
    ELSE [booking EXCEPT !.st = "store_assigned", !.pickup = None]

\* Back to the search: nothing is dropped if there was no driver.
SearchedAgain(h) ==
    /\ Open
    /\ IF LegDriver # None THEN Ordered(h, Researched, {})
       ELSE Ask /\ Unannounced(h, Researched, None)

\* Without the drivers of the booking, which it did not read.
ReturnDriverAssigned(h, d) ==
    /\ Ask /\ booking.st \in AwaitingReturn
    /\ Write(h, [booking EXCEPT !.st = "return_driver_assigned", !.delivery = d], None,
             CoreDrops({d}, booking.store), FALSE)
    /\ UNCHANGED <<missed, moved>>

\* Both calls drop the old store's views: the document's store comes first.
StoreReassigned(h, s) ==
    /\ Ask /\ booking.st = "store_assigned" /\ booking.store # s
    /\ Write(h, [booking EXCEPT !.store = s], None, CoreDrops({}, booking.store), FALSE)
    /\ moved' = IF booking.store = None THEN moved ELSE moved \cup (DOMAIN cached \cap OfStore(s))
    /\ UNCHANGED missed

ForceCancelled(h) == Open /\ Ordered(h, In("cancelled"), {})

\* The table of statuses, of those an administrator pushes a booking through.
Pushes == {<<"driver_assigned", "driver_arrived">>, <<"driver_arrived", "picked_up">>,
           <<"picked_up", "stored">>, <<"at_store", "stored">>, <<"return_requested", "stored">>,
           <<"final_payment_captured", "stored">>, <<"stored", "return_requested">>,
           <<"arrived_for_delivery", "delivered">>}

Pushed(h) == \E to \in Known : <<booking.st, to>> \in Pushes /\ Ordered(h, In(to), {})

\* The driver taken off loses his views with the others' that the helper drops.
CriticallyCancelled(h) ==
    /\ Ask /\ booking.st \notin Over \cup {"none"}
    /\ LET return == booking.delivery # None \/ booking.st \in {"out_for_return", "arrived_for_delivery"}
           d == IF return THEN booking.delivery ELSE booking.pickup
           new == IF return THEN [booking EXCEPT !.delivery = None] ELSE [booking EXCEPT !.pickup = None] IN
       Write(h, [new EXCEPT !.st = "driver_cancelled_critical"], None, DriverDrops(d), TRUE)
    /\ UNCHANGED <<missed, moved>>

(* The whole. *)

Reader(h) ==
    \/ GetMyBookings(h) \/ GetBookingById(h) \/ GetActiveBookings(h) \/ GetBookingHistory(h)
    \/ GetBookings(h) \/ OwnerDashboard(h)
    \/ \E d \in Drivers : AssignedRides(h, d) \/ ActiveRide(h, d) \/ RideDetails(h, d) \/ RideHistory(h, d)
    \/ \E s \in Stores : \/ IncomingBookings(h, s) \/ KeptBookings(h, s) \/ ReturnParcels(h, s)
                         \/ BookingDetail(h, s) \/ StoreHistory(h, s) \/ Dashboard(h, s)

Driver(h, d) ==
    \/ RideAccepted(h, d) \/ BookingAccepted(h, d) \/ ArrivedAtPickup(h, d) \/ PickupCompleted(h, d)
    \/ ArrivedAtStore(h, d) \/ ArrivedAtStoreForReturn(h, d) \/ HandoverCompleted(h, d) \/ ArrivedAtUserReturn(h, d)
    \/ DeliveryCompleted(h, d)

Other(h) ==
    \/ PickupScheduled(h) \/ StoreAssigned(h) \/ AutoCancelled(h) \/ CancelledByUser(h) \/ StoredConfirmed(h)
    \/ ReturnRequested(h) \/ ReturnPaidFor(h) \/ AssignmentNulled(h)

Admin(h) ==
    \/ SearchedAgain(h) \/ ForceCancelled(h) \/ Pushed(h) \/ CriticallyCancelled(h)
    \/ \E d \in Drivers : DriverAssigned(h, d) \/ ReturnDriverAssigned(h, d)
    \/ \E s \in Stores : StoreReassigned(h, s)

ViewsNext ==
    \/ \E h \in Handlers :
        \/ Reader(h) \/ Fill(h) \/ Look(h) \/ Drop(h) \/ Lose(h) \/ Other(h) \/ Admin(h)
        \/ \E d \in Drivers : Driver(h, d)
    \/ Expire

ViewsSpec == ViewsInit /\ [][ViewsNext]_viewVars

(* Properties. *)

\* Every variable keeps its shape, and only a writer has views to drop.
ViewsTypeOK ==
    /\ booking \in Documents
    /\ DOMAIN cached \subseteq Views
    /\ request \in [Handlers -> Requests]
    /\ \A h \in Handlers : request[h].do # "write" => request[h].left = {} /\ ~request[h].look
    /\ by \in Drivers \cup {None}
    /\ late \cup missed \subseteq Views /\ moved \subseteq StoreKinds \X Stores

\* A view that is cached shows what its query would find.
Right(v) == v \in DOMAIN cached => cached[v] = Face(v)

\* It has been cached across a write, a drop is due or was lost, or it was cached
\* when a write came that drops nothing: a driver's acceptance over the booking
\* endpoint or the socket, or a search an administrator starts with no driver on.
Excused(v) ==
    \/ v \in late \cup missed
    \/ \E h \in Handlers : request[h].look \/ v \in request[h].left

\* Once a handler is done, the customer and the administrators are shown the
\* booking as it is, whoever changed it (invalidateBookingCache); what was cached
\* before an acceptance that drops nothing is not, until it expires or is dropped.
CustomerSeesPresent ==
    \A v \in OfUser \cup {<<"adminList", "admin">>} : Right(v) \/ Excused(v)

\* So are the stores, but the one an administrator moves a booking to, and their
\* owner; an acceptance that drops nothing leaves their lists, too, as they were.
StoresSeePresent ==
    \A v \in (StoreKinds \X Stores) \cup {<<"overview", "owner">>} :
        Right(v) \/ Excused(v) \/ v \in moved

\* A driver's active ride is, whoever changed it, as it is; his list of rides and
\* the ride's detail are after a write of his own or the store's confirmation, if
\* it was not an acceptance over the booking endpoint or the socket.
DriversSeePresent ==
    /\ \A d \in Drivers : Right(<<"active", d>>) \/ Excused(<<"active", d>>)
    /\ by # None => \A k \in {"assigned", "ride"} : Right(<<k, by>>) \/ Excused(<<k, by>>)

(* The inductive invariant behind them. *)

\* Whom the helper drops: those the booking names when it looks.
Due(v) ==
    \/ v \in late \cup missed
    \/ \E h \in Handlers : v \in request[h].left \/ (request[h].look /\ v \in HelperDrops)

Shown(v) == Right(v) \/ Due(v) \/ v \in moved

\* The views someone drops, whoever wrote.
KeptViews ==
    OfUser \cup {<<"adminList", "admin">>, <<"overview", "owner">>}
        \cup (StoreKinds \X Stores) \cup ({"active"} \X Drivers)

KeptShown == \A v \in KeptViews : Shown(v)

LastShown == by # None => \A k \in {"assigned", "ride"} : Shown(<<k, by>>)

\* A reader who was not overtaken by a write has read what is there.
ReadIsFresh ==
    \A h \in Handlers :
        request[h].do = "read" =>
            /\ request[h].view \in Views
            /\ ~request[h].old => request[h].face = Face(request[h].view)

NoBlank == \A v \in DOMAIN cached : v[1] \in Single => cached[v] # Blank

\* A booking that is not paid has no store, and nobody who has yet to look.
Unpaid ==
    booking.st \in {"none", "payment_pending"} =>
        booking.store = None /\ \A h \in Handlers : ~request[h].look

NoEarlyDelivery == booking.delivery # None => booking.st \in DeliveryLeg \cup Terminal

ViewsInv == KeptShown /\ LastShown /\ ReadIsFresh /\ NoBlank /\ Unpaid /\ NoEarlyDelivery

==============================================================================
