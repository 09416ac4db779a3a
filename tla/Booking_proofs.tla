----------------------------- MODULE Booking_proofs -----------------------------
(* Proofs about BookingCore, about BookingAdmin on top of it, and about         *)
(* BookingViews, for every value of their constants: their types; that a driver *)
(* has one trip at a time and is offered none while he is on one,               *)
(* administrators or not; that a store's counter covers what it holds and no    *)
(* store is overbooked, likewise; without administrators, that the store's own  *)
(* hand-over endpoint is never open and that only a stale write takes a booking *)
(* off the declared table of transitions; and what the cached views show.       *)
EXTENDS BookingAdmin, BookingViews, FiniteSetTheorems, TLAPS

------------------------------------------------------------------------------
(* Types. *)

\* At the start every document, key and handler has its shape, ...
LEMMA TypeInit == Init => TypeOK
  BY MaxCrashAssumption DEF Init, TypeOK, Status, Continuation

\* ... and one step of any handler keeps it.
LEMMA TypeStep == ASSUME TypeOK, [Next]_vars PROVE TypeOK'
  <2> USE MaxCrashAssumption
  <2> USE DEF TypeOK, Status, PickupLeg, DeliveryLeg, places, rides, market, jobs, Arm, Move
  <2>1. ASSUME NEW h \in Handlers, NEW b \in Bookings, SchedulePickup(h, b)
         PROVE  TypeOK'
    BY <2>1 DEF SchedulePickup, Begin, Continue, Blind, End, Continuation, Idle,
       Steps, RideSteps, RideWrites
  <2>2. ASSUME NEW b \in Bookings, AssignStore(b) PROVE TypeOK'
    BY <2>2 DEF AssignStore
  <2>3. ASSUME NEW b \in Bookings, CancelUnseen(b) PROVE TypeOK'
    BY <2>3 DEF CancelUnseen, AutoCancel, CountAfterRelease
  <2>4. ASSUME NEW b \in Bookings, RetryPayment(b) PROVE TypeOK'
    BY <2>4 DEF RetryPayment
  <2>5. ASSUME NEW b \in Bookings, OfferEnds(b) PROVE TypeOK'
    BY <2>5 DEF OfferEnds
  <2>6. ASSUME NEW b \in Bookings, ReturnPaid(b) PROVE TypeOK'
    BY <2>6 DEF ReturnPaid, HandlersAfterSave, At, Continuation, Idle, Steps, RideSteps,
       RideWrites
  <2>7. ASSUME NEW b \in Bookings, ArriveAtPickup(b) PROVE TypeOK'
    BY <2>7 DEF ArriveAtPickup, Arrive
  <2>8. ASSUME NEW b \in Bookings, ArriveAtStore(b) PROVE TypeOK'
    BY <2>8 DEF ArriveAtStore, Arrive
  <2>9. ASSUME NEW b \in Bookings, ArriveAtStoreForReturn(b) PROVE TypeOK'
    BY <2>9 DEF ArriveAtStoreForReturn, Arrive
  <2>10. ASSUME NEW b \in Bookings, ArriveAtUserReturn(b) PROVE TypeOK'
    BY <2>10 DEF ArriveAtUserReturn, Arrive
  <2>11. ASSUME NEW h \in Handlers, WriteOffer(h) PROVE TypeOK'
    BY <2>11 DEF WriteOffer, NoteDriver, At, End, Continuation, Idle, Steps, RideSteps,
       RideWrites
  <2>12. ASSUME NEW h \in Handlers, NEW b \in Bookings, NEW d \in Drivers,
                AcceptBookingOffer(h, b, d)
         PROVE  TypeOK'
    BY <2>12 DEF AcceptBookingOffer, Accepting, NoteDriver, TakePickup, TakeDelivery,
       AwaitingReturn, SetOnTrip, End, Continuation, Idle, Steps, RideSteps, RideWrites
  <2>13. ASSUME NEW h \in Handlers, NEW b \in Bookings, ExpiryJob(h, b)
         PROVE  TypeOK'
    BY <2>13 DEF ExpiryJob, Begin, Continue, Blind, End, Continuation, Idle, Steps,
       RideSteps, RideWrites
  <2>14. ASSUME NEW h \in Handlers, NEW b \in Bookings, PickupSearchFailed(h, b)
         PROVE  TypeOK'
    BY <2>14 DEF PickupSearchFailed, Begin, Continue, Blind, End, Continuation, Idle,
       Steps, RideSteps, RideWrites
  <2>15. ASSUME NEW h \in Handlers, NEW b \in Bookings, CancelByUser(h, b)
         PROVE  TypeOK'
    BY <2>15 DEF CancelByUser, CountAfterRelease, Begin, Continue, Blind, End,
       Continuation, Idle, Steps, RideSteps, RideWrites
  <2>16. ASSUME NEW h \in Handlers, NEW b \in Bookings, ReturnSearchFailed(h, b)
         PROVE  TypeOK'
    BY <2>16 DEF ReturnSearchFailed, Begin, Continue, Blind, End, Continuation, Idle,
       Steps, RideSteps, RideWrites
  <2>17. ASSUME NEW h \in Handlers, NEW b \in Bookings, ConfirmStored(h, b)
         PROVE  TypeOK'
    BY <2>17 DEF ConfirmStored, Begin, Continue, Blind, End, Continuation, Idle, Steps,
       RideSteps, RideWrites
  <2>18. ASSUME NEW h \in Handlers, NEW b \in Bookings, RequestReturn(h, b)
         PROVE  TypeOK'
    BY <2>18 DEF RequestReturn, Begin, Continue, Blind, End, Continuation, Idle, Steps,
       RideSteps, RideWrites
  <2>19. ASSUME NEW h \in Handlers, NEW b \in Bookings, NEW d \in Drivers,
                AcceptRide(h, b, d)
         PROVE  TypeOK'
    BY <2>19 DEF AcceptRide, Accepting, NoteDriver, TakePickup, TakeDelivery, Continue, Blind,
       Continuation, Idle, Steps, RideSteps, RideWrites
  <2>20. ASSUME NEW h \in Handlers, NEW b \in Bookings, NEW d \in Drivers,
                NEW step \in RideSteps, BeginRideStep(h, step, b, d)
         PROVE  TypeOK'
    BY <2>20 DEF BeginRideStep, Begin, Continue, Blind, End, Continuation, Idle, Steps,
       RideSteps, RideWrites
  <2>21. ASSUME NEW h \in Handlers, CancelDecided(h) PROVE TypeOK'
    BY <2>21 DEF CancelDecided, AutoCancel, CountAfterRelease, At, Begin, Continue, Blind,
       End, Continuation, Idle, Steps, RideSteps, RideWrites
  <2>22. ASSUME NEW h \in Handlers, ClaimDriver(h) PROVE TypeOK'
    BY <2>22 DEF ClaimDriver, SetOnTrip, At, Begin, Continue, Blind, End, Continuation,
       Idle, Steps, RideSteps, RideWrites
  <2>23. ASSUME NEW h \in Handlers, NullAssignment(h) PROVE TypeOK'
    BY <2>23 DEF NullAssignment, NoteWrite, At, Begin, Continue, Blind, End, Continuation,
       Idle, Steps, RideSteps, RideWrites
  <2>24. ASSUME NEW h \in Handlers, TerminalGuard(h) PROVE TypeOK'
    BY <2>24 DEF TerminalGuard, WriteOf, At, Begin, Continue, Blind, End, Continuation,
       Idle, Steps, RideSteps, RideWrites
  <2>25. ASSUME NEW h \in Handlers, WriteRideStep(h) PROVE TypeOK'
    BY <2>25 DEF WriteRideStep, NoteWrite, Target, At, Begin, Continue, Blind, End,
       Continuation, Idle, Steps, RideSteps, RideWrites
  <2>26. ASSUME NEW h \in Handlers, ReleaseDriver(h) PROVE TypeOK'
    <3>1. handler' \in [Handlers -> Continuation]
      BY <2>26 DEF ReleaseDriver, At, End, Continuation, Idle,
               Steps, RideSteps, RideWrites
    <3>2. UNCHANGED <<status, places, rides, offer, crossed, jobs, stale, crashes>>
      BY <2>26 DEF ReleaseDriver
    <3>3. onTrip' \in [Drivers -> BOOLEAN]
      BY <2>26 DEF ReleaseDriver
    <3>. QED BY <3>1, <3>2, <3>3
  <2>27. ASSUME NEW h \in Handlers, CountStored(h) PROVE TypeOK'
    <3>1. handler' \in [Handlers -> Continuation]
      BY <2>27 DEF CountStored, At, End, Continuation, Idle,
               Steps, RideSteps, RideWrites
    <3>2. count' \in [Stores -> Nat]
      <4>1. \A s \in Stores : count[s] + 1 \in Nat
        OBVIOUS
      <4>. QED BY <2>27, <4>1 DEF CountStored
    <3>3. UNCHANGED <<status, storeOf, rides, market, jobs, stale, crashes>>
      BY <2>27 DEF CountStored
    <3>. QED BY <3>1, <3>2, <3>3
  <2>28. ASSUME NEW h \in Handlers, SaveReturn(h) PROVE TypeOK'
    BY <2>28 DEF SaveReturn, HandlersAfterSave, QuotedStatus, NoteWrite, At, Begin, Continue, Blind, End,
       Continuation, Idle, Steps, RideSteps, RideWrites, AwaitingReturn, Status,
       DeliveryLeg, PickupLeg
  <2>29. ASSUME NEW h \in Handlers, Crash(h) PROVE TypeOK'
    BY <2>29 DEF Crash, At, Begin, Continue, Blind, End, Continuation, Idle, Steps,
       RideSteps, RideWrites
  <2>30. CASE UNCHANGED vars
    BY <2>30 DEF vars
  <2>31. ASSUME NEW h \in Handlers, ArmExpiry(h) PROVE TypeOK'
    BY <2>31 DEF ArmExpiry, At, End, Continuation, Idle, Steps, RideSteps, RideWrites
  <2>32. ASSUME NEW h \in Handlers, NEW b \in Bookings, NEW d \in Drivers,
                LookAtDriver(h, b, d)
         PROVE  TypeOK'
    BY <2>32 DEF LookAtDriver, Begin, Continue, Blind, Continuation, Idle, Steps,
       RideSteps, RideWrites
  <2>33. ASSUME NEW h \in Handlers, NEW b \in Bookings, NEW d \in Drivers,
                ReadOffer(h, b, d)
         PROVE  TypeOK'
    BY <2>33 DEF ReadOffer, Begin, Continue, Blind, Continuation, Idle, Steps,
       RideSteps, RideWrites
  <2>34. ASSUME NEW h \in Handlers, AcceptFails(h) PROVE TypeOK'
    BY <2>34 DEF AcceptFails, At, End, Continuation, Idle, Steps, RideSteps, RideWrites
  <2>. QED
    BY <2>1, <2>2, <2>3, <2>4, <2>5, <2>6, <2>7, <2>8, <2>9, <2>10, <2>11, <2>12,
       <2>13, <2>14, <2>15, <2>16, <2>17, <2>18, <2>19, <2>20, <2>21, <2>22, <2>23,
       <2>24, <2>25, <2>26, <2>27, <2>28, <2>29, <2>30, <2>31,
       <2>32, <2>33, <2>34
       DEF Next, Continuations, Accepts

\* Type correctness: whatever the interleaving of requests, jobs and crashes,
\* every document, key and handler of BookingCore keeps its shape.
THEOREM TypeCorrect == Spec => []TypeOK
BY TypeInit, TypeStep, PTL DEF Spec

------------------------------------------------------------------------------
(* Drivers: what a step does to the legs, flags, offers, claims and releases. *)

\* The drivers of F are about to be released by administrators, all others are
\* only taken off by BookingCore.
Market(F) == MarketInv /\ \A d \in F : BetweenTrips(d)

\* A step after which no driver has a new leg, flag, offer, claim or release.
Quiet ==
    /\ \A d \in Drivers, b \in Bookings : OnLeg(d, b)' => OnLeg(d, b)
    /\ onTrip' = onTrip
    /\ \A d \in Drivers, b \in Bookings : (offer[b] = d)' => offer[b] = d
    /\ \A d \in Drivers, h \in Handlers :
          /\ Claims(h, d)' <=> Claims(h, d)
          /\ Claims(h, d) => handler'[h].b = handler[h].b
          /\ Releases(h, d)' <=> Releases(h, d)

\* ... keeps what is known of the drivers.
LEMMA QuietStep ==
    ASSUME NEW F \in SUBSET Drivers, Market(F), Quiet PROVE Market(F)'
<1> USE DEF Quiet, MarketInv
<1>0. MarketInv
  BY DEF Market
<1>1. OneLeg' /\ OneOffer' /\ OneClaim' /\ OneRelease'
  BY <1>0 DEF OneLeg, OneOffer, OneClaim, OneRelease
<1>2. LegMarked'
  BY <1>0 DEF LegMarked
<1>3. OfferedUnmarked' /\ ClaimUnmarked' /\ ClaimKeepsOffer'
  BY <1>0 DEF OfferedUnmarked, ClaimUnmarked, ClaimKeepsOffer
<1>4. ReleaseAfterLeg'
  BY <1>0 DEF ReleaseAfterLeg, Claiming
<1>5. \A d \in F : BetweenTrips(d)'
  BY DEF Market, BetweenTrips, Claiming
<1>. QED BY <1>1, <1>2, <1>3, <1>4, <1>5 DEF Market

\* Driver d leaves booking b and handler h is left to release him.
LegEnds(h, d, b) ==
    /\ OnLeg(d, b) /\ ~OnLeg(d, b)'
    /\ \A e \in Drivers, c \in Bookings : OnLeg(e, c)' => OnLeg(e, c)
    /\ UNCHANGED market
    /\ \A e \in Drivers, g \in Handlers :
          /\ Claims(g, e)' <=> Claims(g, e)
          /\ Claims(g, e) => handler'[g].b = handler[g].b
          /\ Releases(g, e)' => (Releases(g, e) \/ (g = h /\ e = d))

\* ... which keeps what is known of the drivers too.
LEMMA LegEndStep ==
    ASSUME NEW F \in SUBSET Drivers, Market(F),
           NEW h \in Handlers, NEW d \in Drivers, NEW b \in Bookings, LegEnds(h, d, b)
    PROVE  Market(F)'
<1> USE DEF MarketInv, market, LegEnds
<1>0. MarketInv
  BY DEF Market
<1>1. OneLeg' /\ OneOffer' /\ OneClaim'
  BY <1>0 DEF OneLeg, OneOffer, OneClaim
<1>2. OneRelease'
  BY <1>0 DEF OneRelease, ReleaseAfterLeg
<1>3. LegMarked'
  BY <1>0 DEF LegMarked
<1>4. OfferedUnmarked' /\ ClaimUnmarked' /\ ClaimKeepsOffer'
  BY <1>0 DEF OfferedUnmarked, ClaimUnmarked, ClaimKeepsOffer
<1>5. ReleaseAfterLeg'
  BY <1>0 DEF ReleaseAfterLeg, Claiming, LegMarked, OneLeg
<1>6. \A e \in F : BetweenTrips(e)'
  BY DEF Market, BetweenTrips, Claiming
<1>. QED BY <1>1, <1>2, <1>3, <1>4, <1>5, <1>6 DEF Market

\* A driver who may accept is nowhere else.
LEMMA OfferedIsFree ==
    ASSUME MarketInv, NEW d \in Drivers, NEW b \in Bookings, offer[b] = d, ~Claiming(d)
    PROVE  /\ ~onTrip[d]
           /\ \A c \in Bookings : ~OnLeg(d, c)
           /\ \A h \in Handlers : ~Releases(h, d)
<1> USE DEF MarketInv
<1>1. ~onTrip[d]
  BY DEF OfferedUnmarked
<1>2. \A c \in Bookings : ~OnLeg(d, c)
  BY <1>1 DEF LegMarked, Claiming
<1>3. \A h \in Handlers : ~Releases(h, d)
  BY <1>1 DEF ReleaseAfterLeg
<1>. QED BY <1>1, <1>2, <1>3

\* At the start no driver is on a leg, offered anything or about to be released.
LEMMA DriverInit == Init => DriverInv
  BY NoneIsNobody
     DEF Init, DriverInv, SawRight, NoEarlyPickupDriver, NoEarlyDeliveryDriver, MarketInv,
         OneLeg, OneOffer, OneClaim, OneRelease, LegMarked, OfferedUnmarked, ClaimUnmarked,
         ClaimKeepsOffer, ReleaseAfterLeg, OnLeg, Claims, Releases, At, Idle, PickupLeg,
         DeliveryLeg

\* One step, of any handler, keeps the invariant as long as neither a crash
\* nor a stale write disturbs the booking, and the drivers of F stay where
\* they are: free of legs and marked, or about to be.
LEMMA DriverStep ==
    ASSUME TypeOK, [Next]_vars, Undisturbed, Undisturbed',
           DriverInv, NEW F \in SUBSET Drivers, \A d \in F : BetweenTrips(d)
    PROVE  DriverInv' /\ \A d \in F : BetweenTrips(d)'
  <2> SUFFICES ASSUME \A g \in Handlers : SawRight(g),
                      NoEarlyPickupDriver, NoEarlyDeliveryDriver, MarketInv, Market(F)
               PROVE  /\ \A g \in Handlers : SawRight(g)'
                      /\ NoEarlyPickupDriver' /\ NoEarlyDeliveryDriver'
                      /\ Market(F)'
    BY DEF DriverInv, Market
  <2> DEFINE Local == /\ \A g \in Handlers : SawRight(g)'
                      /\ NoEarlyPickupDriver' /\ NoEarlyDeliveryDriver'
  <2> USE NoneIsNobody
      DEF TypeOK, Status, PickupLeg, DeliveryLeg, Terminal, AwaitingReturn, Cancellable,
          DriverSearch, places, rides, market, Move, Begin, Continue, Blind, End, Continuation,
          Idle, Steps, RideSteps, RideWrites, At, Claims, Claiming, Releases, OnLeg,
          Undisturbed

  <2>1. ASSUME NEW h \in Handlers, NEW b \in Bookings, SchedulePickup(h, b)
        PROVE  Local /\ Market(F)'
    <3>1. \A g \in Handlers : SawRight(g)'
      BY <2>1 DEF SchedulePickup, SawRight
    <3>2. NoEarlyDeliveryDriver'
      BY <2>1 DEF SchedulePickup, NoEarlyDeliveryDriver, SawRight
    <3>3. NoEarlyPickupDriver'
      BY <2>1 DEF SchedulePickup, NoEarlyPickupDriver, SawRight
    <3>4. \A e \in Drivers, c \in Bookings : OnLeg(e, c)' => OnLeg(e, c)
      BY <2>1 DEF SchedulePickup, SawRight
    <3>5. Quiet
      BY <2>1, <3>4 DEF SchedulePickup, Quiet
    <3>6. Market(F)'
      BY <3>5, QuietStep
    <3>. QED BY <3>1, <3>2, <3>3, <3>6
  <2>2. ASSUME NEW b \in Bookings, AssignStore(b) PROVE Local /\ Market(F)'
    <3>1. \A g \in Handlers : SawRight(g)'
      BY <2>2 DEF AssignStore, SawRight
    <3>2. NoEarlyDeliveryDriver'
      BY <2>2 DEF AssignStore, NoEarlyDeliveryDriver, SawRight
    <3>3. NoEarlyPickupDriver'
      BY <2>2 DEF AssignStore, NoEarlyPickupDriver, SawRight
    <3>4. \A e \in Drivers, c \in Bookings : OnLeg(e, c)' => OnLeg(e, c)
      BY <2>2 DEF AssignStore, SawRight
    <3>5. Quiet
      BY <2>2, <3>4 DEF AssignStore, Quiet
    <3>6. Market(F)'
      BY <3>5, QuietStep
    <3>. QED BY <3>1, <3>2, <3>3, <3>6
  <2>3. ASSUME NEW b \in Bookings, CancelUnseen(b) PROVE Local /\ Market(F)'
    <3>1. \A g \in Handlers : SawRight(g)'
      BY <2>3 DEF CancelUnseen, AutoCancel, SawRight
    <3>2. NoEarlyDeliveryDriver'
      BY <2>3 DEF CancelUnseen, AutoCancel, NoEarlyDeliveryDriver, SawRight
    <3>3. NoEarlyPickupDriver'
      BY <2>3 DEF CancelUnseen, AutoCancel, NoEarlyPickupDriver, SawRight
    <3>4. \A e \in Drivers, c \in Bookings : OnLeg(e, c)' => OnLeg(e, c)
      BY <2>3 DEF CancelUnseen, AutoCancel, SawRight
    <3>5. Quiet
      BY <2>3, <3>4 DEF CancelUnseen, AutoCancel, Quiet
    <3>6. Market(F)'
      BY <3>5, QuietStep
    <3>. QED BY <3>1, <3>2, <3>3, <3>6
  <2>4. ASSUME NEW b \in Bookings, RetryPayment(b) PROVE Local /\ Market(F)'
    <3>1. \A g \in Handlers : SawRight(g)'
      BY <2>4 DEF RetryPayment, SawRight
    <3>2. NoEarlyDeliveryDriver'
      BY <2>4 DEF RetryPayment, NoEarlyDeliveryDriver, SawRight
    <3>3. NoEarlyPickupDriver'
      BY <2>4 DEF RetryPayment, NoEarlyPickupDriver, SawRight
    <3>4. \A e \in Drivers, c \in Bookings : OnLeg(e, c)' => OnLeg(e, c)
      BY <2>4 DEF RetryPayment, SawRight
    <3>5. Quiet
      BY <2>4, <3>4 DEF RetryPayment, Quiet
    <3>6. Market(F)'
      BY <3>5, QuietStep
    <3>. QED BY <3>1, <3>2, <3>3, <3>6
  <2>5. ASSUME NEW b \in Bookings, OfferEnds(b) PROVE Local /\ Market(F)'
    <3>1. \A g \in Handlers : SawRight(g)'
      BY <2>5 DEF OfferEnds, SawRight
    <3>2. NoEarlyDeliveryDriver'
      BY <2>5 DEF OfferEnds, NoEarlyDeliveryDriver, SawRight
    <3>3. NoEarlyPickupDriver'
      BY <2>5 DEF OfferEnds, NoEarlyPickupDriver, SawRight
    <3>4. \A e \in Drivers, c \in Bookings : OnLeg(e, c)' => OnLeg(e, c)
      BY <2>5 DEF OfferEnds, SawRight
    <3>5. Quiet
      BY <2>5, <3>4 DEF OfferEnds, Quiet
    <3>6. Market(F)'
      BY <3>5, QuietStep
    <3>. QED BY <3>1, <3>2, <3>3, <3>6
  <2>6. ASSUME NEW b \in Bookings, ReturnPaid(b) PROVE Local /\ Market(F)'
    <3>1. \A g \in Handlers : SawRight(g)'
      BY <2>6 DEF ReturnPaid, HandlersAfterSave, SawRight
    <3>2. NoEarlyDeliveryDriver'
      BY <2>6 DEF ReturnPaid, HandlersAfterSave, NoEarlyDeliveryDriver, SawRight
    <3>3. NoEarlyPickupDriver'
      BY <2>6 DEF ReturnPaid, HandlersAfterSave, NoEarlyPickupDriver, SawRight
    <3>4. \A e \in Drivers, c \in Bookings : OnLeg(e, c)' => OnLeg(e, c)
      BY <2>6 DEF ReturnPaid, HandlersAfterSave, SawRight
    <3>5. Quiet
      BY <2>6, <3>4 DEF ReturnPaid, HandlersAfterSave, Quiet
    <3>6. Market(F)'
      BY <3>5, QuietStep
    <3>. QED BY <3>1, <3>2, <3>3, <3>6
  <2>7. ASSUME NEW b \in Bookings, ArriveAtPickup(b) PROVE Local /\ Market(F)'
    <3>1. \A g \in Handlers : SawRight(g)'
      BY <2>7 DEF ArriveAtPickup, Arrive, SawRight
    <3>2. NoEarlyDeliveryDriver'
      BY <2>7 DEF ArriveAtPickup, Arrive, NoEarlyDeliveryDriver, SawRight
    <3>3. NoEarlyPickupDriver'
      BY <2>7 DEF ArriveAtPickup, Arrive, NoEarlyPickupDriver, SawRight
    <3>4. \A e \in Drivers, c \in Bookings : OnLeg(e, c)' => OnLeg(e, c)
      BY <2>7 DEF ArriveAtPickup, Arrive, SawRight
    <3>5. Quiet
      BY <2>7, <3>4 DEF ArriveAtPickup, Arrive, Quiet
    <3>6. Market(F)'
      BY <3>5, QuietStep
    <3>. QED BY <3>1, <3>2, <3>3, <3>6
  <2>8. ASSUME NEW b \in Bookings, ArriveAtStore(b) PROVE Local /\ Market(F)'
    <3>1. \A g \in Handlers : SawRight(g)'
      BY <2>8 DEF ArriveAtStore, Arrive, SawRight
    <3>2. NoEarlyDeliveryDriver'
      BY <2>8 DEF ArriveAtStore, Arrive, NoEarlyDeliveryDriver, SawRight
    <3>3. NoEarlyPickupDriver'
      BY <2>8 DEF ArriveAtStore, Arrive, NoEarlyPickupDriver, SawRight
    <3>4. \A e \in Drivers, c \in Bookings : OnLeg(e, c)' => OnLeg(e, c)
      BY <2>8 DEF ArriveAtStore, Arrive, SawRight
    <3>5. Quiet
      BY <2>8, <3>4 DEF ArriveAtStore, Arrive, Quiet
    <3>6. Market(F)'
      BY <3>5, QuietStep
    <3>. QED BY <3>1, <3>2, <3>3, <3>6
  <2>9. ASSUME NEW b \in Bookings, ArriveAtStoreForReturn(b)
        PROVE  Local /\ Market(F)'
    <3>1. \A g \in Handlers : SawRight(g)'
      BY <2>9 DEF ArriveAtStoreForReturn, Arrive, SawRight
    <3>2. NoEarlyDeliveryDriver'
      BY <2>9 DEF ArriveAtStoreForReturn, Arrive, NoEarlyDeliveryDriver, SawRight
    <3>3. NoEarlyPickupDriver'
      BY <2>9 DEF ArriveAtStoreForReturn, Arrive, NoEarlyPickupDriver, SawRight
    <3>4. \A e \in Drivers, c \in Bookings : OnLeg(e, c)' => OnLeg(e, c)
      BY <2>9 DEF ArriveAtStoreForReturn, Arrive, SawRight
    <3>5. Quiet
      BY <2>9, <3>4 DEF ArriveAtStoreForReturn, Arrive, Quiet
    <3>6. Market(F)'
      BY <3>5, QuietStep
    <3>. QED BY <3>1, <3>2, <3>3, <3>6
  <2>10. ASSUME NEW b \in Bookings, ArriveAtUserReturn(b) PROVE Local /\ Market(F)'
    <3>1. \A g \in Handlers : SawRight(g)'
      BY <2>10 DEF ArriveAtUserReturn, Arrive, SawRight
    <3>2. NoEarlyDeliveryDriver'
      BY <2>10 DEF ArriveAtUserReturn, Arrive, NoEarlyDeliveryDriver, SawRight
    <3>3. NoEarlyPickupDriver'
      BY <2>10 DEF ArriveAtUserReturn, Arrive, NoEarlyPickupDriver, SawRight
    <3>4. \A e \in Drivers, c \in Bookings : OnLeg(e, c)' => OnLeg(e, c)
      BY <2>10 DEF ArriveAtUserReturn, Arrive, SawRight
    <3>5. Quiet
      BY <2>10, <3>4 DEF ArriveAtUserReturn, Arrive, Quiet
    <3>6. Market(F)'
      BY <3>5, QuietStep
    <3>. QED BY <3>1, <3>2, <3>3, <3>6
  <2>11. ASSUME NEW h \in Handlers, WriteOffer(h) PROVE Local /\ Market(F)'
    <3>. DEFINE b == handler[h].b
                d == handler[h].d
    <3>0. b \in Bookings /\ d \in Drivers /\ MayOffer(b, d) /\ ~Claiming(d)
      <4>1. b \in Bookings /\ d \in Drivers \cup {None}
        BY <2>11 DEF WriteOffer
      <4>2. NoteDriver(b, d, MayOffer(b, d)) /\ crossed = {} /\ crossed' = {}
        BY <2>11 DEF WriteOffer
      <4>3. MayOffer(b, d) /\ ~Claiming(d)
        BY <4>1, <4>2 DEF NoteDriver
      <4>. QED BY <4>1, <4>3 DEF MayOffer, Unlocked
    <3>1. \A g \in Handlers : SawRight(g)'
      BY <2>11 DEF WriteOffer, SawRight
    <3>2. NoEarlyDeliveryDriver'
      BY <2>11 DEF WriteOffer, NoEarlyDeliveryDriver
    <3>3. NoEarlyPickupDriver'
      BY <2>11 DEF WriteOffer, NoEarlyPickupDriver
    <3>4. /\ UNCHANGED <<status, rides, onTrip>>
          /\ offer' = [offer EXCEPT ![b] = d]
          /\ \A g \in Handlers, e \in Drivers :
                /\ Claims(g, e)' <=> Claims(g, e)
                /\ Claims(g, e) => handler'[g].b = handler[g].b
                /\ Releases(g, e)' <=> Releases(g, e)
      BY <2>11 DEF WriteOffer
    <3>5. OneLeg' /\ OneClaim' /\ OneRelease'
      BY <3>4 DEF MarketInv, OneLeg, OneClaim, OneRelease
    <3>6. LegMarked' /\ ClaimUnmarked' /\ ReleaseAfterLeg'
      BY <3>4 DEF MarketInv, LegMarked, ClaimUnmarked, ReleaseAfterLeg
    <3>7. OneOffer' /\ OfferedUnmarked'
      BY <3>0, <3>4 DEF MayOffer, Unlocked, MarketInv, OneOffer, OfferedUnmarked
    <3>8. ClaimKeepsOffer'
      BY <3>0, <3>4 DEF MarketInv, ClaimKeepsOffer
    <3>9. \A e \in F : BetweenTrips(e)'
      BY <3>4 DEF Market, BetweenTrips
    <3>10. Market(F)'
      BY <3>5, <3>6, <3>7, <3>8, <3>9 DEF MarketInv, Market
    <3>. QED BY <3>1, <3>2, <3>3, <3>10
  <2>12. ASSUME NEW h \in Handlers, NEW b \in Bookings, NEW d \in Drivers,
                AcceptBookingOffer(h, b, d)
         PROVE  Local /\ Market(F)'
    <3>1. \A g \in Handlers : SawRight(g)'
      BY <2>12 DEF AcceptBookingOffer, Accepting, TakePickup, TakeDelivery, SetOnTrip, SawRight
    <3>2. NoEarlyDeliveryDriver'
      BY <2>12 DEF AcceptBookingOffer, Accepting, TakePickup, TakeDelivery, SetOnTrip,
         NoEarlyDeliveryDriver, SawRight
    <3>3. NoEarlyPickupDriver'
      BY <2>12 DEF AcceptBookingOffer, Accepting, TakePickup, TakeDelivery, SetOnTrip,
         NoEarlyPickupDriver, SawRight
    <3>0. offer[b] = d /\ ~Claiming(d)
      <4>1. NoteDriver(b, d, offer[b] = d) /\ crossed = {} /\ crossed' = {}
        BY <2>12 DEF AcceptBookingOffer, Accepting
      <4>. QED BY <4>1 DEF NoteDriver
    <3>4. /\ ~onTrip[d] /\ ~Claiming(d)
          /\ \A c \in Bookings : ~OnLeg(d, c)
          /\ \A g \in Handlers : ~Releases(g, d)
      BY <3>0, OfferedIsFree
    <3>5. \A e \in Drivers, c \in Bookings :
             OnLeg(e, c)' <=> OnLeg(e, c) \/ (e = d /\ c = b)
      BY <2>12 DEF AcceptBookingOffer, Accepting, TakePickup, TakeDelivery
    <3>6. OneLeg'
      BY <3>4, <3>5 DEF MarketInv, OneLeg
    <3>7. OneOffer' /\ OneClaim' /\ OneRelease'
      BY <2>12 DEF AcceptBookingOffer, Accepting, MarketInv, OneOffer, OneClaim, OneRelease
    <3>8. LegMarked'
      BY <2>12, <3>5 DEF AcceptBookingOffer, Accepting, SetOnTrip, MarketInv, LegMarked
    <3>9. OfferedUnmarked'
      <4>1. /\ offer' = [offer EXCEPT ![b] = None]
            /\ onTrip' = [onTrip EXCEPT ![d] = TRUE]
        BY <2>12 DEF AcceptBookingOffer, SetOnTrip
      <4>2. \A c \in Bookings : c # b => offer[c] # d
        BY <3>0 DEF MarketInv, OneOffer
      <4>. QED BY <4>1, <4>2 DEF MarketInv, OfferedUnmarked
    <3>10. ClaimUnmarked' /\ ClaimKeepsOffer'
      BY <2>12, <3>4 DEF AcceptBookingOffer, Accepting, SetOnTrip, MarketInv, ClaimUnmarked,
         ClaimKeepsOffer
    <3>11. ReleaseAfterLeg'
      BY <2>12, <3>4, <3>5 DEF AcceptBookingOffer, Accepting, SetOnTrip, MarketInv,
         ReleaseAfterLeg
    <3>12. \A e \in F : BetweenTrips(e)'
      <4> SUFFICES ASSUME NEW e \in F PROVE BetweenTrips(e)'
        OBVIOUS
      <4>1. BetweenTrips(e) /\ e # d
        BY <3>4 DEF Market, BetweenTrips
      <4>. QED BY <2>12, <3>5, <4>1 DEF AcceptBookingOffer, Accepting, SetOnTrip, BetweenTrips
    <3>13. Market(F)'
      BY <3>6, <3>7, <3>8, <3>9, <3>10, <3>11, <3>12 DEF MarketInv, Market
    <3>. QED BY <3>1, <3>2, <3>3, <3>13
  <2>13. ASSUME NEW h \in Handlers, NEW b \in Bookings, ExpiryJob(h, b)
         PROVE  Local /\ Market(F)'
    <3>1. \A g \in Handlers : SawRight(g)'
      BY <2>13 DEF ExpiryJob, SawRight
    <3>2. NoEarlyDeliveryDriver'
      BY <2>13 DEF ExpiryJob, NoEarlyDeliveryDriver, SawRight
    <3>3. NoEarlyPickupDriver'
      BY <2>13 DEF ExpiryJob, NoEarlyPickupDriver, SawRight
    <3>4. \A e \in Drivers, c \in Bookings : OnLeg(e, c)' => OnLeg(e, c)
      BY <2>13 DEF ExpiryJob, SawRight
    <3>5. Quiet
      BY <2>13, <3>4 DEF ExpiryJob, Quiet
    <3>6. Market(F)'
      BY <3>5, QuietStep
    <3>. QED BY <3>1, <3>2, <3>3, <3>6
  <2>14. ASSUME NEW h \in Handlers, NEW b \in Bookings, PickupSearchFailed(h, b)
         PROVE  Local /\ Market(F)'
    <3>1. \A g \in Handlers : SawRight(g)'
      BY <2>14 DEF PickupSearchFailed, SawRight
    <3>2. NoEarlyDeliveryDriver'
      BY <2>14 DEF PickupSearchFailed, NoEarlyDeliveryDriver, SawRight
    <3>3. NoEarlyPickupDriver'
      BY <2>14 DEF PickupSearchFailed, NoEarlyPickupDriver, SawRight
    <3>4. \A e \in Drivers, c \in Bookings : OnLeg(e, c)' => OnLeg(e, c)
      BY <2>14 DEF PickupSearchFailed, SawRight
    <3>5. Quiet
      BY <2>14, <3>4 DEF PickupSearchFailed, Quiet
    <3>6. Market(F)'
      BY <3>5, QuietStep
    <3>. QED BY <3>1, <3>2, <3>3, <3>6
  <2>15. ASSUME NEW h \in Handlers, NEW b \in Bookings, CancelByUser(h, b)
         PROVE  Local /\ Market(F)'
    <3>1. \A g \in Handlers : SawRight(g)'
      BY <2>15 DEF CancelByUser, SawRight
    <3>2. NoEarlyDeliveryDriver'
      BY <2>15 DEF CancelByUser, NoEarlyDeliveryDriver, SawRight
    <3>3. NoEarlyPickupDriver'
      BY <2>15 DEF CancelByUser, NoEarlyPickupDriver, SawRight
    <3>4. \A e \in Drivers, c \in Bookings : OnLeg(e, c)' => OnLeg(e, c)
      BY <2>15 DEF CancelByUser
    <3>5. ASSUME pickupDriver[b] = None PROVE Market(F)'
      BY <2>15, <3>4, <3>5, QuietStep DEF CancelByUser, Quiet
    <3>6. ASSUME pickupDriver[b] # None PROVE Market(F)'
      <4>1. PICK d \in Drivers : d = pickupDriver[b]
        BY <3>6
      <4>2. OnLeg(d, b) /\ ~OnLeg(d, b)'
        BY <2>15, <3>6, <4>1 DEF CancelByUser, NoEarlyPickupDriver
      <4>3. UNCHANGED market
        BY <2>15 DEF CancelByUser
      <4>4. \A e \in Drivers, g \in Handlers :
               /\ Claims(g, e)' <=> Claims(g, e)
               /\ Claims(g, e) => handler'[g].b = handler[g].b
               /\ Releases(g, e)' => (Releases(g, e) \/ (g = h /\ e = d))
        BY <2>15, <3>6, <4>1 DEF CancelByUser
      <4>5. LegEnds(h, d, b)
        BY <3>4, <4>2, <4>3, <4>4 DEF LegEnds
      <4>. QED BY <4>5, LegEndStep
    <3>7. Market(F)'
      BY <3>5, <3>6
    <3>. QED BY <3>1, <3>2, <3>3, <3>7
  <2>16. ASSUME NEW h \in Handlers, NEW b \in Bookings, ReturnSearchFailed(h, b)
         PROVE  Local /\ Market(F)'
    <3>1. \A g \in Handlers : SawRight(g)'
      BY <2>16 DEF ReturnSearchFailed, SawRight
    <3>2. NoEarlyDeliveryDriver'
      BY <2>16 DEF ReturnSearchFailed, NoEarlyDeliveryDriver, SawRight
    <3>3. NoEarlyPickupDriver'
      BY <2>16 DEF ReturnSearchFailed, NoEarlyPickupDriver, SawRight
    <3>4. \A e \in Drivers, c \in Bookings : OnLeg(e, c)' => OnLeg(e, c)
      BY <2>16 DEF ReturnSearchFailed, SawRight
    <3>5. Quiet
      BY <2>16, <3>4 DEF ReturnSearchFailed, Quiet
    <3>6. Market(F)'
      BY <3>5, QuietStep
    <3>. QED BY <3>1, <3>2, <3>3, <3>6
  <2>17. ASSUME NEW h \in Handlers, NEW b \in Bookings, ConfirmStored(h, b)
         PROVE  Local /\ Market(F)'
    <3>1. \A g \in Handlers : SawRight(g)'
      BY <2>17 DEF ConfirmStored, SawRight
    <3>2. NoEarlyDeliveryDriver'
      BY <2>17 DEF ConfirmStored, NoEarlyDeliveryDriver, SawRight
    <3>3. NoEarlyPickupDriver'
      BY <2>17 DEF ConfirmStored, NoEarlyPickupDriver, SawRight
    <3>4. \A e \in Drivers, c \in Bookings : OnLeg(e, c)' => OnLeg(e, c)
      BY <2>17 DEF ConfirmStored
    <3>5. ASSUME pickupDriver[b] = None PROVE Market(F)'
      BY <2>17, <3>4, <3>5, QuietStep DEF ConfirmStored, Quiet
    <3>6. ASSUME pickupDriver[b] # None PROVE Market(F)'
      <4>1. PICK d \in Drivers : d = pickupDriver[b]
        BY <3>6
      <4>2. OnLeg(d, b) /\ ~OnLeg(d, b)'
        BY <2>17, <3>6, <4>1 DEF ConfirmStored, NoEarlyPickupDriver
      <4>3. UNCHANGED market
        BY <2>17 DEF ConfirmStored
      <4>4. \A e \in Drivers, g \in Handlers :
               /\ Claims(g, e)' <=> Claims(g, e)
               /\ Claims(g, e) => handler'[g].b = handler[g].b
               /\ Releases(g, e)' => (Releases(g, e) \/ (g = h /\ e = d))
        BY <2>17, <3>6, <4>1 DEF ConfirmStored
      <4>5. LegEnds(h, d, b)
        BY <3>4, <4>2, <4>3, <4>4 DEF LegEnds
      <4>. QED BY <4>5, LegEndStep
    <3>7. Market(F)'
      BY <3>5, <3>6
    <3>. QED BY <3>1, <3>2, <3>3, <3>7
  <2>18. ASSUME NEW h \in Handlers, NEW b \in Bookings, RequestReturn(h, b)
         PROVE  Local /\ Market(F)'
    <3>1. \A g \in Handlers : SawRight(g)'
      BY <2>18 DEF RequestReturn, SawRight
    <3>2. NoEarlyDeliveryDriver'
      BY <2>18 DEF RequestReturn, NoEarlyDeliveryDriver, SawRight
    <3>3. NoEarlyPickupDriver'
      BY <2>18 DEF RequestReturn, NoEarlyPickupDriver, SawRight
    <3>4. \A e \in Drivers, c \in Bookings : OnLeg(e, c)' => OnLeg(e, c)
      BY <2>18 DEF RequestReturn, SawRight
    <3>5. Quiet
      BY <2>18, <3>4 DEF RequestReturn, Quiet
    <3>6. Market(F)'
      BY <3>5, QuietStep
    <3>. QED BY <3>1, <3>2, <3>3, <3>6
  <2>19. ASSUME NEW h \in Handlers, NEW b \in Bookings, NEW d \in Drivers,
                AcceptRide(h, b, d)
         PROVE  Local /\ Market(F)'
    <3>1. \A g \in Handlers : SawRight(g)'
      BY <2>19 DEF AcceptRide, Accepting, TakePickup, TakeDelivery, SawRight
    <3>2. NoEarlyDeliveryDriver'
      BY <2>19 DEF AcceptRide, Accepting, TakePickup, TakeDelivery, NoEarlyDeliveryDriver, SawRight
    <3>3. NoEarlyPickupDriver'
      BY <2>19 DEF AcceptRide, Accepting, TakePickup, TakeDelivery, NoEarlyPickupDriver,
         SawRight
    <3>0. offer[b] = d /\ ~Claiming(d)
      <4>1. NoteDriver(b, d, offer[b] = d) /\ crossed = {} /\ crossed' = {}
        BY <2>19 DEF AcceptRide, Accepting
      <4>. QED BY <4>1 DEF NoteDriver
    <3>4. /\ ~onTrip[d] /\ ~Claiming(d)
          /\ \A c \in Bookings : ~OnLeg(d, c)
          /\ \A g \in Handlers : ~Releases(g, d)
      BY <3>0, OfferedIsFree
    <3>5. \A e \in Drivers, c \in Bookings :
             OnLeg(e, c)' <=> OnLeg(e, c) \/ (e = d /\ c = b)
      BY <2>19 DEF AcceptRide, Accepting, TakePickup, TakeDelivery
    <3>6. OneLeg'
      BY <3>4, <3>5 DEF MarketInv, OneLeg
    <3>7. /\ handler' = [handler EXCEPT ![h] =
                            [do |-> "claim", b |-> b, d |-> d, saw |-> "none"]]
          /\ At(h, "accept") /\ UNCHANGED <<onTrip, offer>> /\ offer[b] = d
      BY <2>19, <3>0 DEF AcceptRide, Accepting
    <3>8. /\ \A g \in Handlers, e \in Drivers :
                Claims(g, e)' <=> Claims(g, e) \/ (g = h /\ e = d)
          /\ \A g \in Handlers, e \in Drivers : Claims(g, e) => handler'[g] = handler[g]
          /\ \A g \in Handlers, e \in Drivers : Releases(g, e)' <=> Releases(g, e)
      BY <3>7
    <3>9. OneClaim'
      BY <3>4, <3>8 DEF MarketInv, OneClaim
    <3>10. OneOffer' /\ OneRelease' /\ OfferedUnmarked'
      BY <3>7, <3>8 DEF MarketInv, OneOffer, OneRelease, OfferedUnmarked
    <3>11. LegMarked'
      <4> SUFFICES ASSUME NEW e \in Drivers, NEW c \in Bookings, OnLeg(e, c)', ~onTrip'[e]
                   PROVE  \E g \in Handlers : Claims(g, e)' /\ handler'[g].b = c
        BY DEF LegMarked
      <4>1. CASE e = d /\ c = b
        BY <4>1, <3>7, <3>8
      <4>2. CASE OnLeg(e, c)
        <5>1. PICK g \in Handlers : Claims(g, e) /\ handler[g].b = c
          BY <4>2, <3>7 DEF MarketInv, LegMarked
        <5>. QED BY <5>1, <3>8
      <4>. QED BY <4>1, <4>2, <3>5
    <3>12. ClaimUnmarked'
      BY <3>4, <3>7, <3>8 DEF MarketInv, ClaimUnmarked
    <3>13. ClaimKeepsOffer'
      <4> SUFFICES ASSUME NEW e \in Drivers, NEW g \in Handlers, NEW c \in Bookings,
                          Claims(g, e)', (offer[c] = e)'
                   PROVE  handler'[g].b = c
        BY DEF ClaimKeepsOffer
      <4>1. CASE g = h /\ e = d
        BY <4>1, <3>7 DEF MarketInv, OneOffer
      <4>2. CASE Claims(g, e)
        BY <4>2, <3>7, <3>8 DEF MarketInv, ClaimKeepsOffer
      <4>. QED BY <4>1, <4>2, <3>8
    <3>14. ReleaseAfterLeg'
      <4> SUFFICES ASSUME NEW e \in Drivers, NEW g \in Handlers, Releases(g, e)'
                   PROVE  /\ \A c \in Bookings : ~OnLeg(e, c)'
                          /\ onTrip'[e] \/ Claiming(e)'
        BY DEF ReleaseAfterLeg
      <4>1. Releases(g, e) /\ e # d
        BY <3>4, <3>8
      <4>2. \A c \in Bookings : ~OnLeg(e, c)'
        BY <4>1, <3>5 DEF MarketInv, ReleaseAfterLeg
      <4>3. onTrip'[e] \/ Claiming(e)'
        BY <4>1, <3>7, <3>8 DEF MarketInv, ReleaseAfterLeg
      <4>. QED BY <4>2, <4>3
    <3>15. \A e \in F : BetweenTrips(e)'
      <4> SUFFICES ASSUME NEW e \in F PROVE BetweenTrips(e)'
        OBVIOUS
      <4>1. BetweenTrips(e) /\ e # d
        BY <3>4 DEF Market, BetweenTrips
      <4>. QED BY <3>5, <3>7, <3>8, <4>1 DEF BetweenTrips
    <3>16. Market(F)'
      BY <3>6, <3>9, <3>10, <3>11, <3>12, <3>13, <3>14, <3>15 DEF MarketInv, Market
    <3>. QED BY <3>1, <3>2, <3>3, <3>16
  <2>20. ASSUME NEW h \in Handlers, NEW b \in Bookings, NEW d \in Drivers,
                NEW step \in RideSteps, BeginRideStep(h, step, b, d)
         PROVE  Local /\ Market(F)'
    <3>1. \A g \in Handlers : SawRight(g)'
      BY <2>20 DEF BeginRideStep, MayComplete, SawRight
    <3>2. NoEarlyDeliveryDriver'
      BY <2>20 DEF BeginRideStep, MayComplete, NoEarlyDeliveryDriver, SawRight
    <3>3. NoEarlyPickupDriver'
      BY <2>20 DEF BeginRideStep, MayComplete, NoEarlyPickupDriver, SawRight
    <3>4. \A e \in Drivers, c \in Bookings : OnLeg(e, c)' => OnLeg(e, c)
      BY <2>20 DEF BeginRideStep, MayComplete, SawRight
    <3>5. Quiet
      BY <2>20, <3>4 DEF BeginRideStep, MayComplete, Quiet
    <3>6. Market(F)'
      BY <3>5, QuietStep
    <3>. QED BY <3>1, <3>2, <3>3, <3>6
  <2>21. ASSUME NEW h \in Handlers, CancelDecided(h) PROVE Local /\ Market(F)'
    <3>1. \A g \in Handlers : SawRight(g)'
      BY <2>21 DEF CancelDecided, AutoCancel, SawRight
    <3>2. NoEarlyDeliveryDriver'
      BY <2>21 DEF CancelDecided, AutoCancel, NoEarlyDeliveryDriver, SawRight
    <3>3. NoEarlyPickupDriver'
      BY <2>21 DEF CancelDecided, AutoCancel, NoEarlyPickupDriver, SawRight
    <3>4. \A e \in Drivers, c \in Bookings : OnLeg(e, c)' => OnLeg(e, c)
      BY <2>21 DEF CancelDecided, AutoCancel, SawRight
    <3>5. Quiet
      BY <2>21, <3>4 DEF CancelDecided, AutoCancel, Quiet
    <3>6. Market(F)'
      BY <3>5, QuietStep
    <3>. QED BY <3>1, <3>2, <3>3, <3>6
  <2>22. ASSUME NEW h \in Handlers, ClaimDriver(h) PROVE Local /\ Market(F)'
    <3>1. \A g \in Handlers : SawRight(g)'
      BY <2>22 DEF ClaimDriver, SetOnTrip, SawRight
    <3>2. NoEarlyDeliveryDriver'
      BY <2>22 DEF ClaimDriver, SetOnTrip, NoEarlyDeliveryDriver, SawRight
    <3>3. NoEarlyPickupDriver'
      BY <2>22 DEF ClaimDriver, SetOnTrip, NoEarlyPickupDriver, SawRight
    <3>4. \A e \in Drivers, c \in Bookings : OnLeg(e, c)' <=> OnLeg(e, c)
      BY <2>22 DEF ClaimDriver
    <3>5. /\ \A g \in Handlers, e \in Drivers : Claims(g, e)' <=> Claims(g, e) /\ g # h
          /\ \A g \in Handlers : g # h => handler'[g] = handler[g]
          /\ \A g \in Handlers, e \in Drivers : Releases(g, e)' <=> Releases(g, e)
      BY <2>22 DEF ClaimDriver
    <3>6. /\ \A e \in Drivers : onTrip'[e] <=> (onTrip[e] \/ e = handler[h].d)
          /\ \A c \in Bookings, e \in Drivers :
                (offer[c] = e)' => offer[c] = e /\ c # handler[h].b
      BY <2>22 DEF ClaimDriver, SetOnTrip
    <3>7. OneLeg' /\ OneOffer' /\ OneClaim' /\ OneRelease'
      <4>1. OneLeg'
        BY <3>4 DEF MarketInv, OneLeg
      <4>2. OneOffer'
        BY <3>6 DEF MarketInv, OneOffer
      <4>3. OneClaim' /\ OneRelease'
        BY <3>5 DEF MarketInv, OneClaim, OneRelease
      <4>. QED BY <4>1, <4>2, <4>3
    <3>8. LegMarked'
      <4> SUFFICES ASSUME NEW e \in Drivers, NEW c \in Bookings, OnLeg(e, c)', ~onTrip'[e]
                   PROVE  \E g \in Handlers : Claims(g, e)' /\ handler'[g].b = c
        BY DEF LegMarked
      <4>1. e # handler[h].d /\ ~onTrip[e] /\ OnLeg(e, c)
        BY <3>4, <3>6
      <4>2. PICK g \in Handlers : Claims(g, e) /\ handler[g].b = c
        BY <4>1 DEF MarketInv, LegMarked
      <4>3. g # h
        BY <4>1, <4>2
      <4>. QED BY <4>2, <4>3, <3>5
    <3>9. OfferedUnmarked'
      BY <2>22, <3>6 DEF ClaimDriver, MarketInv, OfferedUnmarked, ClaimKeepsOffer
    <3>10. ClaimUnmarked'
      BY <2>22, <3>5, <3>6 DEF ClaimDriver, MarketInv, ClaimUnmarked, OneClaim
    <3>11. ClaimKeepsOffer'
      BY <3>5, <3>6 DEF MarketInv, ClaimKeepsOffer
    <3>12. ReleaseAfterLeg'
      <4> SUFFICES ASSUME NEW e \in Drivers, NEW g \in Handlers, Releases(g, e)'
                   PROVE  /\ \A c \in Bookings : ~OnLeg(e, c)'
                          /\ onTrip'[e] \/ Claiming(e)'
        BY DEF ReleaseAfterLeg
      <4>1. (\A c \in Bookings : ~OnLeg(e, c)) /\ (onTrip[e] \/ Claiming(e))
        BY <3>5 DEF MarketInv, ReleaseAfterLeg
      <4>2. CASE e = handler[h].d
        BY <4>1, <4>2, <3>4, <3>6
      <4>3. CASE e # handler[h].d
        BY <4>1, <4>3, <3>4, <3>5, <3>6
      <4>. QED BY <4>2, <4>3
    <3>13. \A e \in F : BetweenTrips(e)'
      <4> SUFFICES ASSUME NEW e \in F PROVE BetweenTrips(e)'
        OBVIOUS
      <4>1. BetweenTrips(e)
        BY DEF Market
      <4>2. onTrip'[e] \/ Claiming(e)'
        BY <3>5, <3>6, <4>1 DEF BetweenTrips
      <4>. QED BY <3>4, <3>5, <4>1, <4>2 DEF BetweenTrips
    <3>14. Market(F)'
      BY <3>7, <3>8, <3>9, <3>10, <3>11, <3>12, <3>13 DEF MarketInv, Market
    <3>. QED BY <3>1, <3>2, <3>3, <3>14
  <2>23. ASSUME NEW h \in Handlers, NullAssignment(h) PROVE Local /\ Market(F)'
    <3>0. status[handler[h].b] = handler[h].saw /\ handler[h].b \in Bookings
      <4>1. stale = {} /\ stale' = {}
        OBVIOUS
      <4>2. NoteWrite(h, handler[h].b)
        BY <2>23 DEF NullAssignment
      <4>3. handler[h].b \in Bookings
        BY <2>23 DEF NullAssignment
      <4>. QED BY <4>1, <4>2, <4>3 DEF NoteWrite
    <3>1. \A g \in Handlers : SawRight(g)'
      BY <3>0, <2>23 DEF NullAssignment, NoteWrite, SawRight
    <3>2. NoEarlyDeliveryDriver'
      BY <3>0, <2>23 DEF NullAssignment, NoteWrite, NoEarlyDeliveryDriver, SawRight
    <3>3. NoEarlyPickupDriver'
      BY <3>0, <2>23 DEF NullAssignment, NoteWrite, NoEarlyPickupDriver, SawRight
    <3>4. \A e \in Drivers, c \in Bookings : OnLeg(e, c)' => OnLeg(e, c)
      BY <3>0, <2>23 DEF NullAssignment, NoteWrite, SawRight
    <3>5. Quiet
      BY <2>23, <3>4 DEF NullAssignment, NoteWrite, Quiet
    <3>6. Market(F)'
      BY <3>5, QuietStep
    <3>. QED BY <3>1, <3>2, <3>3, <3>6
  <2>24. ASSUME NEW h \in Handlers, TerminalGuard(h) PROVE Local /\ Market(F)'
    <3>1. \A g \in Handlers : SawRight(g)'
      BY <2>24 DEF TerminalGuard, WriteOf, SawRight
    <3>2. NoEarlyDeliveryDriver'
      BY <2>24 DEF TerminalGuard, WriteOf, NoEarlyDeliveryDriver, SawRight
    <3>3. NoEarlyPickupDriver'
      BY <2>24 DEF TerminalGuard, WriteOf, NoEarlyPickupDriver, SawRight
    <3>4. \A e \in Drivers, c \in Bookings : OnLeg(e, c)' => OnLeg(e, c)
      BY <2>24 DEF TerminalGuard, WriteOf, SawRight
    <3>5. Quiet
      BY <2>24, <3>4 DEF TerminalGuard, WriteOf, Quiet
    <3>6. Market(F)'
      BY <3>5, QuietStep
    <3>. QED BY <3>1, <3>2, <3>3, <3>6
  <2>25. ASSUME NEW h \in Handlers, WriteRideStep(h) PROVE Local /\ Market(F)'
    <3>0. /\ status[handler[h].b] = handler[h].saw /\ handler[h].b \in Bookings
          /\ SameDriver(h, handler[h].b)
      <4>1. stale = {} /\ stale' = {}
        OBVIOUS
      <4>2. NoteWrite(h, handler[h].b)
        BY <2>25 DEF WriteRideStep
      <4>3. handler[h].b \in Bookings
        BY <2>25 DEF WriteRideStep
      <4>. QED BY <4>1, <4>2, <4>3 DEF NoteWrite
    <3>1. \A g \in Handlers : SawRight(g)'
      BY <3>0, <2>25 DEF WriteRideStep, NoteWrite, Target, SawRight
    <3>2. NoEarlyDeliveryDriver'
      BY <3>0, <2>25 DEF WriteRideStep, NoteWrite, Target, NoEarlyDeliveryDriver, SawRight
    <3>3. NoEarlyPickupDriver'
      BY <3>0, <2>25 DEF WriteRideStep, NoteWrite, Target, NoEarlyPickupDriver,
         SawRight
    <3>4. \A e \in Drivers, c \in Bookings : OnLeg(e, c)' => OnLeg(e, c)
      BY <3>0, <2>25 DEF WriteRideStep, Target, SawRight
    <3>5. ASSUME ~At(h, "deliver_write") PROVE Market(F)'
      <4>1. handler'[h] = Idle /\ \A g \in Handlers : g # h => handler'[g] = handler[g]
        BY <2>25, <3>5 DEF WriteRideStep
      <4>2. \A e \in Drivers : ~Claims(h, e) /\ ~Releases(h, e)
        BY <2>25 DEF WriteRideStep
      <4>3. UNCHANGED market
        BY <2>25 DEF WriteRideStep
      <4>4. Quiet
        BY <3>4, <4>1, <4>2, <4>3 DEF Quiet
      <4>. QED BY <4>4, QuietStep
    <3>6. ASSUME At(h, "deliver_write") PROVE Market(F)'
      <4>1. PICK d \in Drivers, b \in Bookings : d = handler[h].d /\ b = handler[h].b
        BY <3>0, <2>25, <3>6 DEF WriteRideStep, SawRight
      <4>2. OnLeg(d, b) /\ ~OnLeg(d, b)'
        BY <3>0, <2>25, <3>6, <4>1 DEF WriteRideStep, Target, SawRight, SameDriver
      <4>3. UNCHANGED market
        BY <2>25 DEF WriteRideStep
      <4>4. \A e \in Drivers, g \in Handlers :
               /\ Claims(g, e)' <=> Claims(g, e)
               /\ Claims(g, e) => handler'[g].b = handler[g].b
               /\ Releases(g, e)' => (Releases(g, e) \/ (g = h /\ e = d))
        BY <2>25, <3>6, <4>1 DEF WriteRideStep
      <4>5. LegEnds(h, d, b)
        BY <3>4, <4>2, <4>3, <4>4 DEF LegEnds
      <4>. QED BY <4>5, LegEndStep
    <3>7. Market(F)'
      BY <3>5, <3>6
    <3>. QED BY <3>1, <3>2, <3>3, <3>7
  <2>26. ASSUME NEW h \in Handlers, ReleaseDriver(h) PROVE Local /\ Market(F)'
    <3>1. \A g \in Handlers : SawRight(g)'
      BY <2>26 DEF ReleaseDriver, SawRight
    <3>2. NoEarlyDeliveryDriver'
      BY <2>26 DEF ReleaseDriver, NoEarlyDeliveryDriver, SawRight
    <3>3. NoEarlyPickupDriver'
      BY <2>26 DEF ReleaseDriver, NoEarlyPickupDriver, SawRight
    <3>4. \A e \in Drivers, c \in Bookings : OnLeg(e, c)' <=> OnLeg(e, c)
      BY <2>26 DEF ReleaseDriver
    <3>5. At(h, "release") \/ At(h, "settle")
      BY <2>26 DEF ReleaseDriver
    <3>6. \A g \in Handlers : g # h => handler'[g] = handler[g]
      BY <2>26 DEF ReleaseDriver
    <3>7. handler'[h].do \in {"idle", "count"}
      BY <2>26, <3>5 DEF ReleaseDriver
    <3>8. /\ \A g \in Handlers, e \in Drivers : Claims(g, e)' <=> Claims(g, e)
          /\ \A g \in Handlers, e \in Drivers : Claims(g, e) => handler'[g] = handler[g]
          /\ \A g \in Handlers, e \in Drivers : Releases(g, e)' <=> Releases(g, e) /\ g # h
      BY <3>5, <3>6, <3>7
    <3>9. /\ \A e \in Drivers : onTrip'[e] <=> (onTrip[e] /\ e # handler[h].d)
          /\ UNCHANGED offer
      BY <2>26 DEF ReleaseDriver
    <3>10. OneLeg' /\ OneOffer' /\ OneClaim' /\ OneRelease'
      <4>1. OneLeg'
        BY <3>4 DEF MarketInv, OneLeg
      <4>2. OneOffer'
        BY <3>9 DEF MarketInv, OneOffer
      <4>3. OneClaim' /\ OneRelease'
        BY <3>8 DEF MarketInv, OneClaim, OneRelease
      <4>. QED BY <4>1, <4>2, <4>3
    <3>11. LegMarked'
      <4> SUFFICES ASSUME NEW e \in Drivers, NEW c \in Bookings, OnLeg(e, c)', ~onTrip'[e]
                   PROVE  \E g \in Handlers : Claims(g, e)' /\ handler'[g].b = c
        BY DEF LegMarked
      <4>1. OnLeg(e, c)
        BY <3>4
      <4>2. e # handler[h].d
        BY <3>5, <4>1 DEF MarketInv, ReleaseAfterLeg
      <4>3. PICK g \in Handlers : Claims(g, e) /\ handler[g].b = c
        BY <3>9, <4>1, <4>2 DEF MarketInv, LegMarked
      <4>. QED BY <3>8, <4>3
    <3>12. OfferedUnmarked' /\ ClaimUnmarked' /\ ClaimKeepsOffer'
      BY <3>8, <3>9 DEF MarketInv, OfferedUnmarked, ClaimUnmarked, ClaimKeepsOffer
    <3>13. ReleaseAfterLeg'
      BY <3>4, <3>5, <3>8, <3>9 DEF MarketInv, ReleaseAfterLeg, OneRelease
    <3>14. \A e \in F : BetweenTrips(e)'
      <4> SUFFICES ASSUME NEW e \in F PROVE BetweenTrips(e)'
        OBVIOUS
      <4>1. BetweenTrips(e)
        BY DEF Market
      <4>2. e # handler[h].d
        BY <3>5, <4>1 DEF BetweenTrips
      <4>. QED BY <3>4, <3>8, <3>9, <4>1, <4>2 DEF BetweenTrips
    <3>15. Market(F)'
      BY <3>10, <3>11, <3>12, <3>13, <3>14 DEF MarketInv, Market
    <3>. QED BY <3>1, <3>2, <3>3, <3>15
  <2>27. ASSUME NEW h \in Handlers, CountStored(h) PROVE Local /\ Market(F)'
    <3>1. \A g \in Handlers : SawRight(g)'
      BY <2>27 DEF CountStored, SawRight
    <3>2. NoEarlyDeliveryDriver'
      BY <2>27 DEF CountStored, NoEarlyDeliveryDriver, SawRight
    <3>3. NoEarlyPickupDriver'
      BY <2>27 DEF CountStored, NoEarlyPickupDriver, SawRight
    <3>4. \A e \in Drivers, c \in Bookings : OnLeg(e, c)' => OnLeg(e, c)
      BY <2>27 DEF CountStored, SawRight
    <3>5. Quiet
      BY <2>27, <3>4 DEF CountStored, Quiet
    <3>6. Market(F)'
      BY <3>5, QuietStep
    <3>. QED BY <3>1, <3>2, <3>3, <3>6
  <2>28. ASSUME NEW h \in Handlers, SaveReturn(h) PROVE Local /\ Market(F)'
    <3>. DEFINE b   == handler[h].b
                saw == handler[h].saw
    <3>1. b \in Bookings /\ saw \in {"stored", "final_payment_pending"} \cup AwaitingReturn
      BY <2>28 DEF SaveReturn, HandlersAfterSave, SawRight
    <3>2. CASE status' = status
      <4>1. \A g \in Handlers : SawRight(g)'
        BY <3>2, <2>28 DEF SaveReturn, HandlersAfterSave, SawRight
      <4>2. NoEarlyDeliveryDriver'
        BY <3>2, <2>28 DEF SaveReturn, HandlersAfterSave, NoEarlyDeliveryDriver
      <4>3. NoEarlyPickupDriver'
        BY <3>2, <2>28 DEF SaveReturn, HandlersAfterSave, NoEarlyPickupDriver
      <4>4. Quiet
        BY <3>2, <2>28 DEF SaveReturn, HandlersAfterSave, Quiet
      <4>5. Market(F)'
        BY <4>4, QuietStep
      <4>. QED BY <4>1, <4>2, <4>3, <4>5
    <3>3. CASE \E s \in {"final_payment_pending", "return_requested"} :
                   Move(b, s) /\ NoteWrite(h, b) /\ saw \in {"stored", "final_payment_pending"}
      <4>0. status[b] = saw
        <5>1. stale = {} /\ stale' = {}
          OBVIOUS
        <5>. QED BY <3>1, <3>3, <5>1 DEF NoteWrite
      <4>1. \A g \in Handlers : SawRight(g)'
        BY <3>1, <3>3, <4>0, <2>28 DEF SaveReturn, HandlersAfterSave, SawRight
      <4>2. NoEarlyDeliveryDriver'
        BY <3>1, <3>3, <4>0, <2>28 DEF SaveReturn, HandlersAfterSave, NoEarlyDeliveryDriver
      <4>3. NoEarlyPickupDriver'
        BY <3>1, <3>3, <4>0, <2>28 DEF SaveReturn, HandlersAfterSave, NoEarlyPickupDriver
      <4>4. \A e \in Drivers, c \in Bookings : OnLeg(e, c)' => OnLeg(e, c)
        BY <3>1, <3>3, <4>0, <2>28 DEF SaveReturn, HandlersAfterSave
      <4>5. Quiet
        BY <2>28, <4>4 DEF SaveReturn, HandlersAfterSave, Quiet
      <4>6. Market(F)'
        BY <4>5, QuietStep
      <4>. QED BY <4>1, <4>2, <4>3, <4>6
    <3>4. status' = status \/ \E s \in {"final_payment_pending", "return_requested"} :
                   Move(b, s) /\ NoteWrite(h, b) /\ saw \in {"stored", "final_payment_pending"}
      BY <3>1, <2>28 DEF SaveReturn, HandlersAfterSave, QuotedStatus
    <3>. QED BY <3>2, <3>3, <3>4
  <2>29. ASSUME NEW h \in Handlers, Crash(h) PROVE Local /\ Market(F)'
    <3>1. \A g \in Handlers : SawRight(g)'
      BY <2>29 DEF Crash, SawRight
    <3>2. NoEarlyDeliveryDriver'
      BY <2>29 DEF Crash, NoEarlyDeliveryDriver, SawRight
    <3>3. NoEarlyPickupDriver'
      BY <2>29 DEF Crash, NoEarlyPickupDriver, SawRight
    <3>4. \A e \in Drivers, c \in Bookings : OnLeg(e, c)' => OnLeg(e, c)
      BY <2>29 DEF Crash, SawRight
    <3>5. Quiet
      BY <2>29, <3>4 DEF Crash, Quiet
    <3>6. Market(F)'
      BY <3>5, QuietStep
    <3>. QED BY <3>1, <3>2, <3>3, <3>6
  <2>30. CASE UNCHANGED vars
    BY <2>30, QuietStep DEF vars, Quiet, SawRight, NoEarlyDeliveryDriver, NoEarlyPickupDriver
  <2>31. ASSUME NEW h \in Handlers, ArmExpiry(h) PROVE Local /\ Market(F)'
    <3>1. \A g \in Handlers : SawRight(g)'
      BY <2>31 DEF ArmExpiry, SawRight
    <3>2. NoEarlyDeliveryDriver'
      BY <2>31 DEF ArmExpiry, NoEarlyDeliveryDriver, SawRight
    <3>3. NoEarlyPickupDriver'
      BY <2>31 DEF ArmExpiry, NoEarlyPickupDriver, SawRight
    <3>4. \A e \in Drivers, c \in Bookings : OnLeg(e, c)' => OnLeg(e, c)
      BY <2>31 DEF ArmExpiry, SawRight
    <3>5. Quiet
      BY <2>31, <3>4 DEF ArmExpiry, Quiet
    <3>6. Market(F)'
      BY <3>5, QuietStep
    <3>. QED BY <3>1, <3>2, <3>3, <3>6
  <2>32. ASSUME NEW h \in Handlers, NEW b \in Bookings, NEW d \in Drivers,
                LookAtDriver(h, b, d)
         PROVE  Local /\ Market(F)'
    <3>1. \A g \in Handlers : SawRight(g)'
      BY <2>32 DEF LookAtDriver, SawRight
    <3>2. NoEarlyDeliveryDriver'
      BY <2>32 DEF LookAtDriver, NoEarlyDeliveryDriver
    <3>3. NoEarlyPickupDriver'
      BY <2>32 DEF LookAtDriver, NoEarlyPickupDriver
    <3>4. \A e \in Drivers, c \in Bookings : OnLeg(e, c)' => OnLeg(e, c)
      BY <2>32 DEF LookAtDriver
    <3>5. Quiet
      BY <2>32, <3>4 DEF LookAtDriver, Quiet
    <3>6. Market(F)'
      BY <3>5, QuietStep
    <3>. QED BY <3>1, <3>2, <3>3, <3>6
  <2>33. ASSUME NEW h \in Handlers, NEW b \in Bookings, NEW d \in Drivers,
                ReadOffer(h, b, d)
         PROVE  Local /\ Market(F)'
    <3>1. \A g \in Handlers : SawRight(g)'
      BY <2>33 DEF ReadOffer, SawRight
    <3>2. NoEarlyDeliveryDriver'
      BY <2>33 DEF ReadOffer, NoEarlyDeliveryDriver
    <3>3. NoEarlyPickupDriver'
      BY <2>33 DEF ReadOffer, NoEarlyPickupDriver
    <3>4. \A e \in Drivers, c \in Bookings : OnLeg(e, c)' => OnLeg(e, c)
      BY <2>33 DEF ReadOffer
    <3>5. Quiet
      BY <2>33, <3>4 DEF ReadOffer, Quiet
    <3>6. Market(F)'
      BY <3>5, QuietStep
    <3>. QED BY <3>1, <3>2, <3>3, <3>6
  <2>34. ASSUME NEW h \in Handlers, AcceptFails(h) PROVE Local /\ Market(F)'
    <3>1. \A g \in Handlers : SawRight(g)'
      BY <2>34 DEF AcceptFails, SawRight
    <3>2. NoEarlyDeliveryDriver'
      BY <2>34 DEF AcceptFails, NoEarlyDeliveryDriver
    <3>3. NoEarlyPickupDriver'
      BY <2>34 DEF AcceptFails, NoEarlyPickupDriver
    <3>4. \A e \in Drivers, c \in Bookings : OnLeg(e, c)' => OnLeg(e, c)
      BY <2>34 DEF AcceptFails
    <3>5. Quiet
      BY <2>34, <3>4 DEF AcceptFails, Quiet
    <3>6. Market(F)'
      BY <3>5, QuietStep
    <3>. QED BY <3>1, <3>2, <3>3, <3>6
  <2>. QED
    BY <2>1, <2>2, <2>3, <2>4, <2>5, <2>6, <2>7, <2>8, <2>9, <2>10, <2>11, <2>12,
       <2>13, <2>14, <2>15, <2>16, <2>17, <2>18, <2>19, <2>20, <2>21, <2>22, <2>23,
       <2>24, <2>25, <2>26, <2>27, <2>28, <2>29, <2>30, <2>31,
       <2>32, <2>33, <2>34
       DEF Next, Continuations, Accepts

\* A booking hit by a stale write stays one, and so does one that a driver was
\* crossed on.
LEMMA HistoryGrows == ASSUME [Next]_vars PROVE stale \subseteq stale' /\ crossed \subseteq crossed'
<1> DEFINE Grows == stale \subseteq stale' /\ crossed \subseteq crossed'
<1> USE DEF market
<1>1. ASSUME NEW b \in Bookings,
             \/ AssignStore(b) \/ CancelUnseen(b) \/ RetryPayment(b) \/ OfferEnds(b)
             \/ ReturnPaid(b) \/ ArriveAtPickup(b) \/ ArriveAtStore(b)
             \/ ArriveAtStoreForReturn(b) \/ ArriveAtUserReturn(b)
      PROVE  Grows
  BY <1>1 DEF AssignStore, CancelUnseen, AutoCancel, RetryPayment, OfferEnds, ReturnPaid, Arrive,
       ArriveAtPickup, ArriveAtStore, ArriveAtStoreForReturn, ArriveAtUserReturn
<1>2. ASSUME NEW h \in Handlers, NEW b \in Bookings, NEW d \in Drivers,
             LookAtDriver(h, b, d) \/ ReadOffer(h, b, d)
      PROVE  Grows
  BY <1>2 DEF LookAtDriver, ReadOffer
<1>3. ASSUME NEW h \in Handlers, NEW b \in Bookings,
             \/ SchedulePickup(h, b) \/ CancelByUser(h, b) \/ ExpiryJob(h, b)
             \/ PickupSearchFailed(h, b) \/ ReturnSearchFailed(h, b)
             \/ ConfirmStored(h, b) \/ RequestReturn(h, b)
      PROVE  Grows
  BY <1>3 DEF SchedulePickup, CancelByUser, ExpiryJob, PickupSearchFailed,
       ReturnSearchFailed, ConfirmStored, RequestReturn
<1>4. ASSUME NEW h \in Handlers, WriteOffer(h) \/ Accepts(h) \/ AcceptFails(h) PROVE Grows
  BY <1>4 DEF WriteOffer, Accepts, AcceptRide, AcceptBookingOffer, Accepting, AcceptFails,
       NoteDriver
<1>5. ASSUME NEW h \in Handlers, NEW step \in RideSteps, NEW b \in Bookings,
             NEW d \in Drivers, BeginRideStep(h, step, b, d)
      PROVE  Grows
  BY <1>5 DEF BeginRideStep
<1>6. ASSUME NEW h \in Handlers,
             \/ ArmExpiry(h) \/ CancelDecided(h) \/ NullAssignment(h) \/ ClaimDriver(h)
             \/ TerminalGuard(h) \/ WriteRideStep(h) \/ ReleaseDriver(h) \/ CountStored(h)
             \/ SaveReturn(h)
      PROVE  Grows
  BY <1>6 DEF ArmExpiry, CancelDecided, AutoCancel, ClaimDriver, NullAssignment,
       TerminalGuard, WriteRideStep, ReleaseDriver, CountStored, SaveReturn, NoteWrite
<1>7. ASSUME NEW h \in Handlers, Crash(h) PROVE Grows
  BY <1>7 DEF Crash
<1>8. CASE UNCHANGED vars
  BY <1>8 DEF vars
<1> QED BY <1>1, <1>2, <1>3, <1>4, <1>5, <1>6, <1>7, <1>8 DEF Next, Continuations

\* A crash is counted, and a disturbance noted, for good.
LEMMA StaysDisturbed == ASSUME TypeOK, [Next]_vars, Undisturbed' PROVE Undisturbed
<1>1. stale = {} /\ crossed = {}
  BY HistoryGrows DEF Undisturbed
<1>2. crashes' = crashes \/ crashes' = crashes + 1
  BY DEF vars, Next, Continuations, Accepts, SchedulePickup, AssignStore,
         CancelUnseen, RetryPayment, OfferEnds, ReturnPaid, ArriveAtPickup,
         ArriveAtStore, ArriveAtStoreForReturn, ArriveAtUserReturn, Arrive,
         LookAtDriver, WriteOffer, ReadOffer, AcceptBookingOffer, AcceptFails, ExpiryJob,
         PickupSearchFailed, CancelByUser,
         ReturnSearchFailed, ConfirmStored, RequestReturn, AcceptRide, BeginRideStep,
         ArmExpiry, CancelDecided, AutoCancel, ClaimDriver, NullAssignment, TerminalGuard,
         WriteRideStep, ReleaseDriver, CountStored, SaveReturn, Crash
<1>3. crashes = 0
  BY <1>2 DEF Undisturbed, TypeOK
<1>. QED BY <1>1, <1>3 DEF Undisturbed

\* The invariant holds throughout.
THEOREM DriverInvariant == Spec => []DriverInv
<1>1. TypeOK /\ DriverInv /\ [Next]_vars => DriverInv'
  <2> SUFFICES ASSUME TypeOK, DriverInv, [Next]_vars, Undisturbed' PROVE DriverInv'
    BY DEF DriverInv
  <2>1. Undisturbed
    BY StaysDisturbed
  <2>2. {} \in SUBSET Drivers /\ \A d \in {} : BetweenTrips(d)
    OBVIOUS
  <2>. QED BY <2>1, <2>2, DriverStep
<1>. QED BY DriverInit, <1>1, TypeCorrect, PTL DEF Spec

\* What the invariant says of legs and offers.
LEMMA DriverInvImplies == DriverInv => OneTripPerDriver /\ OfferedDriverIsFree
<1>1. DriverInv => OneTripPerDriver
  BY DEF DriverInv, MarketInv, OneLeg, OneTripPerDriver
<1>2. DriverInv => OfferedDriverIsFree
  BY DEF DriverInv, MarketInv, LegMarked, OfferedUnmarked, ClaimKeepsOffer,
         OfferedDriverIsFree
<1>. QED BY <1>1, <1>2

\* OneTripPerDriver for any number of bookings, drivers and handlers: the
\* offer's lock, the flag and the guarded accept are enough.
THEOREM OneTrip == Spec => []OneTripPerDriver
BY DriverInvImplies, DriverInvariant, PTL

\* OfferedDriverIsFree likewise: no offer reaches a driver on another's leg.
THEOREM OfferedFree == Spec => []OfferedDriverIsFree
BY DriverInvImplies, DriverInvariant, PTL

------------------------------------------------------------------------------
(* What a step does to the bookings of a store. *)

\* What is known of all stores at once.
AllSlots == NoEarlyStore /\ \A s \in Stores : SlotsCounted(s)

\* A step after which no store has one booking more, or its counter lowered.
SlotsQuiet ==
    /\ storeOf' = storeOf
    /\ \A s \in Stores : count'[s] >= count[s]
    /\ \A b \in Bookings :
          /\ status'[b] \in Live => status[b] \in Live \/ storeOf[b] = None
          /\ status'[b] \in {"none", "payment_pending"} =>
                status[b] \in {"none", "payment_pending"}

\* ... keeps what is known of the stores.
LEMMA SlotsQuietStep ==
    ASSUME TypeOK, TypeOK', AllSlots, SlotsQuiet PROVE AllSlots'
<1>1. NoEarlyStore'
  BY DEF AllSlots, NoEarlyStore, SlotsQuiet
<1>2. ASSUME NEW s \in Stores PROVE SlotsCounted(s)'
  <2>1. LiveAt(s)' \in SUBSET LiveAt(s)
    BY NoneIsNobody DEF LiveAt, SlotsQuiet
  <2>2. IsFiniteSet(LiveAt(s)) /\ Cardinality(LiveAt(s)) <= count[s]
        /\ Cardinality(LiveAt(s)) <= Capacity[s]
    BY DEF AllSlots, SlotsCounted
  <2>3. IsFiniteSet(LiveAt(s)') /\ Cardinality(LiveAt(s)') <= Cardinality(LiveAt(s))
    BY <2>1, <2>2, FS_Subset
  <2>4. Cardinality(LiveAt(s)) \in Nat /\ Cardinality(LiveAt(s)') \in Nat
    BY <2>2, <2>3, FS_CardinalityType
  <2>5. count[s] \in Nat /\ count'[s] \in Nat /\ Capacity[s] \in Nat /\ count'[s] >= count[s]
    BY CapacityAssumption DEF TypeOK, SlotsQuiet
  <2>. QED BY <2>2, <2>3, <2>4, <2>5 DEF SlotsCounted
<1>. QED BY <1>1, <1>2 DEF AllSlots

\* A cancellation takes the booking from its store and from its counter, which
\* is above zero because it covers the booking.
LEMMA ReleaseStep ==
    ASSUME TypeOK, TypeOK', AllSlots, NEW b \in Bookings, status[b] \notin Terminal,
           Move(b, "cancelled"), count' = CountAfterRelease(b), storeOf' = storeOf
    PROVE  AllSlots'
<1>1. status' = [status EXCEPT ![b] = "cancelled"]
  BY DEF Move
<1>2. NoEarlyStore'
  BY <1>1 DEF AllSlots, NoEarlyStore, TypeOK
<1>3. ASSUME NEW s \in Stores PROVE SlotsCounted(s)'
  <2>1. /\ IsFiniteSet(LiveAt(s))
        /\ Cardinality(LiveAt(s)) <= count[s]
        /\ Cardinality(LiveAt(s)) <= Capacity[s]
    BY DEF AllSlots, SlotsCounted
  <2>2. LiveAt(s)' = LiveAt(s) \ {b}
    BY <1>1 DEF LiveAt, TypeOK, Live, Reserved, PickupLeg, AwaitingReturn
  <2>3. /\ IsFiniteSet(LiveAt(s)')
        /\ Cardinality(LiveAt(s)') =
              IF b \in LiveAt(s) THEN Cardinality(LiveAt(s)) - 1 ELSE Cardinality(LiveAt(s))
    BY <2>1, <2>2, FS_RemoveElement
  <2>4. Cardinality(LiveAt(s)) \in Nat /\ Cardinality(LiveAt(s)') \in Nat
    BY <2>1, <2>3, FS_CardinalityType
  <2>5. count[s] \in Nat /\ Capacity[s] \in Nat
    BY CapacityAssumption DEF TypeOK
  <2>6. CASE storeOf[b] = s
    <3>1. b \in LiveAt(s)
      <4>1. status[b] \notin {"none", "payment_pending"}
        BY <2>6, NoneIsNobody DEF AllSlots, NoEarlyStore
      <4>2. status[b] \in Live
        BY <4>1 DEF TypeOK, Status, Live, Reserved, PickupLeg, DeliveryLeg, AwaitingReturn,
                    Terminal
      <4>. QED BY <2>6, <4>2 DEF LiveAt
    <3>2. Cardinality(LiveAt(s)') = Cardinality(LiveAt(s)) - 1
      BY <2>3, <3>1
    <3>3. count[s] > 0
      BY <2>1, <2>4, <2>5, <3>2
    <3>4. count'[s] = count[s] - 1
      BY <2>6, <3>3 DEF CountAfterRelease
    <3>. QED BY <2>1, <2>3, <2>4, <2>5, <3>2, <3>4 DEF SlotsCounted
  <2>7. CASE storeOf[b] # s
    <3>1. b \notin LiveAt(s)
      BY <2>7 DEF LiveAt
    <3>2. count'[s] = count[s]
      BY <2>7 DEF CountAfterRelease
    <3>. QED BY <2>1, <2>3, <3>1, <3>2 DEF SlotsCounted
  <2>. QED BY <2>6, <2>7
<1>. QED BY <1>2, <1>3 DEF AllSlots

\* autoCancelBooking, whoever calls it.
LEMMA AutoCancelStep ==
    ASSUME TypeOK, TypeOK', AllSlots, NEW b \in Bookings, AutoCancel(b)
    PROVE  AllSlots'
BY ReleaseStep DEF AutoCancel

\* A paid booking takes a slot its store had left.
LEMMA AssignStep ==
    ASSUME TypeOK, TypeOK', AllSlots, NEW b \in Bookings, AssignStore(b)
    PROVE  AllSlots'
<1> USE DEF Move, places
<1>1. status[b] = "payment_pending" /\ storeOf[b] = None
  BY DEF AssignStore, AllSlots, NoEarlyStore
<1>2. CASE status' = [status EXCEPT ![b] = "cancelled"] /\ UNCHANGED places
  <2>1. SlotsQuiet
    BY <1>2 DEF SlotsQuiet, TypeOK, Live, Reserved, PickupLeg, AwaitingReturn
  <2>. QED BY <2>1, SlotsQuietStep
<1>3. ASSUME NEW t \in Stores, HasSlot(t),
             storeOf' = [storeOf EXCEPT ![b] = t],
             count' = [count EXCEPT ![t] = @ + 1],
             status' = [status EXCEPT ![b] = "store_assigned"]
      PROVE  AllSlots'
  <2>1. NoEarlyStore'
    BY <1>3 DEF AllSlots, NoEarlyStore, TypeOK
  <2>2. ASSUME NEW s \in Stores PROVE SlotsCounted(s)'
    <3>1. /\ IsFiniteSet(LiveAt(s))
          /\ Cardinality(LiveAt(s)) <= count[s]
          /\ Cardinality(LiveAt(s)) <= Capacity[s]
      BY DEF AllSlots, SlotsCounted
    <3>2. Cardinality(LiveAt(s)) \in Nat
      BY <3>1, FS_CardinalityType
    <3>3. count[s] \in Nat /\ Capacity[s] \in Nat
      BY CapacityAssumption DEF TypeOK
    <3>4. b \notin LiveAt(s)
      BY <1>1 DEF LiveAt, Live, Reserved, PickupLeg, AwaitingReturn
    <3>5. CASE s = t
      <4>1. LiveAt(s)' = LiveAt(s) \cup {b}
        BY <1>3, <3>5 DEF LiveAt, TypeOK, Live, Reserved
      <4>2. /\ IsFiniteSet(LiveAt(s)')
            /\ Cardinality(LiveAt(s)') = Cardinality(LiveAt(s)) + 1
        BY <3>1, <3>4, <4>1, FS_AddElement
      <4>3. count'[s] = count[s] + 1 /\ count[s] < Capacity[s]
        BY <1>3, <3>5 DEF HasSlot, TypeOK
      <4>. QED BY <3>1, <3>2, <3>3, <4>2, <4>3 DEF SlotsCounted
    <3>6. CASE s # t
      <4>1. LiveAt(s)' = LiveAt(s)
        BY <1>1, <1>3, <3>4, <3>6 DEF LiveAt, TypeOK
      <4>2. count'[s] = count[s]
        BY <1>3, <3>6 DEF TypeOK
      <4>. QED BY <3>1, <4>1, <4>2 DEF SlotsCounted
    <3>. QED BY <3>5, <3>6
  <2>. QED BY <2>1, <2>2 DEF AllSlots
<1>. QED BY <1>2, <1>3 DEF AssignStore

------------------------------------------------------------------------------
\* Before the first booking every store is empty.
LEMMA SlotInit == Init => SlotInv
<1> SUFFICES ASSUME Init PROVE SlotInv
  OBVIOUS
<1>1. \A h \in Handlers : SawLive(h)
  BY DEF Init, SawLive, Idle, RideSteps, RideWrites
<1>2. NoEarlyStore
  BY DEF Init, NoEarlyStore
<1>3. ASSUME NEW s \in Stores PROVE SlotsCounted(s)
  <2>1. LiveAt(s) = {}
    BY DEF Init, LiveAt, Live, Reserved, PickupLeg, AwaitingReturn
  <2>2. count[s] = 0 /\ Capacity[s] \in Nat
    BY CapacityAssumption DEF Init
  <2>. QED BY <2>1, <2>2, FS_EmptySet DEF SlotsCounted
<1>. QED BY <1>1, <1>2, <1>3 DEF SlotInv

\* One step of any handler, a crash included, keeps the invariant as long as no
\* stale write lands.
LEMMA SlotStep == ASSUME TypeOK, TypeOK', SlotInv, [Next]_vars PROVE SlotInv'
  <2>. DEFINE Kept == (\A g \in Handlers : SawLive(g)') /\ AllSlots'
  <2> SUFFICES ASSUME \A g \in Handlers : SawLive(g), AllSlots, stale = {}, stale' = {}
               PROVE  Kept
    <3>1. stale' = {} => stale = {}
      BY HistoryGrows
    <3>. QED BY <3>1 DEF SlotInv, AllSlots
  <2> USE DEF TypeOK, Status, PickupLeg, DeliveryLeg, Terminal, AwaitingReturn, Cancellable,
              DriverSearch, places, rides, market, Move, Begin, Continue, Blind, End,
              Continuation, Idle, Steps, RideSteps, RideWrites, At, Live, Reserved
  <2>1. ASSUME NEW b \in Bookings, RetryPayment(b) PROVE Kept
    <3>1. \A g \in Handlers : SawLive(g)'
      BY <2>1 DEF RetryPayment, SawLive
    <3>2. SlotsQuiet
      BY <2>1 DEF RetryPayment, SlotsQuiet
    <3>. QED BY <3>1, <3>2, SlotsQuietStep
  <2>2. ASSUME NEW b \in Bookings, OfferEnds(b) PROVE Kept
    <3>1. \A g \in Handlers : SawLive(g)'
      BY <2>2 DEF OfferEnds, SawLive
    <3>2. SlotsQuiet
      BY <2>2 DEF OfferEnds, SlotsQuiet
    <3>. QED BY <3>1, <3>2, SlotsQuietStep
  <2>3. ASSUME NEW b \in Bookings, ReturnPaid(b) PROVE Kept
    <3>1. \A g \in Handlers : SawLive(g)'
      BY <2>3 DEF ReturnPaid, HandlersAfterSave, SawLive
    <3>2. SlotsQuiet
      BY <2>3 DEF ReturnPaid, HandlersAfterSave, SlotsQuiet
    <3>. QED BY <3>1, <3>2, SlotsQuietStep
  <2>4. ASSUME NEW b \in Bookings, ArriveAtPickup(b) PROVE Kept
    <3>1. \A g \in Handlers : SawLive(g)'
      BY <2>4 DEF ArriveAtPickup, Arrive, SawLive
    <3>2. SlotsQuiet
      BY <2>4 DEF ArriveAtPickup, Arrive, SlotsQuiet
    <3>. QED BY <3>1, <3>2, SlotsQuietStep
  <2>5. ASSUME NEW b \in Bookings, ArriveAtStore(b) PROVE Kept
    <3>1. \A g \in Handlers : SawLive(g)'
      BY <2>5 DEF ArriveAtStore, Arrive, SawLive
    <3>2. SlotsQuiet
      BY <2>5 DEF ArriveAtStore, Arrive, SlotsQuiet
    <3>. QED BY <3>1, <3>2, SlotsQuietStep
  <2>6. ASSUME NEW b \in Bookings, ArriveAtStoreForReturn(b) PROVE Kept
    <3>1. \A g \in Handlers : SawLive(g)'
      BY <2>6 DEF ArriveAtStoreForReturn, Arrive, SawLive
    <3>2. SlotsQuiet
      BY <2>6 DEF ArriveAtStoreForReturn, Arrive, SlotsQuiet
    <3>. QED BY <3>1, <3>2, SlotsQuietStep
  <2>7. ASSUME NEW b \in Bookings, ArriveAtUserReturn(b) PROVE Kept
    <3>1. \A g \in Handlers : SawLive(g)'
      BY <2>7 DEF ArriveAtUserReturn, Arrive, SawLive
    <3>2. SlotsQuiet
      BY <2>7 DEF ArriveAtUserReturn, Arrive, SlotsQuiet
    <3>. QED BY <3>1, <3>2, SlotsQuietStep
  <2>8. ASSUME NEW b \in Bookings, AssignStore(b) PROVE Kept
    <3>1. \A g \in Handlers : SawLive(g)'
      BY <2>8 DEF AssignStore, SawLive
    <3>. QED BY <2>8, <3>1, AssignStep
  <2>9. ASSUME NEW b \in Bookings, CancelUnseen(b) PROVE Kept
    <3>1. \A g \in Handlers : SawLive(g)'
      BY <2>9 DEF CancelUnseen, SawLive
    <3>. QED BY <2>9, <3>1, AutoCancelStep DEF CancelUnseen
  <2>10. ASSUME NEW h \in Handlers, WriteOffer(h) PROVE Kept
    <3>1. \A g \in Handlers : SawLive(g)'
      BY <2>10 DEF WriteOffer, SawLive
    <3>2. SlotsQuiet
      BY <2>10 DEF WriteOffer, SlotsQuiet
    <3>. QED BY <3>1, <3>2, SlotsQuietStep
  <2>11. ASSUME NEW h \in Handlers, NEW b \in Bookings, NEW d \in Drivers,
                AcceptBookingOffer(h, b, d)
        PROVE  Kept
    <3>1. \A g \in Handlers : SawLive(g)'
      BY <2>11 DEF AcceptBookingOffer, Accepting, TakePickup, TakeDelivery, SawLive
    <3>2. SlotsQuiet
      BY <2>11 DEF AcceptBookingOffer, Accepting, TakePickup, TakeDelivery, SlotsQuiet
    <3>. QED BY <3>1, <3>2, SlotsQuietStep
  <2>12. ASSUME NEW h \in Handlers, NEW b \in Bookings, SchedulePickup(h, b)
         PROVE  Kept
    <3>1. \A g \in Handlers : SawLive(g)'
      BY <2>12 DEF SchedulePickup, SawLive
    <3>2. SlotsQuiet
      BY <2>12 DEF SchedulePickup, SlotsQuiet
    <3>. QED BY <3>1, <3>2, SlotsQuietStep
  <2>13. ASSUME NEW h \in Handlers, NEW b \in Bookings, ExpiryJob(h, b) PROVE Kept
    <3>1. \A g \in Handlers : SawLive(g)'
      BY <2>13 DEF ExpiryJob, SawLive
    <3>2. SlotsQuiet
      BY <2>13 DEF ExpiryJob, SlotsQuiet
    <3>. QED BY <3>1, <3>2, SlotsQuietStep
  <2>14. ASSUME NEW h \in Handlers, NEW b \in Bookings, PickupSearchFailed(h, b)
        PROVE  Kept
    <3>1. \A g \in Handlers : SawLive(g)'
      BY <2>14 DEF PickupSearchFailed, SawLive
    <3>2. SlotsQuiet
      BY <2>14 DEF PickupSearchFailed, SlotsQuiet
    <3>. QED BY <3>1, <3>2, SlotsQuietStep
  <2>15. ASSUME NEW h \in Handlers, NEW b \in Bookings, ReturnSearchFailed(h, b)
        PROVE  Kept
    <3>1. \A g \in Handlers : SawLive(g)'
      BY <2>15 DEF ReturnSearchFailed, SawLive
    <3>2. SlotsQuiet
      BY <2>15 DEF ReturnSearchFailed, SlotsQuiet
    <3>. QED BY <3>1, <3>2, SlotsQuietStep
  <2>16. ASSUME NEW h \in Handlers, NEW b \in Bookings, ConfirmStored(h, b) PROVE Kept
    <3>1. \A g \in Handlers : SawLive(g)'
      BY <2>16 DEF ConfirmStored, SawLive
    <3>2. SlotsQuiet
      BY <2>16 DEF ConfirmStored, SlotsQuiet
    <3>. QED BY <3>1, <3>2, SlotsQuietStep
  <2>17. ASSUME NEW h \in Handlers, NEW b \in Bookings, RequestReturn(h, b) PROVE Kept
    <3>1. \A g \in Handlers : SawLive(g)'
      BY <2>17 DEF RequestReturn, SawLive
    <3>2. SlotsQuiet
      BY <2>17 DEF RequestReturn, SlotsQuiet
    <3>. QED BY <3>1, <3>2, SlotsQuietStep
  <2>18. ASSUME NEW h \in Handlers, NEW b \in Bookings, CancelByUser(h, b) PROVE Kept
    <3>1. \A g \in Handlers : SawLive(g)'
      BY <2>18 DEF CancelByUser, SawLive
    <3>2. AllSlots'
      BY <2>18, ReleaseStep DEF CancelByUser
    <3>. QED BY <3>1, <3>2
  <2>19. ASSUME NEW h \in Handlers, NEW b \in Bookings, NEW d \in Drivers, AcceptRide(h, b, d)
        PROVE  Kept
    <3>1. \A g \in Handlers : SawLive(g)'
      BY <2>19 DEF AcceptRide, Accepting, TakePickup, TakeDelivery, SawLive
    <3>2. SlotsQuiet
      BY <2>19 DEF AcceptRide, Accepting, TakePickup, TakeDelivery, SlotsQuiet
    <3>. QED BY <3>1, <3>2, SlotsQuietStep
  <2>20. ASSUME NEW h \in Handlers, NEW b \in Bookings, NEW d \in Drivers,
                NEW step \in RideSteps, BeginRideStep(h, step, b, d)
        PROVE  Kept
    <3>1. \A g \in Handlers : SawLive(g)'
      BY <2>20 DEF BeginRideStep, MayComplete, SawLive
    <3>2. SlotsQuiet
      BY <2>20 DEF BeginRideStep, SlotsQuiet
    <3>. QED BY <3>1, <3>2, SlotsQuietStep
  <2>21. ASSUME NEW h \in Handlers, ArmExpiry(h) PROVE Kept
    <3>1. \A g \in Handlers : SawLive(g)'
      BY <2>21 DEF ArmExpiry, SawLive
    <3>2. SlotsQuiet
      BY <2>21 DEF ArmExpiry, SlotsQuiet
    <3>. QED BY <3>1, <3>2, SlotsQuietStep
  <2>22. ASSUME NEW h \in Handlers, ClaimDriver(h) PROVE Kept
    <3>1. \A g \in Handlers : SawLive(g)'
      BY <2>22 DEF ClaimDriver, SawLive
    <3>2. SlotsQuiet
      BY <2>22 DEF ClaimDriver, SlotsQuiet
    <3>. QED BY <3>1, <3>2, SlotsQuietStep
  <2>23. ASSUME NEW h \in Handlers, NullAssignment(h) PROVE Kept
    <3>1. \A g \in Handlers : SawLive(g)'
      BY <2>23 DEF NullAssignment, NoteWrite, SawLive
    <3>2. SlotsQuiet
      BY <2>23 DEF NullAssignment, NoteWrite, SlotsQuiet
    <3>. QED BY <3>1, <3>2, SlotsQuietStep
  <2>24. ASSUME NEW h \in Handlers, TerminalGuard(h) PROVE Kept
    <3>1. \A g \in Handlers : SawLive(g)'
      BY <2>24 DEF TerminalGuard, WriteOf, SawLive
    <3>2. SlotsQuiet
      BY <2>24 DEF TerminalGuard, WriteOf, SlotsQuiet
    <3>. QED BY <3>1, <3>2, SlotsQuietStep
  <2>25. ASSUME NEW h \in Handlers, ReleaseDriver(h) PROVE Kept
    <3>1. \A g \in Handlers : SawLive(g)'
      BY <2>25 DEF ReleaseDriver, SawLive
    <3>2. SlotsQuiet
      BY <2>25 DEF ReleaseDriver, SlotsQuiet
    <3>. QED BY <3>1, <3>2, SlotsQuietStep
  <2>26. ASSUME NEW h \in Handlers, CountStored(h) PROVE Kept
    <3>1. \A g \in Handlers : SawLive(g)'
      BY <2>26 DEF CountStored, SawLive
    <3>2. SlotsQuiet
      BY <2>26 DEF CountStored, SlotsQuiet
    <3>. QED BY <3>1, <3>2, SlotsQuietStep
  <2>27. ASSUME NEW h \in Handlers, Crash(h) PROVE Kept
    <3>1. \A g \in Handlers : SawLive(g)'
      BY <2>27 DEF Crash, SawLive
    <3>2. SlotsQuiet
      BY <2>27 DEF Crash, SlotsQuiet
    <3>. QED BY <3>1, <3>2, SlotsQuietStep
  <2>28. ASSUME NEW h \in Handlers, CancelDecided(h) PROVE Kept
    <3>1. \A g \in Handlers : SawLive(g)'
      BY <2>28 DEF CancelDecided, AutoCancel, SawLive
    <3>2. handler[h].b \in Bookings
      BY <2>28 DEF CancelDecided
    <3>3. AutoCancel(handler[h].b) \/ UNCHANGED <<status, places>>
      BY <2>28 DEF CancelDecided
    <3>4. UNCHANGED <<status, places>> => SlotsQuiet
      BY DEF SlotsQuiet
    <3>. QED BY <3>1, <3>2, <3>3, <3>4, AutoCancelStep, SlotsQuietStep
  <2>29. ASSUME NEW h \in Handlers, WriteRideStep(h) PROVE Kept
    <3>1. \A g \in Handlers : SawLive(g)'
      BY <2>29 DEF WriteRideStep, NoteWrite, SawLive
    <3>2. handler[h].b \in Bookings /\ handler[h].saw \in Live
      BY <2>29 DEF WriteRideStep, SawLive
    <3>3. status[handler[h].b] = handler[h].saw
      <4>1. NoteWrite(h, handler[h].b)
        BY <2>29 DEF WriteRideStep
      <4>2. stale = {} /\ stale' = {}
        OBVIOUS
      <4>. QED BY <3>2, <4>1, <4>2 DEF NoteWrite
    <3>4. PICK s \in {"picked_up", "out_for_return", "delivered"} :
             status' = [status EXCEPT ![handler[h].b] = s]
      BY <2>29 DEF WriteRideStep, Target
    <3>5. /\ storeOf' = storeOf
          /\ \A t \in Stores : count'[t] >= count[t]
      <4>1. UNCHANGED <<storeOf, count>>
        BY <2>29 DEF WriteRideStep
      <4>. QED BY <4>1
    <3>6. SlotsQuiet
      BY <3>2, <3>3, <3>4, <3>5 DEF SlotsQuiet
    <3>. QED BY <3>1, <3>6, SlotsQuietStep
  <2>30. ASSUME NEW h \in Handlers, SaveReturn(h) PROVE Kept
    <3>1. \A g \in Handlers : SawLive(g)'
      BY <2>30 DEF SaveReturn, HandlersAfterSave, NoteWrite, QuotedStatus, SawLive
    <3>2. handler[h].b \in Bookings /\ handler[h].saw \in Live
      BY <2>30 DEF SaveReturn, SawLive
    <3>3. \/ status' = status
          \/ \E s \in {"final_payment_pending", "return_requested"} :
                Move(handler[h].b, s) /\ NoteWrite(h, handler[h].b)
      BY <2>30 DEF SaveReturn, QuotedStatus
    <3>4. /\ storeOf' = storeOf
          /\ \A s \in Stores : count'[s] >= count[s]
      <4>1. UNCHANGED <<storeOf, count>>
        BY <2>30 DEF SaveReturn
      <4>. QED BY <4>1
    <3>5. ASSUME status' = status PROVE SlotsQuiet
      BY <3>4, <3>5 DEF SlotsQuiet
    <3>6. ASSUME NEW s \in {"final_payment_pending", "return_requested"},
                 Move(handler[h].b, s), NoteWrite(h, handler[h].b)
          PROVE  SlotsQuiet
      <4>1. stale = {} /\ stale' = {}
        OBVIOUS
      <4>2. status[handler[h].b] = handler[h].saw
        BY <3>2, <3>6, <4>1 DEF NoteWrite
      <4>. QED BY <3>2, <3>4, <3>6, <4>2 DEF SlotsQuiet
    <3>7. SlotsQuiet
      BY <3>3, <3>5, <3>6
    <3>. QED BY <3>1, <3>7, SlotsQuietStep
  <2>31. CASE UNCHANGED vars
    BY <2>31, SlotsQuietStep DEF vars, SawLive, SlotsQuiet
  <2>32. ASSUME NEW h \in Handlers, NEW b \in Bookings, NEW d \in Drivers,
                LookAtDriver(h, b, d)
        PROVE  Kept
    <3>1. \A g \in Handlers : SawLive(g)'
      BY <2>32 DEF LookAtDriver, SawLive
    <3>2. SlotsQuiet
      BY <2>32 DEF LookAtDriver, SlotsQuiet
    <3>. QED BY <3>1, <3>2, SlotsQuietStep
  <2>33. ASSUME NEW h \in Handlers, NEW b \in Bookings, NEW d \in Drivers,
                ReadOffer(h, b, d)
        PROVE  Kept
    <3>1. \A g \in Handlers : SawLive(g)'
      BY <2>33 DEF ReadOffer, SawLive
    <3>2. SlotsQuiet
      BY <2>33 DEF ReadOffer, SlotsQuiet
    <3>. QED BY <3>1, <3>2, SlotsQuietStep
  <2>34. ASSUME NEW h \in Handlers, AcceptFails(h) PROVE Kept
    <3>1. \A g \in Handlers : SawLive(g)'
      BY <2>34 DEF AcceptFails, SawLive
    <3>2. SlotsQuiet
      BY <2>34 DEF AcceptFails, SlotsQuiet
    <3>. QED BY <3>1, <3>2, SlotsQuietStep
  <2>. QED
    BY <2>1, <2>2, <2>3, <2>4, <2>5, <2>6, <2>7, <2>8, <2>9, <2>10, <2>11,
       <2>12, <2>13, <2>14, <2>15, <2>16, <2>17, <2>18, <2>19, <2>20, <2>21,
       <2>22, <2>23, <2>24, <2>25, <2>26, <2>27, <2>28, <2>29, <2>30, <2>31,
       <2>32, <2>33, <2>34
       DEF Next, Continuations, Accepts


\* Without a stale write, every store's counter covers what it holds and its
\* capacity bounds it, for any number of bookings, stores, handlers and crashes.
THEOREM SlotInvariant == Spec => []SlotInv
<1>1. TypeOK /\ TypeOK' /\ SlotInv /\ [Next]_vars => SlotInv'
  BY SlotStep
<1>. QED BY SlotInit, <1>1, TypeCorrect, PTL DEF Spec

\* The bookings whose luggage a store holds are among its live ones.
LEMMA HoldsWithinLive ==
    ASSUME NEW s \in Stores, IsFiniteSet(LiveAt(s))
    PROVE  /\ Cardinality(Holds(s)) \in Nat /\ Cardinality(LiveAt(s)) \in Nat
           /\ Cardinality(Holds(s)) <= Cardinality(LiveAt(s))
<1>1. Holds(s) \in SUBSET LiveAt(s)
  BY DEF Holds, LiveAt, Live
<1>. QED BY <1>1, FS_Subset, FS_CardinalityType

\* HoldsCounted: the counter never falls below what the store holds.
THEOREM CounterCovers == Spec => []HoldsCounted
<1>1. TypeOK /\ SlotInv => HoldsCounted
  BY HoldsWithinLive DEF SlotInv, SlotsCounted, HoldsCounted, TypeOK
<1>. QED BY <1>1, SlotInvariant, TypeCorrect, PTL

\* NeverOverbooked: no interleaving of payments, cancellations and hand-overs
\* gives a store more luggage than it has room for.
THEOREM Overbooking == Spec => []NeverOverbooked
<1>1. SlotInv => NeverOverbooked
  BY HoldsWithinLive, CapacityAssumption DEF SlotInv, SlotsCounted, NeverOverbooked
<1>. QED BY <1>1, SlotInvariant, PTL

------------------------------------------------------------------------------
(* The store's hand-over endpoint. *)

\* One step of any handler keeps what is known of the code of the user's door.
LEMMA UserCodeStep == ASSUME TypeOK, UserCodeInv, [Next]_vars PROVE UserCodeInv'
  <2> USE NoneIsNobody
      DEF UserCodeInv, TypeOK, places, rides, market, Move
  <2>1. ASSUME NEW b \in Bookings, AssignStore(b) PROVE UserCodeInv'
    BY <2>1 DEF AssignStore
  <2>2. ASSUME NEW b \in Bookings, CancelUnseen(b) PROVE UserCodeInv'
    BY <2>2 DEF CancelUnseen, AutoCancel
  <2>3. ASSUME NEW b \in Bookings, RetryPayment(b) PROVE UserCodeInv'
    BY <2>3 DEF RetryPayment
  <2>4. ASSUME NEW b \in Bookings, OfferEnds(b) PROVE UserCodeInv'
    BY <2>4 DEF OfferEnds
  <2>5. ASSUME NEW b \in Bookings, ReturnPaid(b) PROVE UserCodeInv'
    BY <2>5 DEF ReturnPaid, HandlersAfterSave
  <2>6. ASSUME NEW b \in Bookings, ArriveAtPickup(b) PROVE UserCodeInv'
    BY <2>6 DEF ArriveAtPickup, Arrive
  <2>7. ASSUME NEW b \in Bookings, ArriveAtStore(b) PROVE UserCodeInv'
    BY <2>7 DEF ArriveAtStore, Arrive
  <2>8. ASSUME NEW b \in Bookings, ArriveAtStoreForReturn(b) PROVE UserCodeInv'
    BY <2>8 DEF ArriveAtStoreForReturn, Arrive
  <2>9. ASSUME NEW b \in Bookings, ArriveAtUserReturn(b) PROVE UserCodeInv'
    BY <2>9 DEF ArriveAtUserReturn, Arrive
  <2>10. ASSUME NEW h \in Handlers, WriteOffer(h) PROVE UserCodeInv'
    BY <2>10 DEF WriteOffer
  <2>11. ASSUME NEW h \in Handlers, NEW b \in Bookings, NEW d \in Drivers,
                AcceptBookingOffer(h, b, d)
        PROVE  UserCodeInv'
    BY <2>11 DEF AcceptBookingOffer, Accepting, TakePickup, TakeDelivery
  <2>12. ASSUME NEW h \in Handlers, NEW b \in Bookings, SchedulePickup(h, b)
        PROVE  UserCodeInv'
    BY <2>12 DEF SchedulePickup
  <2>13. ASSUME NEW h \in Handlers, NEW b \in Bookings, CancelByUser(h, b)
        PROVE  UserCodeInv'
    BY <2>13 DEF CancelByUser
  <2>14. ASSUME NEW h \in Handlers, NEW b \in Bookings, ExpiryJob(h, b)
        PROVE  UserCodeInv'
    BY <2>14 DEF ExpiryJob
  <2>15. ASSUME NEW h \in Handlers, NEW b \in Bookings, PickupSearchFailed(h, b)
        PROVE  UserCodeInv'
    BY <2>15 DEF PickupSearchFailed
  <2>16. ASSUME NEW h \in Handlers, NEW b \in Bookings, ReturnSearchFailed(h, b)
        PROVE  UserCodeInv'
    BY <2>16 DEF ReturnSearchFailed
  <2>17. ASSUME NEW h \in Handlers, NEW b \in Bookings, ConfirmStored(h, b)
        PROVE  UserCodeInv'
    BY <2>17 DEF ConfirmStored
  <2>18. ASSUME NEW h \in Handlers, NEW b \in Bookings, RequestReturn(h, b)
        PROVE  UserCodeInv'
    BY <2>18 DEF RequestReturn
  <2>19. ASSUME NEW h \in Handlers, NEW b \in Bookings, NEW d \in Drivers, AcceptRide(h, b, d)
        PROVE  UserCodeInv'
    BY <2>19 DEF AcceptRide, Accepting, TakePickup, TakeDelivery
  <2>20. ASSUME NEW h \in Handlers, NEW b \in Bookings, NEW d \in Drivers,
                NEW step \in RideSteps, BeginRideStep(h, step, b, d)
        PROVE  UserCodeInv'
    BY <2>20 DEF BeginRideStep, MayComplete
  <2>21. ASSUME NEW h \in Handlers, ArmExpiry(h) PROVE UserCodeInv'
    BY <2>21 DEF ArmExpiry
  <2>22. ASSUME NEW h \in Handlers, CancelDecided(h) PROVE UserCodeInv'
    BY <2>22 DEF CancelDecided, AutoCancel
  <2>23. ASSUME NEW h \in Handlers, ClaimDriver(h) PROVE UserCodeInv'
    BY <2>23 DEF ClaimDriver
  <2>24. ASSUME NEW h \in Handlers, NullAssignment(h) PROVE UserCodeInv'
    BY <2>24 DEF NullAssignment, NoteWrite
  <2>25. ASSUME NEW h \in Handlers, TerminalGuard(h) PROVE UserCodeInv'
    BY <2>25 DEF TerminalGuard, WriteOf
  <2>26. ASSUME NEW h \in Handlers, WriteRideStep(h) PROVE UserCodeInv'
    <3>1. PICK s \in {"picked_up", "out_for_return", "delivered"} :
             status' = [status EXCEPT ![handler[h].b] = s]
      BY <2>26 DEF WriteRideStep, Target, RideWrites
    <3>2. UNCHANGED <<deliveryDriver, codes>>
      BY <2>26 DEF WriteRideStep
    <3>. QED BY <3>1, <3>2
  <2>27. ASSUME NEW h \in Handlers, ReleaseDriver(h) PROVE UserCodeInv'
    BY <2>27 DEF ReleaseDriver
  <2>28. ASSUME NEW h \in Handlers, CountStored(h) PROVE UserCodeInv'
    BY <2>28 DEF CountStored
  <2>29. ASSUME NEW h \in Handlers, SaveReturn(h) PROVE UserCodeInv'
    BY <2>29 DEF SaveReturn, HandlersAfterSave, NoteWrite, QuotedStatus
  <2>30. ASSUME NEW h \in Handlers, Crash(h) PROVE UserCodeInv'
    BY <2>30 DEF Crash
  <2>31. CASE UNCHANGED vars
    BY <2>31 DEF vars
  <2>32. ASSUME NEW h \in Handlers, NEW b \in Bookings, NEW d \in Drivers,
                LookAtDriver(h, b, d)
        PROVE  UserCodeInv'
    BY <2>32 DEF LookAtDriver
  <2>33. ASSUME NEW h \in Handlers, NEW b \in Bookings, NEW d \in Drivers,
                ReadOffer(h, b, d)
        PROVE  UserCodeInv'
    BY <2>33 DEF ReadOffer
  <2>34. ASSUME NEW h \in Handlers, AcceptFails(h) PROVE UserCodeInv'
    BY <2>34 DEF AcceptFails
  <2>. QED
    BY <2>1, <2>2, <2>3, <2>4, <2>5, <2>6, <2>7, <2>8, <2>9, <2>10, <2>11,
       <2>12, <2>13, <2>14, <2>15, <2>16, <2>17, <2>18, <2>19, <2>20, <2>21,
       <2>22, <2>23, <2>24, <2>25, <2>26, <2>27, <2>28, <2>29, <2>30, <2>31,
       <2>32, <2>33, <2>34
       DEF Next, Continuations, Accepts

\* StoreHandoverUnreachable: no order of searches, hand-overs and stale writes
\* sets the user's code on luggage that waits at the store for a driver.
THEOREM HandoverUnreachable == Spec => []StoreHandoverUnreachable
<1>1. Init => UserCodeInv
  BY DEF Init, UserCodeInv
<1>2. TypeOK /\ UserCodeInv /\ [Next]_vars => UserCodeInv'
  BY UserCodeStep
<1>3. UserCodeInv => StoreHandoverUnreachable
  BY DEF UserCodeInv, StoreHandoverUnreachable, MayVerifyReturnOtp
<1>. QED BY <1>1, <1>2, <1>3, TypeCorrect, PTL DEF Spec

------------------------------------------------------------------------------
(* The writes that name the booking by its id alone. *)

\* A write by id alone, to a booking no stale write has hit: it lands on the
\* status its handler had read.
LEMMA RideWrite ==
    ASSUME TypeOK, NEW h \in Handlers, WriteRideStep(h), SawBefore(h)
    PROVE  \E b \in Bookings, s \in Status :
              /\ b = handler[h].b
              /\ status' = [status EXCEPT ![b] = s]
              /\ \/ b \in stale'
                 \/ status[b] = "driver_arrived" /\ s = "picked_up"
                 \/ status[b] = "return_driver_assigned" /\ s = "out_for_return"
                 \/ status[b] = "arrived_for_delivery" /\ s = "delivered"
<1>1. handler[h].b \in Bookings
  BY DEF TypeOK, WriteRideStep, RideWrites, Continuation, Idle
<1>2. handler[h].b \in stale' \/ status[handler[h].b] = handler[h].saw
  BY <1>1 DEF WriteRideStep, NoteWrite
<1>3. status' = [status EXCEPT ![handler[h].b] = Target[handler[h].do]]
  BY DEF WriteRideStep, Move
<1>4. CASE At(h, "pickup_write")
  BY <1>1, <1>2, <1>3, <1>4
     DEF At, SawBefore, Target, RideSteps, RideWrites, Status, PickupLeg
<1>5. CASE At(h, "handover_write")
  BY <1>1, <1>2, <1>3, <1>5
     DEF At, SawBefore, Target, RideSteps, RideWrites, Status, DeliveryLeg
<1>6. CASE At(h, "deliver_write")
  BY <1>1, <1>2, <1>3, <1>6
     DEF At, SawBefore, Target, RideSteps, RideWrites, Status
<1>. QED BY <1>4, <1>5, <1>6 DEF WriteRideStep, RideWrites, At

\* The same of the save that ends a request for the return.
LEMMA ReturnWrite ==
    ASSUME TypeOK, NEW h \in Handlers, SaveReturn(h), SawBefore(h)
    PROVE  \/ status' = status
           \/ \E b \in Bookings, s \in {"final_payment_pending", "return_requested"} :
                 /\ b = handler[h].b
                 /\ status' = [status EXCEPT ![b] = s]
                 /\ b \in stale' \/ status[b] \in {"stored", "final_payment_pending"}
<1>1. handler[h].b \in Bookings
  BY DEF TypeOK, SaveReturn, At, Continuation, Idle
<1>2. PICK s \in QuotedStatus(handler[h].saw) :
         IF s = handler[h].saw
         THEN UNCHANGED <<status, stale>>
         ELSE Move(handler[h].b, s) /\ NoteWrite(h, handler[h].b)
  BY DEF SaveReturn
<1>3. CASE s = handler[h].saw
  BY <1>2, <1>3
<1>4. CASE s # handler[h].saw
  <2>1. handler[h].saw \notin AwaitingReturn
    BY <1>4 DEF QuotedStatus
  <2>2. handler[h].saw \in {"stored", "final_payment_pending"}
    BY <2>1 DEF SaveReturn, SawBefore
  <2>3. s \in {"final_payment_pending", "return_requested"}
    BY <2>1 DEF QuotedStatus
  <2>4. handler[h].b \in stale' \/ status[handler[h].b] = handler[h].saw
    BY <1>1, <1>2, <1>4 DEF NoteWrite
  <2>. QED BY <1>1, <1>2, <1>4, <2>2, <2>3, <2>4 DEF Move
<1>. QED BY <1>3, <1>4

\* One step keeps what the handlers read before they write.
LEMMA TableStep == ASSUME TypeOK, TableInv, [Next]_vars PROVE TableInv'
  <2>. DEFINE Kept == /\ \A g \in Handlers : handler'[g].b \notin stale' => SawBefore(g)'
                      /\ \A c \in Bookings \ stale' : CodeAtDoor(c)'
  <2> SUFFICES ASSUME \A g \in Handlers : handler[g].b \notin stale => SawBefore(g),
                      \A c \in Bookings \ stale : CodeAtDoor(c)
               PROVE  Kept
    BY DEF TableInv
  <2> USE DEF TypeOK, Status, PickupLeg, DeliveryLeg, Terminal, AwaitingReturn, Cancellable,
              DriverSearch, places, rides, market, Move, Begin, Continue, Blind, End,
              Continuation, Idle, Steps, RideSteps, RideWrites, At
  <2>1. ASSUME NEW b \in Bookings, AssignStore(b) PROVE Kept
    <3>1. \A g \in Handlers : handler'[g].b \notin stale' => SawBefore(g)'
      BY <2>1 DEF AssignStore, SawBefore
    <3>2. \A c \in Bookings \ stale' : CodeAtDoor(c)'
      BY <2>1 DEF AssignStore, CodeAtDoor
    <3>. QED BY <3>1, <3>2
  <2>2. ASSUME NEW b \in Bookings, CancelUnseen(b) PROVE Kept
    <3>1. \A g \in Handlers : handler'[g].b \notin stale' => SawBefore(g)'
      BY <2>2 DEF CancelUnseen, AutoCancel, SawBefore
    <3>2. \A c \in Bookings \ stale' : CodeAtDoor(c)'
      BY <2>2 DEF CancelUnseen, AutoCancel, CodeAtDoor
    <3>. QED BY <3>1, <3>2
  <2>3. ASSUME NEW b \in Bookings, RetryPayment(b) PROVE Kept
    <3>1. \A g \in Handlers : handler'[g].b \notin stale' => SawBefore(g)'
      BY <2>3 DEF RetryPayment, SawBefore
    <3>2. \A c \in Bookings \ stale' : CodeAtDoor(c)'
      BY <2>3 DEF RetryPayment, CodeAtDoor
    <3>. QED BY <3>1, <3>2
  <2>4. ASSUME NEW b \in Bookings, OfferEnds(b) PROVE Kept
    <3>1. \A g \in Handlers : handler'[g].b \notin stale' => SawBefore(g)'
      BY <2>4 DEF OfferEnds, SawBefore
    <3>2. \A c \in Bookings \ stale' : CodeAtDoor(c)'
      BY <2>4 DEF OfferEnds, CodeAtDoor
    <3>. QED BY <3>1, <3>2
  <2>5. ASSUME NEW b \in Bookings, ReturnPaid(b) PROVE Kept
    <3>1. \A g \in Handlers : handler'[g].b \notin stale' => SawBefore(g)'
      BY <2>5 DEF ReturnPaid, HandlersAfterSave, SawBefore
    <3>2. \A c \in Bookings \ stale' : CodeAtDoor(c)'
      BY <2>5 DEF ReturnPaid, HandlersAfterSave, CodeAtDoor
    <3>. QED BY <3>1, <3>2
  <2>6. ASSUME NEW b \in Bookings, ArriveAtPickup(b) PROVE Kept
    <3>1. \A g \in Handlers : handler'[g].b \notin stale' => SawBefore(g)'
      BY <2>6 DEF ArriveAtPickup, Arrive, SawBefore
    <3>2. \A c \in Bookings \ stale' : CodeAtDoor(c)'
      BY <2>6 DEF ArriveAtPickup, Arrive, CodeAtDoor
    <3>. QED BY <3>1, <3>2
  <2>7. ASSUME NEW b \in Bookings, ArriveAtStore(b) PROVE Kept
    <3>1. \A g \in Handlers : handler'[g].b \notin stale' => SawBefore(g)'
      BY <2>7 DEF ArriveAtStore, Arrive, SawBefore
    <3>2. \A c \in Bookings \ stale' : CodeAtDoor(c)'
      BY <2>7 DEF ArriveAtStore, Arrive, CodeAtDoor
    <3>. QED BY <3>1, <3>2
  <2>8. ASSUME NEW b \in Bookings, ArriveAtStoreForReturn(b) PROVE Kept
    <3>1. \A g \in Handlers : handler'[g].b \notin stale' => SawBefore(g)'
      BY <2>8 DEF ArriveAtStoreForReturn, Arrive, SawBefore
    <3>2. \A c \in Bookings \ stale' : CodeAtDoor(c)'
      BY <2>8 DEF ArriveAtStoreForReturn, Arrive, CodeAtDoor
    <3>. QED BY <3>1, <3>2
  <2>9. ASSUME NEW b \in Bookings, ArriveAtUserReturn(b) PROVE Kept
    <3>1. \A g \in Handlers : handler'[g].b \notin stale' => SawBefore(g)'
      BY <2>9 DEF ArriveAtUserReturn, Arrive, SawBefore
    <3>2. \A c \in Bookings \ stale' : CodeAtDoor(c)'
      BY <2>9 DEF ArriveAtUserReturn, Arrive, CodeAtDoor
    <3>. QED BY <3>1, <3>2
  <2>10. ASSUME NEW h \in Handlers, WriteOffer(h) PROVE Kept
    <3>1. \A g \in Handlers : handler'[g].b \notin stale' => SawBefore(g)'
      BY <2>10 DEF WriteOffer, SawBefore
    <3>2. \A c \in Bookings \ stale' : CodeAtDoor(c)'
      BY <2>10 DEF WriteOffer, CodeAtDoor
    <3>. QED BY <3>1, <3>2
  <2>11. ASSUME NEW h \in Handlers, NEW b \in Bookings, NEW d \in Drivers,
                AcceptBookingOffer(h, b, d)
        PROVE  Kept
    <3>1. \A g \in Handlers : handler'[g].b \notin stale' => SawBefore(g)'
      BY <2>11 DEF AcceptBookingOffer, Accepting, TakePickup, TakeDelivery, SawBefore
    <3>2. \A c \in Bookings \ stale' : CodeAtDoor(c)'
      BY <2>11 DEF AcceptBookingOffer, Accepting, TakePickup, TakeDelivery, CodeAtDoor
    <3>. QED BY <3>1, <3>2
  <2>12. ASSUME NEW h \in Handlers, NEW b \in Bookings, SchedulePickup(h, b)
        PROVE  Kept
    <3>1. \A g \in Handlers : handler'[g].b \notin stale' => SawBefore(g)'
      BY <2>12 DEF SchedulePickup, SawBefore
    <3>2. \A c \in Bookings \ stale' : CodeAtDoor(c)'
      BY <2>12 DEF SchedulePickup, CodeAtDoor
    <3>. QED BY <3>1, <3>2
  <2>13. ASSUME NEW h \in Handlers, NEW b \in Bookings, CancelByUser(h, b)
        PROVE  Kept
    <3>1. \A g \in Handlers : handler'[g].b \notin stale' => SawBefore(g)'
      BY <2>13 DEF CancelByUser, SawBefore
    <3>2. \A c \in Bookings \ stale' : CodeAtDoor(c)'
      BY <2>13 DEF CancelByUser, CodeAtDoor
    <3>. QED BY <3>1, <3>2
  <2>14. ASSUME NEW h \in Handlers, NEW b \in Bookings, ExpiryJob(h, b)
        PROVE  Kept
    <3>1. \A g \in Handlers : handler'[g].b \notin stale' => SawBefore(g)'
      BY <2>14 DEF ExpiryJob, SawBefore
    <3>2. \A c \in Bookings \ stale' : CodeAtDoor(c)'
      BY <2>14 DEF ExpiryJob, CodeAtDoor
    <3>. QED BY <3>1, <3>2
  <2>15. ASSUME NEW h \in Handlers, NEW b \in Bookings, PickupSearchFailed(h, b)
        PROVE  Kept
    <3>1. \A g \in Handlers : handler'[g].b \notin stale' => SawBefore(g)'
      BY <2>15 DEF PickupSearchFailed, SawBefore
    <3>2. \A c \in Bookings \ stale' : CodeAtDoor(c)'
      BY <2>15 DEF PickupSearchFailed, CodeAtDoor
    <3>. QED BY <3>1, <3>2
  <2>16. ASSUME NEW h \in Handlers, NEW b \in Bookings, ReturnSearchFailed(h, b)
        PROVE  Kept
    <3>1. \A g \in Handlers : handler'[g].b \notin stale' => SawBefore(g)'
      BY <2>16 DEF ReturnSearchFailed, SawBefore
    <3>2. \A c \in Bookings \ stale' : CodeAtDoor(c)'
      BY <2>16 DEF ReturnSearchFailed, CodeAtDoor
    <3>. QED BY <3>1, <3>2
  <2>17. ASSUME NEW h \in Handlers, NEW b \in Bookings, ConfirmStored(h, b)
        PROVE  Kept
    <3>1. \A g \in Handlers : handler'[g].b \notin stale' => SawBefore(g)'
      BY <2>17 DEF ConfirmStored, SawBefore
    <3>2. \A c \in Bookings \ stale' : CodeAtDoor(c)'
      BY <2>17 DEF ConfirmStored, CodeAtDoor
    <3>. QED BY <3>1, <3>2
  <2>18. ASSUME NEW h \in Handlers, NEW b \in Bookings, RequestReturn(h, b)
        PROVE  Kept
    <3>1. \A g \in Handlers : handler'[g].b \notin stale' => SawBefore(g)'
      BY <2>18 DEF RequestReturn, SawBefore
    <3>2. \A c \in Bookings \ stale' : CodeAtDoor(c)'
      BY <2>18 DEF RequestReturn, CodeAtDoor
    <3>. QED BY <3>1, <3>2
  <2>19. ASSUME NEW h \in Handlers, NEW b \in Bookings, NEW d \in Drivers, AcceptRide(h, b, d)
        PROVE  Kept
    <3>1. \A g \in Handlers : handler'[g].b \notin stale' => SawBefore(g)'
      BY <2>19 DEF AcceptRide, Accepting, TakePickup, TakeDelivery, SawBefore
    <3>2. \A c \in Bookings \ stale' : CodeAtDoor(c)'
      BY <2>19 DEF AcceptRide, Accepting, TakePickup, TakeDelivery, CodeAtDoor
    <3>. QED BY <3>1, <3>2
  <2>20. ASSUME NEW h \in Handlers, NEW b \in Bookings, NEW d \in Drivers,
                NEW step \in RideSteps, BeginRideStep(h, step, b, d)
        PROVE  Kept
    <3>1. \A g \in Handlers : handler'[g].b \notin stale' => SawBefore(g)'
      BY <2>20 DEF BeginRideStep, MayComplete, SawBefore, CodeAtDoor
    <3>2. \A c \in Bookings \ stale' : CodeAtDoor(c)'
      BY <2>20 DEF BeginRideStep, MayComplete, CodeAtDoor
    <3>. QED BY <3>1, <3>2
  <2>21. ASSUME NEW h \in Handlers, ArmExpiry(h) PROVE Kept
    <3>1. \A g \in Handlers : handler'[g].b \notin stale' => SawBefore(g)'
      BY <2>21 DEF ArmExpiry, SawBefore
    <3>2. \A c \in Bookings \ stale' : CodeAtDoor(c)'
      BY <2>21 DEF ArmExpiry, CodeAtDoor
    <3>. QED BY <3>1, <3>2
  <2>22. ASSUME NEW h \in Handlers, CancelDecided(h) PROVE Kept
    <3>1. \A g \in Handlers : handler'[g].b \notin stale' => SawBefore(g)'
      BY <2>22 DEF CancelDecided, AutoCancel, SawBefore
    <3>2. \A c \in Bookings \ stale' : CodeAtDoor(c)'
      BY <2>22 DEF CancelDecided, AutoCancel, CodeAtDoor
    <3>. QED BY <3>1, <3>2
  <2>23. ASSUME NEW h \in Handlers, ClaimDriver(h) PROVE Kept
    <3>1. \A g \in Handlers : handler'[g].b \notin stale' => SawBefore(g)'
      BY <2>23 DEF ClaimDriver, SawBefore
    <3>2. \A c \in Bookings \ stale' : CodeAtDoor(c)'
      BY <2>23 DEF ClaimDriver, CodeAtDoor
    <3>. QED BY <3>1, <3>2
  <2>24. ASSUME NEW h \in Handlers, NullAssignment(h) PROVE Kept
    <3>1. \A g \in Handlers : handler'[g].b \notin stale' => SawBefore(g)'
      BY <2>24 DEF NullAssignment, NoteWrite, SawBefore
    <3>2. \A c \in Bookings \ stale' : CodeAtDoor(c)'
      BY <2>24 DEF NullAssignment, NoteWrite, CodeAtDoor
    <3>. QED BY <3>1, <3>2
  <2>25. ASSUME NEW h \in Handlers, TerminalGuard(h) PROVE Kept
    <3>1. \A g \in Handlers : handler'[g].b \notin stale' => SawBefore(g)'
      BY <2>25 DEF TerminalGuard, WriteOf, SawBefore
    <3>2. \A c \in Bookings \ stale' : CodeAtDoor(c)'
      BY <2>25 DEF TerminalGuard, WriteOf, CodeAtDoor
    <3>. QED BY <3>1, <3>2
  <2>26. ASSUME NEW h \in Handlers, WriteRideStep(h) PROVE Kept
    <3>1. \A g \in Handlers : handler'[g].b \notin stale' => SawBefore(g)'
      BY <2>26 DEF WriteRideStep, NoteWrite, Target, SawBefore
    <3>2. \A c \in Bookings \ stale' : CodeAtDoor(c)'
      <4>1. CASE handler[h].b \in stale
        BY <2>26, <4>1 DEF WriteRideStep, NoteWrite, CodeAtDoor
      <4>2. CASE handler[h].b \notin stale
        <5>1. codes' = codes /\ stale \subseteq stale'
          BY <2>26 DEF WriteRideStep, NoteWrite
        <5>. QED BY <2>26, <4>2, <5>1, RideWrite DEF CodeAtDoor
      <4>. QED BY <4>1, <4>2
    <3>. QED BY <3>1, <3>2
  <2>27. ASSUME NEW h \in Handlers, ReleaseDriver(h) PROVE Kept
    <3>1. \A g \in Handlers : handler'[g].b \notin stale' => SawBefore(g)'
      BY <2>27 DEF ReleaseDriver, SawBefore
    <3>2. \A c \in Bookings \ stale' : CodeAtDoor(c)'
      BY <2>27 DEF ReleaseDriver, CodeAtDoor
    <3>. QED BY <3>1, <3>2
  <2>28. ASSUME NEW h \in Handlers, CountStored(h) PROVE Kept
    <3>1. \A g \in Handlers : handler'[g].b \notin stale' => SawBefore(g)'
      BY <2>28 DEF CountStored, SawBefore
    <3>2. \A c \in Bookings \ stale' : CodeAtDoor(c)'
      BY <2>28 DEF CountStored, CodeAtDoor
    <3>. QED BY <3>1, <3>2
  <2>29. ASSUME NEW h \in Handlers, SaveReturn(h) PROVE Kept
    <3>1. \A g \in Handlers : handler'[g].b \notin stale' => SawBefore(g)'
      BY <2>29 DEF SaveReturn, HandlersAfterSave, NoteWrite, QuotedStatus, SawBefore
    <3>2. \A c \in Bookings \ stale' : CodeAtDoor(c)'
      <4>1. CASE handler[h].b \in stale
        BY <2>29, <4>1 DEF SaveReturn, NoteWrite, CodeAtDoor
      <4>2. CASE handler[h].b \notin stale
        <5>1. codes' = codes /\ stale \subseteq stale'
          BY <2>29 DEF SaveReturn, NoteWrite
        <5>. QED BY <2>29, <4>2, <5>1, ReturnWrite DEF CodeAtDoor
      <4>. QED BY <4>1, <4>2
    <3>. QED BY <3>1, <3>2
  <2>30. ASSUME NEW h \in Handlers, Crash(h) PROVE Kept
    <3>1. \A g \in Handlers : handler'[g].b \notin stale' => SawBefore(g)'
      BY <2>30 DEF Crash, SawBefore
    <3>2. \A c \in Bookings \ stale' : CodeAtDoor(c)'
      BY <2>30 DEF Crash, CodeAtDoor
    <3>. QED BY <3>1, <3>2
  <2>31. CASE UNCHANGED vars
    BY <2>31 DEF vars, SawBefore, CodeAtDoor
  <2>32. ASSUME NEW h \in Handlers, NEW b \in Bookings, NEW d \in Drivers,
                LookAtDriver(h, b, d)
        PROVE  Kept
    <3>1. \A g \in Handlers : handler'[g].b \notin stale' => SawBefore(g)'
      BY <2>32 DEF LookAtDriver, SawBefore
    <3>2. \A c \in Bookings \ stale' : CodeAtDoor(c)'
      BY <2>32 DEF LookAtDriver, CodeAtDoor
    <3>. QED BY <3>1, <3>2
  <2>33. ASSUME NEW h \in Handlers, NEW b \in Bookings, NEW d \in Drivers,
                ReadOffer(h, b, d)
        PROVE  Kept
    <3>1. \A g \in Handlers : handler'[g].b \notin stale' => SawBefore(g)'
      BY <2>33 DEF ReadOffer, SawBefore
    <3>2. \A c \in Bookings \ stale' : CodeAtDoor(c)'
      BY <2>33 DEF ReadOffer, CodeAtDoor
    <3>. QED BY <3>1, <3>2
  <2>34. ASSUME NEW h \in Handlers, AcceptFails(h) PROVE Kept
    <3>1. \A g \in Handlers : handler'[g].b \notin stale' => SawBefore(g)'
      BY <2>34 DEF AcceptFails, SawBefore
    <3>2. \A c \in Bookings \ stale' : CodeAtDoor(c)'
      BY <2>34 DEF AcceptFails, CodeAtDoor
    <3>. QED BY <3>1, <3>2
  <2>. QED
    BY <2>1, <2>2, <2>3, <2>4, <2>5, <2>6, <2>7, <2>8, <2>9, <2>10, <2>11,
       <2>12, <2>13, <2>14, <2>15, <2>16, <2>17, <2>18, <2>19, <2>20, <2>21,
       <2>22, <2>23, <2>24, <2>25, <2>26, <2>27, <2>28, <2>29, <2>30, <2>31,
       <2>32, <2>33, <2>34
       DEF Next, Continuations, Accepts

\* The rows of the table that the handlers use.
LEMMA Rows ==
    /\ "payment_pending" \in Transitions["none"]
    /\ {"store_assigned", "cancelled"} \subseteq Transitions["payment_pending"]
    /\ "driver_assigned" \in Transitions["store_assigned"]
    /\ "driver_arrived" \in Transitions["driver_assigned"]
    /\ "picked_up" \in Transitions["driver_arrived"]
    /\ "at_store" \in Transitions["picked_up"]
    /\ "stored" \in Transitions["at_store"]
    /\ {"return_requested", "final_payment_pending"} \subseteq Transitions["stored"]
    /\ "return_driver_assigned" \in Transitions["return_requested"]
    /\ "return_driver_assigned" \in Transitions["final_payment_captured"]
    /\ "final_payment_captured" \in Transitions["final_payment_pending"]
    /\ "out_for_return" \in Transitions["return_driver_assigned"]
    /\ "arrived_for_delivery" \in Transitions["out_for_return"]
    /\ "delivered" \in Transitions["arrived_for_delivery"]
<1> USE DEF Transitions, Status, Terminal, PickupLeg, DeliveryLeg
<1>1. "payment_pending" \in Transitions["none"]
  OBVIOUS
<1>2. {"store_assigned", "cancelled"} \subseteq Transitions["payment_pending"]
  OBVIOUS
<1>3. "driver_assigned" \in Transitions["store_assigned"]
  OBVIOUS
<1>4. "driver_arrived" \in Transitions["driver_assigned"]
  OBVIOUS
<1>5. "picked_up" \in Transitions["driver_arrived"]
  OBVIOUS
<1>6. "at_store" \in Transitions["picked_up"]
  OBVIOUS
<1>7. "stored" \in Transitions["at_store"]
  OBVIOUS
<1>8. {"return_requested", "final_payment_pending"} \subseteq Transitions["stored"]
  OBVIOUS
<1>9. "return_driver_assigned" \in Transitions["return_requested"]
  OBVIOUS
<1>10. "return_driver_assigned" \in Transitions["final_payment_captured"]
  OBVIOUS
<1>11. "final_payment_captured" \in Transitions["final_payment_pending"]
  OBVIOUS
<1>12. "out_for_return" \in Transitions["return_driver_assigned"]
  OBVIOUS
<1>13. "arrived_for_delivery" \in Transitions["out_for_return"]
  OBVIOUS
<1>14. "delivered" \in Transitions["arrived_for_delivery"]
  OBVIOUS
<1>. QED BY <1>1, <1>2, <1>3, <1>4, <1>5, <1>6, <1>7, <1>8, <1>9, <1>10, <1>11, <1>12, <1>13, <1>14

\* What StatusMovesFollowTable says of one booking and one step.
FollowsTable(c) ==
    \/ status'[c] = status[c]
    \/ status'[c] \in Transitions[status[c]]
    \/ status'[c] = "cancelled" /\ status[c] \notin Terminal
    \/ status[c] = "final_payment_pending" /\ status'[c] = "return_requested"
    \/ c \in stale'

\* Every action, row by row.
LEMMA TableMove ==
    ASSUME TypeOK, TableInv, [Next]_vars PROVE \A c \in Bookings : FollowsTable(c)
  <2> SUFFICES ASSUME \A g \in Handlers : handler[g].b \notin stale => SawBefore(g),
                      \A c \in Bookings \ stale : CodeAtDoor(c)
               PROVE  \A c \in Bookings : FollowsTable(c)
    BY DEF TableInv
  <2> USE Rows
      DEF FollowsTable, TypeOK, Terminal, AwaitingReturn, Cancellable, places, rides,
          market, Move
  <2>1. ASSUME NEW b \in Bookings, AssignStore(b)
        PROVE  \A c \in Bookings : FollowsTable(c)
    BY <2>1 DEF AssignStore
  <2>2. ASSUME NEW b \in Bookings, CancelUnseen(b)
        PROVE  \A c \in Bookings : FollowsTable(c)
    BY <2>2 DEF CancelUnseen, AutoCancel
  <2>3. ASSUME NEW b \in Bookings, RetryPayment(b)
        PROVE  \A c \in Bookings : FollowsTable(c)
    BY <2>3 DEF RetryPayment
  <2>4. ASSUME NEW b \in Bookings, OfferEnds(b)
        PROVE  \A c \in Bookings : FollowsTable(c)
    BY <2>4 DEF OfferEnds
  <2>5. ASSUME NEW b \in Bookings, ReturnPaid(b)
        PROVE  \A c \in Bookings : FollowsTable(c)
    BY <2>5 DEF ReturnPaid, HandlersAfterSave
  <2>6. ASSUME NEW b \in Bookings, ArriveAtPickup(b)
        PROVE  \A c \in Bookings : FollowsTable(c)
    BY <2>6 DEF ArriveAtPickup, Arrive
  <2>7. ASSUME NEW b \in Bookings, ArriveAtStore(b)
        PROVE  \A c \in Bookings : FollowsTable(c)
    BY <2>7 DEF ArriveAtStore, Arrive
  <2>8. ASSUME NEW b \in Bookings, ArriveAtStoreForReturn(b)
        PROVE  \A c \in Bookings : FollowsTable(c)
    BY <2>8 DEF ArriveAtStoreForReturn, Arrive
  <2>9. ASSUME NEW b \in Bookings, ArriveAtUserReturn(b)
        PROVE  \A c \in Bookings : FollowsTable(c)
    BY <2>9 DEF ArriveAtUserReturn, Arrive
  <2>10. ASSUME NEW h \in Handlers, WriteOffer(h) PROVE \A c \in Bookings : FollowsTable(c)
    BY <2>10 DEF WriteOffer
  <2>11. ASSUME NEW h \in Handlers, NEW b \in Bookings, NEW d \in Drivers,
                AcceptBookingOffer(h, b, d)
        PROVE  \A c \in Bookings : FollowsTable(c)
    BY <2>11 DEF AcceptBookingOffer, Accepting, TakePickup, TakeDelivery
  <2>12. ASSUME NEW h \in Handlers, NEW b \in Bookings, SchedulePickup(h, b)
        PROVE  \A c \in Bookings : FollowsTable(c)
    BY <2>12 DEF SchedulePickup
  <2>13. ASSUME NEW h \in Handlers, NEW b \in Bookings, CancelByUser(h, b)
        PROVE  \A c \in Bookings : FollowsTable(c)
    BY <2>13 DEF CancelByUser
  <2>14. ASSUME NEW h \in Handlers, NEW b \in Bookings, ExpiryJob(h, b)
        PROVE  \A c \in Bookings : FollowsTable(c)
    BY <2>14 DEF ExpiryJob
  <2>15. ASSUME NEW h \in Handlers, NEW b \in Bookings, PickupSearchFailed(h, b)
        PROVE  \A c \in Bookings : FollowsTable(c)
    BY <2>15 DEF PickupSearchFailed
  <2>16. ASSUME NEW h \in Handlers, NEW b \in Bookings, ReturnSearchFailed(h, b)
        PROVE  \A c \in Bookings : FollowsTable(c)
    BY <2>16 DEF ReturnSearchFailed
  <2>17. ASSUME NEW h \in Handlers, NEW b \in Bookings, ConfirmStored(h, b)
        PROVE  \A c \in Bookings : FollowsTable(c)
    BY <2>17 DEF ConfirmStored
  <2>18. ASSUME NEW h \in Handlers, NEW b \in Bookings, RequestReturn(h, b)
        PROVE  \A c \in Bookings : FollowsTable(c)
    BY <2>18 DEF RequestReturn
  <2>19. ASSUME NEW h \in Handlers, NEW b \in Bookings, NEW d \in Drivers, AcceptRide(h, b, d)
        PROVE  \A c \in Bookings : FollowsTable(c)
    BY <2>19 DEF AcceptRide, Accepting, TakePickup, TakeDelivery
  <2>20. ASSUME NEW h \in Handlers, NEW b \in Bookings, NEW d \in Drivers,
                NEW step \in RideSteps, BeginRideStep(h, step, b, d)
        PROVE  \A c \in Bookings : FollowsTable(c)
    BY <2>20 DEF BeginRideStep, MayComplete
  <2>21. ASSUME NEW h \in Handlers, ArmExpiry(h)
         PROVE  \A c \in Bookings : FollowsTable(c)
    BY <2>21 DEF ArmExpiry
  <2>22. ASSUME NEW h \in Handlers, CancelDecided(h)
         PROVE  \A c \in Bookings : FollowsTable(c)
    BY <2>22 DEF CancelDecided, AutoCancel
  <2>23. ASSUME NEW h \in Handlers, ClaimDriver(h)
         PROVE  \A c \in Bookings : FollowsTable(c)
    BY <2>23 DEF ClaimDriver
  <2>24. ASSUME NEW h \in Handlers, NullAssignment(h)
         PROVE  \A c \in Bookings : FollowsTable(c)
    BY <2>24 DEF NullAssignment, NoteWrite
  <2>25. ASSUME NEW h \in Handlers, TerminalGuard(h)
         PROVE  \A c \in Bookings : FollowsTable(c)
    BY <2>25 DEF TerminalGuard, WriteOf
  <2>26. ASSUME NEW h \in Handlers, WriteRideStep(h)
         PROVE  \A c \in Bookings : FollowsTable(c)
    <3>1. CASE handler[h].b \in stale
      <4>1. stale \subseteq stale'
        BY <2>26 DEF WriteRideStep, NoteWrite
      <4>2. \A c \in Bookings : c # handler[h].b => status'[c] = status[c]
        BY <2>26 DEF WriteRideStep
      <4>. QED BY <3>1, <4>1, <4>2
    <3>2. CASE handler[h].b \notin stale
      BY <2>26, <3>2, RideWrite
    <3>. QED BY <3>1, <3>2
  <2>27. ASSUME NEW h \in Handlers, ReleaseDriver(h)
         PROVE  \A c \in Bookings : FollowsTable(c)
    BY <2>27 DEF ReleaseDriver
  <2>28. ASSUME NEW h \in Handlers, CountStored(h)
         PROVE  \A c \in Bookings : FollowsTable(c)
    BY <2>28 DEF CountStored
  <2>29. ASSUME NEW h \in Handlers, SaveReturn(h)
         PROVE  \A c \in Bookings : FollowsTable(c)
    <3>1. CASE handler[h].b \in stale
      <4>1. stale \subseteq stale'
        BY <2>29 DEF SaveReturn, NoteWrite
      <4>2. \A c \in Bookings : c # handler[h].b => status'[c] = status[c]
        BY <2>29 DEF SaveReturn
      <4>. QED BY <3>1, <4>1, <4>2
    <3>2. CASE handler[h].b \notin stale
      BY <2>29, <3>2, ReturnWrite
    <3>. QED BY <3>1, <3>2
  <2>30. ASSUME NEW h \in Handlers, Crash(h) PROVE \A c \in Bookings : FollowsTable(c)
    BY <2>30 DEF Crash
  <2>31. CASE UNCHANGED vars
    BY <2>31 DEF vars
  <2>32. ASSUME NEW h \in Handlers, NEW b \in Bookings, NEW d \in Drivers,
                LookAtDriver(h, b, d)
        PROVE  \A c \in Bookings : FollowsTable(c)
    BY <2>32 DEF LookAtDriver
  <2>33. ASSUME NEW h \in Handlers, NEW b \in Bookings, NEW d \in Drivers,
                ReadOffer(h, b, d)
        PROVE  \A c \in Bookings : FollowsTable(c)
    BY <2>33 DEF ReadOffer
  <2>34. ASSUME NEW h \in Handlers, AcceptFails(h) PROVE \A c \in Bookings : FollowsTable(c)
    BY <2>34 DEF AcceptFails
  <2>. QED
    BY <2>1, <2>2, <2>3, <2>4, <2>5, <2>6, <2>7, <2>8, <2>9, <2>10, <2>11,
       <2>12, <2>13, <2>14, <2>15, <2>16, <2>17, <2>18, <2>19, <2>20, <2>21,
       <2>22, <2>23, <2>24, <2>25, <2>26, <2>27, <2>28, <2>29, <2>30, <2>31,
       <2>32, <2>33, <2>34
       DEF Next, Continuations, Accepts

\* StatusMovesFollowTable: nothing but a stale write takes a booking off the
\* declared table of transitions, or revives one that is over.
THEOREM MovesFollowTable == Spec => StatusMovesFollowTable
<1>1. Init => TableInv
  BY DEF Init, TableInv, SawBefore, CodeAtDoor, Idle, At
<1>2. TypeOK /\ TableInv /\ [Next]_vars => TableInv'
  BY TableStep
<1>3. TypeOK /\ TableInv /\ [Next]_vars
      => [\A b \in Bookings :
             \/ status'[b] = status[b]
             \/ status'[b] \in Transitions[status[b]]
             \/ status'[b] = "cancelled" /\ status[b] \notin Terminal
             \/ status[b] = "final_payment_pending" /\ status'[b] = "return_requested"
             \/ b \in stale']_vars
  BY TableMove DEF FollowsTable
<1>. QED BY <1>1, <1>2, <1>3, TypeCorrect, PTL DEF Spec, StatusMovesFollowTable

------------------------------------------------------------------------------
(* Administrators: types. *)

\* What one administrator's request does to its own desk is all the desks see.
DeskMoves(a, k) == desk' = [desk EXCEPT ![a] = k]

\* ... and a desk that is given a right value stays right.
LEMMA DeskType ==
    ASSUME AdminTypeOK, NEW a \in Admins, NEW k \in Desks,
           k.do \in {"critical", "force"} => k.b \in Bookings,
           DeskMoves(a, k) \/ desk' = desk
    PROVE  /\ desk' \in [Admins -> Desks]
           /\ \A c \in Admins : desk'[c].do \in {"critical", "force"} => desk'[c].b \in Bookings
BY DEF AdminTypeOK, DeskMoves

\* What a desk holds while it releases drivers, and while nothing is on it.
LEMMA DeskShapes ==
    ASSUME NEW ds \in SUBSET Drivers
    PROVE  /\ Freeing(ds) \in Desks /\ Freeing(ds).do = "free" /\ Freeing(ds).ds = ds
           /\ Empty \in Desks /\ Empty.do = "idle" /\ Empty.ds = {}
BY DEF Freeing, Empty, Desks, Status

\* One step, of a handler or of an administrator's request, keeps every shape.
LEMMA AdminTypeStep == ASSUME AdminTypeOK, [AdminNext]_adminVars PROVE AdminTypeOK'
  <2> USE NoneIsNobody DEF places, rides, market, jobs, Move, Close, ThenFree, Real, DeskMoves
  <2> DEFINE DeskOK(a) == \E k \in Desks :
                             /\ k.do \in {"critical", "force"} => k.b \in Bookings
                             /\ DeskMoves(a, k) \/ desk' = desk
  <2>0. TypeOK /\ acts \in 0..MaxActs /\ MaxActs \in Nat
    BY MaxActsAssumption DEF AdminTypeOK
  <2>a. ASSUME NEW a \in Admins, TypeOK', DeskOK(a), acts' \in 0..MaxActs PROVE AdminTypeOK'
    <3>1. PICK k \in Desks : /\ k.do \in {"critical", "force"} => k.b \in Bookings
                             /\ DeskMoves(a, k) \/ desk' = desk
      BY <2>a
    <3>2. /\ desk' \in [Admins -> Desks]
          /\ \A c \in Admins : desk'[c].do \in {"critical", "force"} => desk'[c].b \in Bookings
      BY <3>1, DeskType
    <3>. QED BY <2>a, <3>2 DEF AdminTypeOK
  <2>b. ASSUME NEW a \in Admins, desk' = desk PROVE DeskOK(a)
    BY <2>b DEF AdminTypeOK
  <2>c. ASSUME NEW a \in Admins, NEW ds \in SUBSET Drivers,
               ThenFree(a, ds) \/ DeskMoves(a, Freeing(ds)) \/ Close(a)
        PROVE  DeskOK(a)
    BY <2>b, <2>c, DeskShapes
  <2>1. CASE Next /\ UNCHANGED <<desk, acts>>
    BY <2>1, TypeStep DEF AdminTypeOK
  <2>2. ASSUME NEW a \in Admins, Request(a) PROVE AdminTypeOK'
    <3>0. acts' \in 0..MaxActs
      BY <2>0, <2>2 DEF Request
    <3>1. ASSUME NEW b \in Bookings, NEW d \in Drivers, AssignDriver(a, b, d)
          PROVE  TypeOK' /\ DeskOK(a)
      <4>1. /\ pickupDriver' \in [Bookings -> Drivers \cup {None}]
            /\ deliveryDriver' \in [Bookings -> Drivers \cup {None}]
            /\ UNCHANGED <<nulled, codes>>
        BY <2>0, <3>1 DEF AssignDriver, SetLegDriver, TypeOK
      <4>2. onTrip' \in [Drivers -> BOOLEAN]
        BY <2>0, <3>1 DEF AssignDriver, FreeNow, TypeOK
      <4>3. status' \in [Bookings -> Status]
        BY <2>0, <3>1 DEF AssignDriver, Status, DeliveryLeg, PickupLeg, TypeOK
      <4>4. TypeOK'
        BY <2>0, <3>1, <4>1, <4>2, <4>3 DEF AssignDriver, Claim, NoteDriver, TypeOK
      <4>. QED BY <2>b, <3>1, <4>4 DEF AssignDriver
    <3>2. ASSUME NEW b \in Bookings, SearchAgain(a, b) PROVE TypeOK' /\ DeskOK(a)
      <4>1. TypeOK'
        BY <2>0, <3>2 DEF SearchAgain, NoteTakenOff, SetLegDriver, FreeNow, Status,
                              TypeOK
      <4>. QED BY <2>b, <3>2, <4>1 DEF SearchAgain
    <3>3. ASSUME NEW b \in Bookings, NEW d \in Drivers, AssignReturnDriver(a, b, d)
          PROVE  TypeOK' /\ DeskOK(a)
      <4>1. TypeOK'
        BY <2>0, <3>3 DEF AssignReturnDriver, Claim, NoteDriver, FreeNow, Status,
                              DeliveryLeg, TypeOK
      <4>. QED BY <2>b, <3>3, <4>1 DEF AssignReturnDriver
    <3>4. ASSUME NEW b \in Bookings, NEW s \in Stores, ReassignStore(a, b, s)
          PROVE  TypeOK' /\ DeskOK(a)
      <4>1. \A t \in Stores : count[t] + 1 \in Nat
        BY <2>0 DEF TypeOK
      <4>2. count' \in [Stores -> Nat]
        BY <2>0, <3>4, <4>1 DEF ReassignStore, Recount, TypeOK
      <4>3. TypeOK'
        BY <2>0, <3>4, <4>2 DEF ReassignStore, TypeOK
      <4>. QED BY <2>b, <3>4, <4>3 DEF ReassignStore
    <3>5. ASSUME NEW b \in Bookings, ForceCancel(a, b) PROVE TypeOK' /\ DeskOK(a)
      <4>1. TypeOK'
        BY <2>0, <3>5 DEF ForceCancel, NoteTakenOff, Status, TypeOK
      <4>2. Real({pickupDriver[b], deliveryDriver[b]}) \in SUBSET Drivers
        BY <2>0 DEF TypeOK
      <4>3. ThenFree(a, Real({pickupDriver[b], deliveryDriver[b]}))
        BY <3>5 DEF ForceCancel
      <4>. QED BY <2>c, <4>1, <4>2, <4>3
    <3>6. ASSUME NEW b \in Bookings, DecideCritical(a, b) PROVE TypeOK' /\ DeskOK(a)
      <4>1. PICK return \in BOOLEAN :
               DeskMoves(a, [do |-> "critical", b |-> b,
                             ds |-> Real(IF return THEN {deliveryDriver[b]}
                                                   ELSE {pickupDriver[b]}),
                             saw |-> status[b],
                             leg |-> IF return THEN "delivery" ELSE "pickup"])
        BY <3>6 DEF DecideCritical
      <4>2. DeskOK(a)
        <5> DEFINE k == [do |-> "critical", b |-> b,
                         ds |-> Real(IF return THEN {deliveryDriver[b]} ELSE {pickupDriver[b]}),
                         saw |-> status[b],
                         leg |-> IF return THEN "delivery" ELSE "pickup"]
        <5>1. Real(IF return THEN {deliveryDriver[b]} ELSE {pickupDriver[b]})
                 \in SUBSET Drivers
          BY <2>0 DEF TypeOK
        <5>2. status[b] \in Status
          BY <2>0 DEF TypeOK
        <5>3. k \in Desks /\ k.b \in Bookings
          BY <5>1, <5>2 DEF Desks
        <5>4. DeskMoves(a, k)
          BY <4>1
        <5> HIDE DEF k
        <5>. QED BY <5>3, <5>4
      <4>3. TypeOK'
        BY <2>0, <3>6 DEF DecideCritical, NoteTakenOff, TypeOK
      <4>. QED BY <4>2, <4>3
    <3>7. ASSUME NEW b \in Bookings, NEW to \in Status, Progress(a, b, to)
          PROVE  TypeOK' /\ DeskOK(a)
      <4>1. TypeOK'
        BY <2>0, <3>7 DEF Progress, NoteTakenOff, TypeOK
      <4>2. Leaves(b, to) \in SUBSET Drivers
        BY <2>0 DEF Leaves, TypeOK
      <4>3. ThenFree(a, Leaves(b, to))
        BY <3>7 DEF Progress
      <4>. QED BY <2>c, <4>1, <4>2, <4>3
    <3>8. /\ "driver_arrived" \in Status /\ "picked_up" \in Status /\ "stored" \in Status
          /\ "return_requested" \in Status /\ "delivered" \in Status
      BY DEF Status, PickupLeg
    <3>9. TypeOK' /\ DeskOK(a)
      <4>1. PICK b \in Bookings :
               \/ SearchAgain(a, b) \/ ForceCancel(a, b) \/ DecideCritical(a, b)
               \/ \E to \in Status : Progress(a, b, to)
               \/ \E d \in Drivers : AssignDriver(a, b, d) \/ AssignReturnDriver(a, b, d)
               \/ \E s \in Stores : ReassignStore(a, b, s)
        BY <2>2, <3>8 DEF Request, MarkDriverArrived, MarkPickedUp, MarkStored,
                          RequestReturnFor, MarkDelivered
      <4>. QED BY <3>1, <3>2, <3>3, <3>4, <3>5, <3>6, <3>7, <4>1
    <3>. QED BY <2>a, <3>0, <3>9
  <2>3. ASSUME NEW a \in Admins, Free(a), UNCHANGED acts PROVE AdminTypeOK'
    <3>1. TypeOK'
      BY <2>0, <2>3 DEF Free, TypeOK
    <3>2. desk[a].ds \in SUBSET Drivers
      BY DEF AdminTypeOK, Desks
    <3>3. PICK d \in desk[a].ds :
             desk' = [desk EXCEPT ![a] = IF desk[a].ds = {d} THEN Empty
                                         ELSE Freeing(desk[a].ds \ {d})]
      BY <2>3 DEF Free
    <3>4. Close(a) \/ DeskMoves(a, Freeing(desk[a].ds \ {d}))
      BY <3>3
    <3>5. desk[a].ds \ {d} \in SUBSET Drivers
      BY <3>2
    <3>6. DeskOK(a)
      BY <2>c, <3>4, <3>5
    <3>. QED BY <2>0, <2>3, <2>a, <3>1, <3>6
  <2>4. ASSUME NEW a \in Admins, CriticalGuard(a), UNCHANGED acts PROVE AdminTypeOK'
    <3>1. TypeOK'
      BY <2>0, <2>4 DEF CriticalGuard, vars, TypeOK
    <3>2. desk[a] \in Desks /\ desk[a].b \in Bookings
      BY <2>4 DEF AdminTypeOK, CriticalGuard
    <3>3. Close(a) \/ DeskMoves(a, [desk[a] EXCEPT !.do = "force"])
      BY <2>4 DEF CriticalGuard
    <3>4. LET k == [desk[a] EXCEPT !.do = "force"] IN k \in Desks /\ k.b \in Bookings
      BY <3>2 DEF Desks
    <3>5. DeskOK(a)
      BY <3>3, <3>4, <2>c
    <3>. QED BY <2>0, <2>4, <2>a, <3>1, <3>5
  <2>5. ASSUME NEW a \in Admins, ForceCritical(a), UNCHANGED acts PROVE AdminTypeOK'
    <3>1. desk[a].b \in Bookings /\ desk[a].ds \in SUBSET Drivers
      BY <2>5 DEF ForceCritical, AdminTypeOK, Desks
    <3>2. TypeOK'
      BY <2>0, <2>5, <3>1 DEF ForceCritical, UnsetLeg, TypeOK, Status
    <3>3. Close(a) \/ DeskMoves(a, Freeing(desk[a].ds))
      BY <2>5 DEF ForceCritical
    <3>4. DeskOK(a)
      BY <2>c, <3>1, <3>3
    <3>. QED BY <2>0, <2>5, <2>a, <3>2, <3>4
  <2>6. ASSUME NEW a \in Admins, AdminCrash(a), UNCHANGED acts PROVE AdminTypeOK'
    <3>1. TypeOK'
      BY <2>0, <2>6 DEF AdminCrash, TypeOK
    <3>2. DeskOK(a)
      BY <2>6, <2>c DEF AdminCrash
    <3>. QED BY <2>0, <2>6, <2>a, <3>1, <3>2
  <2>7. CASE UNCHANGED adminVars
    BY <2>7 DEF adminVars, vars, TypeOK, AdminTypeOK
  <2>. QED BY <2>1, <2>2, <2>3, <2>4, <2>5, <2>6, <2>7 DEF AdminNext

\* Type correctness with administrators about.
THEOREM AdminTypeCorrect == AdminSpec => []AdminTypeOK
<1>1. AdminInit => AdminTypeOK
  BY MaxActsAssumption, TypeInit, DeskShapes DEF AdminInit, AdminTypeOK
<1>. QED BY <1>1, AdminTypeStep, PTL DEF AdminSpec

------------------------------------------------------------------------------
(* Administrators and drivers. *)

AdminMarket == MarketInv /\ FreedAreBetween /\ OneFrees

\* Drivers leave their legs, and some of them wait for desk a to release them.
TakenOff(a) ==
    /\ \A d \in Drivers, b \in Bookings : OnLeg(d, b)' => OnLeg(d, b)
    /\ UNCHANGED <<onTrip, handler>>
    /\ \A d \in Drivers, b \in Bookings : (offer[b] = d)' => offer[b] = d
    /\ \A c \in Admins, d \in Drivers :
          Frees(c, d)' => \/ Frees(c, d)
                          \/ c = a /\ \E b \in Bookings : OnLeg(d, b) /\ ~OnLeg(d, b)'

\* ... which keeps what is known of drivers and desks.
LEMMA TakenOffStep ==
    ASSUME AdminMarket, NEW a \in Admins, TakenOff(a) PROVE AdminMarket'
<1>1. Quiet
  BY DEF TakenOff, Quiet, Claims, Releases, At
<1>2. {} \in SUBSET Drivers /\ Market({})
  BY DEF AdminMarket, Market
<1>3. MarketInv'
  BY <1>1, <1>2, QuietStep DEF Market
<1>4. ASSUME NEW d \in Drivers, BetweenTrips(d) PROVE BetweenTrips(d)'
  BY <1>4 DEF BetweenTrips, TakenOff, Claiming, Claims, Releases, At
<1>5. ASSUME NEW d \in Drivers, NEW b \in Bookings, OnLeg(d, b), ~OnLeg(d, b)'
      PROVE  BetweenTrips(d)'
  <2>1. \A c \in Bookings : ~OnLeg(d, c)'
    BY <1>5 DEF AdminMarket, MarketInv, OneLeg, TakenOff
  <2>2. onTrip[d] \/ Claiming(d)
    BY <1>5 DEF AdminMarket, MarketInv, LegMarked, Claiming
  <2>3. \A h \in Handlers : ~Releases(h, d)
    BY <1>5 DEF AdminMarket, MarketInv, ReleaseAfterLeg
  <2>. QED BY <2>1, <2>2, <2>3 DEF BetweenTrips, TakenOff, Claiming, Claims, Releases, At
<1>6. FreedAreBetween'
  BY <1>4, <1>5 DEF AdminMarket, FreedAreBetween, TakenOff
<1>7. OneFrees'
  <2>1. \A d \in Drivers, c \in Admins, b \in Bookings : Frees(c, d) => ~OnLeg(d, b)
    BY DEF AdminMarket, FreedAreBetween, BetweenTrips
  <2>. QED BY <2>1 DEF AdminMarket, OneFrees, TakenOff
<1>. QED BY <1>3, <1>6, <1>7 DEF AdminMarket

\* Desk a releases driver d, who is on no leg.
LEMMA FreeStep ==
    ASSUME TypeOK, AdminMarket, NEW a \in Admins, NEW d \in Drivers, Frees(a, d),
           UNCHANGED <<status, rides, offer, handler>>,
           onTrip' = [onTrip EXCEPT ![d] = FALSE],
           \A c \in Admins, e \in Drivers : Frees(c, e)' => Frees(c, e) /\ ~(c = a /\ e = d)
    PROVE  AdminMarket'
<1> USE DEF AdminMarket, MarketInv
<1>0. BetweenTrips(d)
  BY DEF FreedAreBetween
<1>1. /\ \A e \in Drivers, b \in Bookings : OnLeg(e, b)' <=> OnLeg(e, b)
      /\ \A e \in Drivers : onTrip'[e] <=> onTrip[e] /\ e # d
  BY DEF OnLeg, rides, TypeOK
<1>2. \A e \in Drivers, h \in Handlers :
         /\ Claims(h, e)' <=> Claims(h, e)
         /\ Releases(h, e)' <=> Releases(h, e)
  BY DEF Claims, Releases, At
<1>3. OneLeg' /\ OneOffer' /\ OneClaim' /\ OneRelease'
  BY <1>1, <1>2 DEF OneLeg, OneOffer, OneClaim, OneRelease
<1>4. LegMarked'
  BY <1>0, <1>1, <1>2 DEF LegMarked, BetweenTrips
<1>5. OfferedUnmarked' /\ ClaimUnmarked' /\ ClaimKeepsOffer'
  BY <1>1, <1>2 DEF OfferedUnmarked, ClaimUnmarked, ClaimKeepsOffer
<1>6. ReleaseAfterLeg'
  BY <1>0, <1>1, <1>2 DEF ReleaseAfterLeg, BetweenTrips, Claiming
<1>7. OneFrees'
  BY DEF OneFrees
<1>8. FreedAreBetween'
  <2> SUFFICES ASSUME NEW c \in Admins, NEW e \in Drivers, Frees(c, e)'
               PROVE  BetweenTrips(e)'
    BY DEF FreedAreBetween
  <2>1. e # d
    BY DEF OneFrees
  <2>2. BetweenTrips(e)
    BY DEF FreedAreBetween
  <2>. QED BY <1>1, <1>2, <2>1, <2>2 DEF BetweenTrips, Claiming
<1>. QED BY <1>3, <1>4, <1>5, <1>6, <1>7, <1>8

\* Booking b passes, in one transaction, from driver old, who was on its leg, to
\* driver new, who was nowhere; there may be no old and no new driver.
Passes(b, old, new) ==
    /\ \A d \in Drivers, c \in Bookings : c # b => (OnLeg(d, c)' <=> OnLeg(d, c))
    /\ \A d \in Drivers : OnLeg(d, b)' => d = new
    /\ new \in Drivers => ~onTrip[new] /\ ~Claiming(new) /\ Unlocked(new)
    /\ old \in Drivers => OnLeg(old, b)
    /\ FreeNow(old, new)
    /\ UNCHANGED <<offer, handler, desk>>

\* ... which keeps what is known of drivers and desks as well.
LEMMA PassesStep ==
    ASSUME AdminMarket, NEW b \in Bookings, NEW old, NEW new, Passes(b, old, new)
    PROVE  AdminMarket'
<1> USE DEF AdminMarket, MarketInv
<1>1. \A e \in Drivers, h \in Handlers :
         /\ Claims(h, e)' <=> Claims(h, e)
         /\ Releases(h, e)' <=> Releases(h, e)
  BY DEF Passes, Claims, Releases, At
<1>2. \A e \in Drivers : onTrip'[e] <=> e = new \/ (e # old /\ onTrip[e])
  BY DEF Passes, FreeNow
<1>3. \A e \in Drivers : e = new => /\ ~onTrip[e] /\ ~Claiming(e)
                                    /\ \A c \in Bookings : ~OnLeg(e, c) /\ offer[c] # e
                                    /\ \A h \in Handlers : ~Releases(h, e)
  BY DEF Passes, LegMarked, Claiming, Unlocked, ReleaseAfterLeg
<1>4. OneLeg'
  BY <1>3 DEF Passes, OneLeg
<1>5. OneOffer' /\ OneClaim' /\ OneRelease'
  BY <1>1 DEF Passes, OneOffer, OneClaim, OneRelease
<1>6. LegMarked'
  <2> SUFFICES ASSUME NEW d \in Drivers, NEW c \in Bookings, OnLeg(d, c)', ~onTrip'[d]
               PROVE  \E h \in Handlers : Claims(h, d)' /\ handler'[h].b = c
    BY DEF LegMarked
  <2>1. c # b /\ OnLeg(d, c)
    BY <1>2 DEF Passes
  <2>2. d # old
    BY <2>1 DEF Passes, OneLeg
  <2>3. PICK h \in Handlers : Claims(h, d) /\ handler[h].b = c
    BY <1>2, <2>1, <2>2 DEF LegMarked
  <2>. QED BY <1>1, <2>3 DEF Passes
<1>7. OfferedUnmarked' /\ ClaimUnmarked' /\ ClaimKeepsOffer'
  BY <1>1, <1>2, <1>3 DEF Passes, OfferedUnmarked, ClaimUnmarked, ClaimKeepsOffer, Claiming
<1>8. ASSUME NEW d \in Drivers, \A c \in Bookings : ~OnLeg(d, c), onTrip[d] \/ Claiming(d)
      PROVE  /\ \A c \in Bookings : ~OnLeg(d, c)'
             /\ onTrip'[d] \/ Claiming(d)'
  <2>1. d # new /\ d # old
    BY <1>3, <1>8 DEF Passes
  <2>2. \A c \in Bookings : ~OnLeg(d, c)'
    BY <1>8, <2>1 DEF Passes
  <2>3. onTrip'[d] \/ Claiming(d)'
    BY <1>1, <1>2, <1>8, <2>1 DEF Claiming
  <2>. QED BY <2>2, <2>3
<1>9. ReleaseAfterLeg'
  BY <1>1, <1>8 DEF ReleaseAfterLeg
<1>10. FreedAreBetween'
  <2>1. \A c \in Admins, d \in Drivers : Frees(c, d)' <=> Frees(c, d)
    BY DEF Passes, Frees
  <2>. QED BY <1>1, <1>8, <2>1 DEF FreedAreBetween, BetweenTrips
<1>11. OneFrees'
  BY DEF OneFrees, Passes, Frees
<1>. QED BY <1>4, <1>5, <1>6, <1>7, <1>9, <1>10, <1>11

\* An administrator's step marks a disturbed booking for good.
LEMMA AdminStaysDisturbed ==
    ASSUME AdminTypeOK, [AdminNext]_adminVars
    PROVE  stale \subseteq stale' /\ (Undisturbed' => Undisturbed)
<1>0. TypeOK
  BY DEF AdminTypeOK
<1>1. CASE [Next]_vars
  BY <1>0, <1>1, HistoryGrows, StaysDisturbed
<1> DEFINE Notes == UNCHANGED <<stale, crashes>> /\ crossed \subseteq crossed'
<1>2. ASSUME NEW a \in Admins, Request(a) PROVE Notes
  <2> USE DEF market
  <2>1. ASSUME NEW b \in Bookings, NEW d \in Drivers,
               AssignDriver(a, b, d) \/ AssignReturnDriver(a, b, d)
        PROVE  Notes
    BY <2>1 DEF AssignDriver, AssignReturnDriver, Claim, NoteDriver
  <2>2. ASSUME NEW b \in Bookings, SearchAgain(a, b) \/ ForceCancel(a, b)
        PROVE  Notes
    BY <2>2 DEF SearchAgain, ForceCancel, NoteTakenOff
  <2>3. ASSUME NEW b \in Bookings, DecideCritical(a, b) PROVE Notes
    BY <2>3 DEF DecideCritical, NoteTakenOff
  <2>4. ASSUME NEW b \in Bookings, NEW s \in Stores, ReassignStore(a, b, s)
        PROVE  Notes
    BY <2>4 DEF ReassignStore
  <2>5. ASSUME NEW b \in Bookings, NEW to, Progress(a, b, to) PROVE Notes
    BY <2>5 DEF Progress, NoteTakenOff
  <2>. QED BY <1>2, <2>1, <2>2, <2>3, <2>4, <2>5
           DEF Request, MarkDriverArrived, MarkPickedUp, MarkStored, RequestReturnFor,
               MarkDelivered
<1>3. ASSUME NEW a \in Admins, Free(a) \/ CriticalGuard(a)
      PROVE  UNCHANGED <<stale, crossed, crashes>>
  BY <1>3 DEF Free, CriticalGuard, vars, market
<1>4. ASSUME NEW a \in Admins, ForceCritical(a)
      PROVE  stale \subseteq stale' /\ UNCHANGED <<crossed, crashes>>
  BY <1>4 DEF ForceCritical
<1>5. ASSUME NEW a \in Admins, AdminCrash(a)
      PROVE  UNCHANGED <<stale, crossed>> /\ crashes' = crashes + 1
  BY <1>5 DEF AdminCrash, market
<1>6. CASE \E a \in Admins : \/ Request(a) \/ Free(a) \/ CriticalGuard(a)
                             \/ ForceCritical(a) \/ AdminCrash(a)
  <2>1. /\ stale \subseteq stale' /\ crossed \subseteq crossed'
        /\ crashes' = crashes \/ crashes' = crashes + 1
    BY <1>2, <1>3, <1>4, <1>5, <1>6
  <2>2. crashes \in Nat
    BY <1>0 DEF TypeOK
  <2>. QED BY <2>1, <2>2 DEF Undisturbed
<1>. QED BY <1>1, <1>6 DEF AdminNext, adminVars

\* What a step of an administrator's request leaves to be shown.
DriversKept ==
    /\ NoEarlyPickupDriver' /\ NoEarlyDeliveryDriver'
    /\ AdminMarket'
    /\ \A a \in Admins : DeskRight(a)'
    /\ handler' = handler

\* An administrator's step that begins a request.
LEMMA RequestKeeps ==
    ASSUME AdminTypeOK, Undisturbed, Undisturbed', NoEarlyPickupDriver, NoEarlyDeliveryDriver,
           AdminMarket, \A a \in Admins : DeskRight(a),
           NEW a \in Admins, Request(a)
    PROVE  DriversKept
  <2> USE NoneIsNobody DEF DriversKept, places, rides, market, Move
  <2>0. TypeOK
    BY DEF AdminTypeOK
  <2>c. crossed = {} /\ crossed' = {}
    BY DEF Undisturbed
  <2>d. ASSUME NEW b \in Bookings, NEW ds, NoteTakenOff(b, ds)
        PROVE  \A d \in ds : OnLeg(d, b)
    BY <2>c, <2>d DEF NoteTakenOff, OnIt
  <2>f. ASSUME NEW b \in Bookings, NEW d \in Drivers, NEW meant \in BOOLEAN, Claim(b, d, meant)
        PROVE  meant /\ ~onTrip[d] /\ ~Claiming(d) /\ Unlocked(d)
    BY <2>c, <2>f DEF Claim, NoteDriver
  <2>e. Empty.do = "idle" /\ \A ds : Freeing(ds).do = "free" /\ Freeing(ds).ds = ds
    BY DEF Empty, Freeing
  <2>a. ASSUME desk' = desk PROVE \A c \in Admins : DeskRight(c)'
    BY <2>a DEF DeskRight
  <2>b. ASSUME NEW ds \in SUBSET Drivers, ThenFree(a, ds)
        PROVE  /\ \A c \in Admins : DeskRight(c)'
               /\ \A c \in Admins, d \in Drivers :
                     Frees(c, d)' => Frees(c, d) \/ (c = a /\ d \in ds)
    <3>1. desk \in [Admins -> Desks]
      BY DEF AdminTypeOK
    <3>2. CASE desk' = desk
      BY <3>2 DEF DeskRight, Frees
    <3>3. CASE desk' = [desk EXCEPT ![a] = Freeing(ds)]
      <4>1. desk'[a].do = "free" /\ desk'[a].ds = ds
        BY <2>e, <3>1, <3>3
      <4>2. \A c \in Admins : c # a => desk'[c] = desk[c]
        BY <3>1, <3>3
      <4>. QED BY <4>1, <4>2 DEF DeskRight, Frees
    <3>. QED BY <2>b, <3>2, <3>3 DEF ThenFree
  <2>1. ASSUME NEW b \in Bookings, NEW d \in Drivers, AssignDriver(a, b, d)
        PROVE  DriversKept
    <3> DEFINE old == CurrentDriver(b)
               to  == IF status[b] \in ReturnLeg THEN "return_driver_assigned"
                      ELSE "driver_assigned"
    <3>1. /\ status' = [status EXCEPT ![b] = to]
          /\ status[b] \notin Terminal \cup {"none"}
          /\ \/ /\ status[b] \in ReturnLeg
                /\ deliveryDriver' = [deliveryDriver EXCEPT ![b] = d]
                /\ UNCHANGED pickupDriver
             \/ /\ status[b] \notin ReturnLeg
                /\ pickupDriver' = [pickupDriver EXCEPT ![b] = d]
                /\ UNCHANGED deliveryDriver
      BY <2>1 DEF AssignDriver, SetLegDriver
    <3>2. NoEarlyPickupDriver' /\ NoEarlyDeliveryDriver'
      BY <2>0, <3>1 DEF NoEarlyPickupDriver, NoEarlyDeliveryDriver, TypeOK, ReturnLeg,
                        AwaitingReturn, DeliveryLeg, Terminal
    <3>3. Passes(b, old, d)
      <4>1. \A e \in Drivers, c \in Bookings : c # b => (OnLeg(e, c)' <=> OnLeg(e, c))
        BY <2>0, <3>1 DEF OnLeg, TypeOK
      <4>2. \A e \in Drivers : OnLeg(e, b)' => e = d
        BY <2>0, <3>1 DEF OnLeg, TypeOK, PickupLeg, DeliveryLeg
      <4>3. /\ ~onTrip[d] /\ ~Claiming(d) /\ Unlocked(d)
            /\ OnIt(b, Real({old}))
        <5>1. Claim(b, d, OnIt(b, Real({old}))) /\ OnIt(b, Real({old})) \in BOOLEAN
          BY <2>1 DEF AssignDriver, OnIt
        <5>. QED BY <2>f, <5>1
      <4>4. old \in Drivers => OnLeg(old, b)
        BY <4>3 DEF OnIt, Real
      <4>5. FreeNow(old, d) /\ UNCHANGED <<offer, handler, desk>>
        BY <2>1 DEF AssignDriver
      <4>. QED BY <4>1, <4>2, <4>3, <4>4, <4>5 DEF Passes
    <3>4. desk' = desk /\ handler' = handler
      BY <2>1 DEF AssignDriver
    <3>. QED BY <2>a, <3>2, <3>3, <3>4, PassesStep
  <2>2. ASSUME NEW b \in Bookings, SearchAgain(a, b) PROVE DriversKept
    <3> DEFINE old == CurrentDriver(b)
               to  == IF status[b] \in ReturnLeg THEN "final_payment_captured"
                      ELSE "store_assigned"
    <3>1. /\ status' = [status EXCEPT ![b] = to]
          /\ status[b] \notin Terminal \cup {"none"}
          /\ \/ /\ status[b] \in ReturnLeg
                /\ deliveryDriver' = [deliveryDriver EXCEPT ![b] = None]
                /\ UNCHANGED pickupDriver
             \/ /\ status[b] \notin ReturnLeg
                /\ pickupDriver' = [pickupDriver EXCEPT ![b] = None]
                /\ UNCHANGED deliveryDriver
      BY <2>2 DEF SearchAgain, SetLegDriver
    <3>2. NoEarlyPickupDriver' /\ NoEarlyDeliveryDriver'
      BY <2>0, <3>1 DEF NoEarlyPickupDriver, NoEarlyDeliveryDriver, TypeOK, ReturnLeg,
                        AwaitingReturn, DeliveryLeg, Terminal
    <3>3. Passes(b, old, None)
      <4>1. \A e \in Drivers, c \in Bookings : c # b => (OnLeg(e, c)' <=> OnLeg(e, c))
        BY <2>0, <3>1 DEF OnLeg, TypeOK
      <4>2. \A e \in Drivers : ~OnLeg(e, b)'
        BY <2>0, <3>1 DEF OnLeg, TypeOK, PickupLeg, DeliveryLeg
      <4>3. old \in Drivers => OnLeg(old, b)
        BY <2>2, <2>d DEF SearchAgain, Real
      <4>4. FreeNow(old, None) /\ UNCHANGED <<offer, handler, desk>>
        BY <2>2 DEF SearchAgain
      <4>. QED BY <4>1, <4>2, <4>3, <4>4 DEF Passes
    <3>4. desk' = desk /\ handler' = handler
      BY <2>2 DEF SearchAgain
    <3>. QED BY <2>a, <3>2, <3>3, <3>4, PassesStep
  <2>3. ASSUME NEW b \in Bookings, NEW d \in Drivers, AssignReturnDriver(a, b, d)
        PROVE  DriversKept
    <3>1. /\ status' = [status EXCEPT ![b] = "return_driver_assigned"]
          /\ deliveryDriver' = [deliveryDriver EXCEPT ![b] = d]
          /\ UNCHANGED pickupDriver
      BY <2>3 DEF AssignReturnDriver
    <3>2. status[b] \in AwaitingReturn
      BY <2>0, <2>3 DEF AssignReturnDriver, Transitions, TypeOK, Status, PickupLeg,
                        DeliveryLeg, AwaitingReturn, Terminal
    <3>3. NoEarlyPickupDriver' /\ NoEarlyDeliveryDriver'
      BY <2>0, <3>1 DEF NoEarlyPickupDriver, NoEarlyDeliveryDriver, TypeOK, DeliveryLeg
    <3>4. Passes(b, None, d)
      <4>1. \A e \in Drivers, c \in Bookings : c # b => (OnLeg(e, c)' <=> OnLeg(e, c))
        BY <2>0, <3>1 DEF OnLeg, TypeOK
      <4>2. \A e \in Drivers : OnLeg(e, b)' => e = d
        BY <2>0, <3>1 DEF OnLeg, TypeOK, PickupLeg, DeliveryLeg
      <4>3. ~onTrip[d] /\ ~Claiming(d) /\ Unlocked(d)
        BY <2>3, <2>f DEF AssignReturnDriver
      <4>4. FreeNow(None, d) /\ UNCHANGED <<offer, handler, desk>>
        BY <2>3 DEF AssignReturnDriver
      <4>. QED BY <4>1, <4>2, <4>3, <4>4 DEF Passes
    <3>5. desk' = desk /\ handler' = handler
      BY <2>3 DEF AssignReturnDriver
    <3>. QED BY <2>a, <3>3, <3>4, <3>5, PassesStep
  <2>4. ASSUME NEW b \in Bookings, NEW s \in Stores, ReassignStore(a, b, s)
        PROVE  DriversKept
    <3>1. UNCHANGED <<status, rides, market, handler, desk>>
      BY <2>4 DEF ReassignStore
    <3>2. TakenOff(a)
      BY <3>1 DEF TakenOff, OnLeg, Frees
    <3>3. NoEarlyPickupDriver' /\ NoEarlyDeliveryDriver'
      BY <3>1 DEF NoEarlyPickupDriver, NoEarlyDeliveryDriver
    <3>. QED BY <2>a, <3>1, <3>2, <3>3, TakenOffStep
  <2>5. ASSUME NEW b \in Bookings, ForceCancel(a, b) PROVE DriversKept
    <3> DEFINE ds == Real({pickupDriver[b], deliveryDriver[b]})
    <3>1. /\ status' = [status EXCEPT ![b] = "cancelled"]
          /\ UNCHANGED <<rides, onTrip, offer, handler>>
          /\ \A d \in ds : OnLeg(d, b)
          /\ ThenFree(a, ds)
      BY <2>5, <2>d DEF ForceCancel
    <3>2. ds \in SUBSET Drivers
      BY <2>0 DEF Real, TypeOK
    <3>3. \A d \in Drivers, c \in Bookings :
             OnLeg(d, c)' <=> OnLeg(d, c) /\ c # b
      BY <2>0, <3>1 DEF OnLeg, TypeOK, PickupLeg, DeliveryLeg
    <3>4. TakenOff(a)
      BY <2>b, <3>1, <3>2, <3>3 DEF TakenOff
    <3>5. NoEarlyPickupDriver' /\ NoEarlyDeliveryDriver'
      BY <2>0, <3>1 DEF NoEarlyPickupDriver, NoEarlyDeliveryDriver, TypeOK, Terminal
    <3>. QED BY <2>b, <3>1, <3>2, <3>4, <3>5, TakenOffStep
  <2>6. ASSUME NEW b \in Bookings, DecideCritical(a, b) PROVE DriversKept
    <3>1. UNCHANGED <<status, rides, onTrip, offer, handler>>
      BY <2>6 DEF DecideCritical
    <3>2. PICK return \in BOOLEAN :
             /\ return => deliveryDriver[b] # None
                          \/ status[b] \in {"out_for_return", "arrived_for_delivery"}
             /\ ~return => deliveryDriver[b] = None
             /\ NoteTakenOff(b, Real(IF return THEN {deliveryDriver[b]} ELSE {pickupDriver[b]}))
             /\ desk' = [desk EXCEPT ![a] =
                   [do |-> "critical", b |-> b,
                    ds |-> Real(IF return THEN {deliveryDriver[b]} ELSE {pickupDriver[b]}),
                    saw |-> status[b],
                    leg |-> IF return THEN "delivery" ELSE "pickup"]]
      BY <2>6 DEF DecideCritical
    <3> DEFINE ds == Real(IF return THEN {deliveryDriver[b]} ELSE {pickupDriver[b]})
    <3>3. desk \in [Admins -> Desks]
      BY DEF AdminTypeOK
    <3>4. /\ desk'[a].do = "critical" /\ desk'[a].ds = ds /\ desk'[a].saw = status[b]
          /\ desk'[a].leg = IF return THEN "delivery" ELSE "pickup"
          /\ \A c \in Admins : c # a => desk'[c] = desk[c]
      BY <3>2, <3>3
    <3>5. ds \in SUBSET Drivers /\ (\A d \in ds : OnLeg(d, b)) /\ \A d, e \in ds : d = e
      BY <2>0, <3>2, <2>d DEF TypeOK, Real
    <3>6. ds # {} => status[b] \in IF return THEN DeliveryLeg ELSE PickupLeg
      <4> SUFFICES ASSUME NEW d \in ds PROVE status[b] \in IF return THEN DeliveryLeg ELSE PickupLeg
        OBVIOUS
      <4>1. CASE return
        <5>1. d = deliveryDriver[b] /\ d # None /\ OnLeg(d, b)
          BY <3>5, <4>1 DEF Real
        <5>2. status[b] \in DeliveryLeg \cup Terminal
          BY <5>1 DEF NoEarlyDeliveryDriver
        <5>. QED BY <4>1, <5>1, <5>2 DEF OnLeg, PickupLeg, DeliveryLeg, Terminal
      <4>2. CASE ~return
        <5>1. OnLeg(d, b) /\ d # None /\ deliveryDriver[b] = None
          BY <3>2, <3>5, <4>2 DEF Real
        <5>. QED BY <4>2, <5>1 DEF OnLeg
      <4>. QED BY <4>1, <4>2
    <3>7. DeskRight(a)'
      <4> HIDE DEF ds
      <4>. QED BY <3>4, <3>5, <3>6 DEF DeskRight
    <3>8. \A c \in Admins : DeskRight(c)'
      BY <3>4, <3>7 DEF DeskRight
    <3>9. \A c \in Admins, d \in Drivers : Frees(c, d)' => Frees(c, d)
      BY <3>4 DEF Frees
    <3>10. TakenOff(a)
      BY <3>1, <3>9 DEF TakenOff, OnLeg
    <3>11. NoEarlyPickupDriver' /\ NoEarlyDeliveryDriver'
      BY <3>1 DEF NoEarlyPickupDriver, NoEarlyDeliveryDriver
    <3>. QED BY <3>1, <3>8, <3>10, <3>11, TakenOffStep
  <2>7. ASSUME NEW b \in Bookings,
               NEW to \in {"driver_arrived", "picked_up", "stored", "return_requested",
                           "delivered"},
               Progress(a, b, to)
        PROVE  DriversKept
    <3> DEFINE ds == Leaves(b, to)
    <3>1. /\ to \in Transitions[status[b]]
          /\ status' = [status EXCEPT ![b] = to]
          /\ UNCHANGED <<rides, onTrip, offer, handler>>
          /\ \A d \in ds : OnLeg(d, b)
          /\ ThenFree(a, ds)
      BY <2>7, <2>d DEF Progress
    <3>2. ds \in SUBSET Drivers
      BY <2>0 DEF Leaves, Real, TypeOK
    <3>3. /\ to = "driver_arrived" => status[b] = "driver_assigned"
          /\ to = "picked_up" => status[b] = "driver_arrived"
          /\ to = "stored" => status[b] \in {"picked_up", "at_store"} \cup AwaitingReturn
          /\ to = "return_requested" => status[b] = "stored"
          /\ to = "delivered" => status[b] = "arrived_for_delivery"
      BY <2>0, <3>1 DEF Transitions, TypeOK, Status, PickupLeg, DeliveryLeg, AwaitingReturn,
                        Terminal
    <3>4. \A d \in Drivers, c \in Bookings : OnLeg(d, c)' => OnLeg(d, c)
      BY <2>0, <3>1, <3>3 DEF OnLeg, TypeOK, PickupLeg, DeliveryLeg
    <3>5. \A d \in ds : ~OnLeg(d, b)'
      BY <2>0, <3>1 DEF OnLeg, TypeOK, PickupLeg, DeliveryLeg, Leaves, Real
    <3>6. TakenOff(a)
      BY <2>b, <3>1, <3>2, <3>4, <3>5 DEF TakenOff
    <3>7. NoEarlyPickupDriver' /\ NoEarlyDeliveryDriver'
      BY <2>0, <3>1, <3>3 DEF NoEarlyPickupDriver, NoEarlyDeliveryDriver, TypeOK, Terminal,
                              DeliveryLeg, AwaitingReturn
    <3>. QED BY <2>b, <3>1, <3>2, <3>6, <3>7, TakenOffStep
  <2>. QED BY <2>1, <2>2, <2>3, <2>4, <2>5, <2>6, <2>7
           DEF Request, MarkDriverArrived, MarkPickedUp, MarkStored, RequestReturnFor,
               MarkDelivered

\* One step, of a handler or of an administrator's request, keeps the invariant.
LEMMA AdminDriverStep ==
    ASSUME AdminTypeOK, AdminInv, [AdminNext]_adminVars
    PROVE  AdminInv'
<1> SUFFICES ASSUME Undisturbed' PROVE AdminInv'
  BY DEF AdminInv, DriverInv
<1>1. Undisturbed /\ TypeOK
  BY AdminStaysDisturbed DEF AdminTypeOK
<1>2. /\ DriverInv /\ (\A h \in Handlers : SawRight(h))
      /\ NoEarlyPickupDriver /\ NoEarlyDeliveryDriver
      /\ AdminMarket /\ (\A a \in Admins : DeskRight(a))
  BY <1>1 DEF AdminInv, DriverInv, AdminMarket
<1>3. ASSUME DriversKept PROVE AdminInv'
  <2>1. \A h \in Handlers : SawRight(h)'
    BY <1>2, <1>3 DEF DriversKept, SawRight, At
  <2>. QED BY <1>3, <2>1 DEF DriversKept, AdminMarket, AdminInv, DriverInv
<1>4. CASE [Next]_vars /\ UNCHANGED <<desk, acts>>
  <2> DEFINE F == {d \in Drivers : \E a \in Admins : Frees(a, d)}
  <2>1. F \in SUBSET Drivers /\ \A d \in F : BetweenTrips(d)
    BY <1>2 DEF AdminMarket, FreedAreBetween
  <2>2. DriverInv' /\ \A d \in F : BetweenTrips(d)'
    <3> HIDE DEF F
    <3>. QED BY <1>1, <1>2, <1>4, <2>1, DriverStep
  <2>3. \A a \in Admins, d \in Drivers : Frees(a, d)' <=> Frees(a, d)
    BY <1>4 DEF Frees
  <2>4. FreedAreBetween' /\ OneFrees'
    BY <1>2, <2>2, <2>3 DEF AdminMarket, FreedAreBetween, OneFrees
  <2>5. \A a \in Admins : DeskRight(a)'
    BY <1>2, <1>4 DEF DeskRight
  <2>. QED BY <2>2, <2>4, <2>5 DEF AdminInv
<1>5. ASSUME NEW a \in Admins, Request(a) PROVE AdminInv'
  BY <1>1, <1>2, <1>3, <1>5, RequestKeeps
<1>6. ASSUME NEW a \in Admins, Free(a) PROVE AdminInv'
  <2>1. PICK d \in desk[a].ds :
           /\ onTrip' = [onTrip EXCEPT ![d] = FALSE]
           /\ desk' = [desk EXCEPT ![a] = IF desk[a].ds = {d} THEN Empty
                                          ELSE Freeing(desk[a].ds \ {d})]
    BY <1>6 DEF Free
  <2>2. /\ desk[a].do = "free" /\ desk[a].ds \in SUBSET Drivers
        /\ desk \in [Admins -> Desks]
        /\ UNCHANGED <<status, rides, offer, handler>>
    BY <1>6 DEF Free, AdminTypeOK, Desks
  <2>3. /\ desk'[a].do \in {"idle", "free"} /\ desk'[a].ds = desk[a].ds \ {d}
        /\ \A c \in Admins : c # a => desk'[c] = desk[c]
    BY <2>1, <2>2 DEF Empty, Freeing
  <2>4. \A c \in Admins : DeskRight(c)'
    BY <1>2, <2>3 DEF DeskRight
  <2>5. \A c \in Admins, e \in Drivers : Frees(c, e)' => Frees(c, e) /\ ~(c = a /\ e = d)
    BY <2>2, <2>3 DEF Frees
  <2>6. d \in Drivers /\ Frees(a, d)
    BY <2>1, <2>2 DEF Frees
  <2>7. AdminMarket'
    BY <1>1, <1>2, <2>1, <2>2, <2>5, <2>6, FreeStep
  <2>8. NoEarlyPickupDriver' /\ NoEarlyDeliveryDriver'
    BY <1>2, <2>2 DEF rides, NoEarlyPickupDriver, NoEarlyDeliveryDriver
  <2>. QED BY <1>3, <2>2, <2>4, <2>7, <2>8 DEF DriversKept
<1>7. ASSUME NEW a \in Admins, CriticalGuard(a) PROVE AdminInv'
  <2>1. UNCHANGED vars /\ desk \in [Admins -> Desks] /\ desk[a].do = "critical"
    BY <1>7 DEF CriticalGuard, AdminTypeOK
  <2>2. Close(a) \/ desk' = [desk EXCEPT ![a].do = "force"]
    BY <1>7 DEF CriticalGuard
  <2>3. \/ desk'[a].do = "idle"
        \/ /\ desk'[a].do = "force" /\ desk'[a].ds = desk[a].ds
           /\ desk'[a].leg = desk[a].leg /\ desk'[a].saw = desk[a].saw
    BY <2>1, <2>2 DEF Close, Empty, Desks
  <2>4. \A c \in Admins : c # a => desk'[c] = desk[c]
    BY <2>1, <2>2 DEF Close
  <2>5. \A c \in Admins : DeskRight(c)'
    BY <1>2, <2>1, <2>3, <2>4 DEF DeskRight
  <2>6. \A c \in Admins, d \in Drivers : Frees(c, d)' => Frees(c, d)
    BY <2>3, <2>4 DEF Frees
  <2>7. TakenOff(a)
    BY <2>1, <2>6 DEF TakenOff, OnLeg, vars, rides, market
  <2>8. NoEarlyPickupDriver' /\ NoEarlyDeliveryDriver'
    BY <1>2, <2>1 DEF vars, rides, NoEarlyPickupDriver, NoEarlyDeliveryDriver
  <2>. QED BY <1>2, <1>3, <2>1, <2>5, <2>7, <2>8, TakenOffStep DEF DriversKept, vars
<1>8. ASSUME NEW a \in Admins, ForceCritical(a) PROVE AdminInv'
  <2> DEFINE b  == desk[a].b
             ds == desk[a].ds
             leg == desk[a].leg
             now == IF leg = "pickup" THEN pickupDriver[b] ELSE deliveryDriver[b]
  <2>1. /\ desk[a].do = "force" /\ b \in Bookings /\ ds \in SUBSET Drivers
        /\ desk \in [Admins -> Desks] /\ leg \in {"none", "pickup", "delivery"}
    BY <1>8 DEF ForceCritical, AdminTypeOK, Desks
  <2>2. /\ status' = [status EXCEPT ![b] = "driver_cancelled_critical"]
        /\ UnsetLeg(b, leg)
        /\ offer' = [offer EXCEPT ![b] = None]
        /\ UNCHANGED <<onTrip, handler>>
    BY <1>8 DEF ForceCritical, Move
  <2>3. Close(a) \/ desk' = [desk EXCEPT ![a] = Freeing(ds)]
    BY <1>8 DEF ForceCritical
  <2>3a. Close(a) => ds = {}
    BY <1>8, <2>1 DEF ForceCritical, Close, Empty, Freeing
  <2>4. status[b] = desk[a].saw /\ Real({now}) = ds
    BY <1>1, <1>8 DEF ForceCritical, Undisturbed
  <2>5. \A d \in ds : OnLeg(d, b)
    <3> SUFFICES ASSUME NEW d \in ds PROVE OnLeg(d, b)
      OBVIOUS
    <3>1. d = now
      BY <2>4 DEF Real
    <3>2. DeskRight(a)
      BY <1>2
    <3>3. ds # {}
      OBVIOUS
    <3>4. status[b] \in IF leg = "pickup" THEN PickupLeg ELSE DeliveryLeg
      BY <2>1, <2>4, <3>2, <3>3 DEF DeskRight
    <3>. QED BY <3>1, <3>4 DEF OnLeg
  <2>6. /\ \A d \in Drivers, c \in Bookings : OnLeg(d, c)' <=> OnLeg(d, c) /\ c # b
        /\ NoEarlyPickupDriver' /\ NoEarlyDeliveryDriver'
    BY <1>1, <1>2, <2>1, <2>2
       DEF OnLeg, TypeOK, UnsetLeg, PickupLeg, DeliveryLeg, Terminal, NoEarlyPickupDriver,
           NoEarlyDeliveryDriver
  <2>7. /\ desk'[a].do \in {"idle", "free"} /\ desk'[a].ds = ds
        /\ \A c \in Admins : c # a => desk'[c] = desk[c]
    BY <2>1, <2>3, <2>3a DEF Close, Empty, Freeing
  <2>8. \A c \in Admins : DeskRight(c)'
    BY <1>2, <2>7 DEF DeskRight
  <2>9. \A c \in Admins, d \in Drivers :
           Frees(c, d)' => Frees(c, d) \/ (c = a /\ d \in ds)
    BY <2>7 DEF Frees
  <2>10. \A d \in Drivers, c \in Bookings : (offer[c] = d)' => offer[c] = d
    BY <1>1, <2>1, <2>2, NoneIsNobody DEF TypeOK
  <2>11. TakenOff(a)
    <3> HIDE DEF b, ds
    <3>. QED BY <2>1, <2>2, <2>5, <2>6, <2>9, <2>10 DEF TakenOff
  <2>12. AdminMarket'
    BY <1>2, <2>11, TakenOffStep
  <2>. QED BY <1>3, <2>2, <2>6, <2>8, <2>12 DEF DriversKept
<1>9. ASSUME NEW a \in Admins, AdminCrash(a) PROVE AdminInv'
  <2>1. crashes' = crashes + 1 /\ crashes = 0 /\ crashes' = 0
    BY <1>1, <1>9 DEF AdminCrash, Undisturbed
  <2>. QED BY <2>1
<1>10. CASE UNCHANGED adminVars
  BY <1>4, <1>10 DEF adminVars
<1>. QED BY <1>4, <1>5, <1>6, <1>7, <1>8, <1>9, <1>10 DEF AdminNext

\* At the start no administrator is at work.
LEMMA AdminInvInit == AdminInit => AdminInv
<1>1. AdminInit => \A a \in Admins : desk[a].do = "idle"
  BY DEF AdminInit, Empty
<1>2. AdminInit => DriverInv
  BY DriverInit DEF AdminInit
<1>. QED BY <1>1, <1>2 DEF AdminInv, FreedAreBetween, OneFrees, Frees, DeskRight

\* The invariant holds throughout, administrators or not.
THEOREM AdminInvariant == AdminSpec => []AdminInv
<1>1. AdminTypeOK /\ AdminInv /\ [AdminNext]_adminVars => AdminInv'
  BY AdminDriverStep
<1>. QED BY AdminInvInit, <1>1, AdminTypeCorrect, PTL DEF AdminSpec

\* OneTripPerDriver, however many administrators move drivers about: each of
\* them reads the legs in the transaction that changes them.
THEOREM AdminOneTrip == AdminSpec => []OneTripPerDriver
<1>1. AdminInv => OneTripPerDriver
  BY DriverInvImplies DEF AdminInv
<1>. QED BY <1>1, AdminInvariant, PTL

\* OfferedDriverIsFree likewise: an assignment by hand takes nobody who is
\* offered a ride, and no release by hand frees a driver on a new leg.
THEOREM AdminOfferedFree == AdminSpec => []OfferedDriverIsFree
<1>1. AdminInv => OfferedDriverIsFree
  BY DriverInvImplies DEF AdminInv
<1>. QED BY <1>1, AdminInvariant, PTL

------------------------------------------------------------------------------
(* Administrators and stores. *)

\* A booking that moves to another store takes a place there, and its old place
\* stays counted.
LEMMA ReassignStep ==
    ASSUME TypeOK, TypeOK', AllSlots, NEW a \in Admins, NEW b \in Bookings, NEW t \in Stores,
           ReassignStore(a, b, t)
    PROVE  AllSlots'
<1>1. /\ status' = status /\ storeOf' = [storeOf EXCEPT ![b] = t]
      /\ count' = [count EXCEPT ![t] = @ + 1]
      /\ HasSlot(t) /\ storeOf[b] # t /\ status[b] = "store_assigned"
  BY DEF ReassignStore, MayTake, Recount
<1>2. NoEarlyStore'
  BY <1>1 DEF AllSlots, NoEarlyStore, TypeOK
<1>3. ASSUME NEW s \in Stores PROVE SlotsCounted(s)'
  <2>1. /\ IsFiniteSet(LiveAt(s))
        /\ Cardinality(LiveAt(s)) <= count[s]
        /\ Cardinality(LiveAt(s)) <= Capacity[s]
    BY DEF AllSlots, SlotsCounted
  <2>2. Cardinality(LiveAt(s)) \in Nat
    BY <2>1, FS_CardinalityType
  <2>3. count[s] \in Nat /\ Capacity[s] \in Nat
    BY CapacityAssumption DEF TypeOK
  <2>4. CASE s = t
    <3>1. LiveAt(s)' = LiveAt(s) \cup {b} /\ b \notin LiveAt(s)
      BY <1>1, <2>4 DEF LiveAt, TypeOK, Live, Reserved
    <3>2. /\ IsFiniteSet(LiveAt(s)')
          /\ Cardinality(LiveAt(s)') = Cardinality(LiveAt(s)) + 1
      BY <2>1, <3>1, FS_AddElement
    <3>3. count'[s] = count[s] + 1 /\ count[s] < Capacity[s]
      BY <1>1, <2>4 DEF HasSlot, TypeOK
    <3>. QED BY <2>1, <2>2, <2>3, <3>2, <3>3 DEF SlotsCounted
  <2>5. CASE s # t
    <3>1. LiveAt(s)' \in SUBSET LiveAt(s)
      BY <1>1, <2>5 DEF LiveAt, TypeOK
    <3>2. /\ IsFiniteSet(LiveAt(s)')
          /\ Cardinality(LiveAt(s)') <= Cardinality(LiveAt(s))
      BY <2>1, <3>1, FS_Subset
    <3>3. Cardinality(LiveAt(s)') \in Nat
      BY <3>2, FS_CardinalityType
    <3>4. count'[s] = count[s]
      BY <1>1, <2>5 DEF TypeOK
    <3>. QED BY <2>1, <2>2, <2>3, <3>2, <3>3, <3>4 DEF SlotsCounted
  <2>. QED BY <2>4, <2>5
<1>. QED BY <1>2, <1>3 DEF AllSlots

\* One step, of a handler or of an administrator's request, keeps what is known
\* of the stores.
LEMMA AdminSlotStep ==
    ASSUME AdminTypeOK, AdminTypeOK', SlotInv, [AdminNext]_adminVars PROVE SlotInv'
<1>1. TypeOK /\ TypeOK'
  BY DEF AdminTypeOK
<1>2. stale \subseteq stale'
  BY AdminStaysDisturbed
<1>3. CASE [Next]_vars
  BY <1>1, <1>3, SlotStep
<1> DEFINE Kept == handler' = handler /\ AllSlots'
<1>4. SUFFICES ASSUME stale' = {}, ~[Next]_vars PROVE Kept
  <2>1. ASSUME stale' = {}, ~[Next]_vars, Kept
        PROVE  SlotInv'
    <3>1. \A h \in Handlers : SawLive(h)
      BY <1>2, <2>1 DEF SlotInv
    <3>2. \A h \in Handlers : SawLive(h)'
      BY <2>1, <3>1 DEF SawLive
    <3>. QED BY <2>1, <3>2 DEF SlotInv, AllSlots
  <2>. QED BY <1>3, <2>1 DEF SlotInv
<1>5. AllSlots /\ NoEarlyStore
  BY <1>2, <1>4 DEF SlotInv, AllSlots
<1>6. ASSUME UNCHANGED handler, SlotsQuiet PROVE Kept
  BY <1>1, <1>5, <1>6, SlotsQuietStep
<1>7. \A b \in Bookings :
         status[b] \notin Terminal => status[b] \in Live \/ storeOf[b] = None
  BY <1>1, <1>5 DEF NoEarlyStore, TypeOK, Status, Terminal, Live, Reserved, PickupLeg,
                    DeliveryLeg, AwaitingReturn
<1>8. ASSUME UNCHANGED <<storeOf, count, handler>>,
             NEW b \in Bookings, NEW to \in Status \ {"none", "payment_pending"},
             Move(b, to),
             status[b] \notin Terminal \/ to \in Terminal
      PROVE  Kept
  <2>0. storeOf' = storeOf
    BY <1>8
  <2>1. status' = [status EXCEPT ![b] = to] /\ status \in [Bookings -> Status]
    BY <1>1, <1>8 DEF Move, TypeOK
  <2>2. \A t \in Terminal : t \notin Live
    BY DEF Live, Reserved, Terminal, PickupLeg, AwaitingReturn
  <2>3. \A c \in Bookings :
           /\ status'[c] \in Live => status[c] \in Live \/ storeOf[c] = None
           /\ status'[c] \in {"none", "payment_pending"} =>
                 status[c] \in {"none", "payment_pending"}
    BY <1>7, <1>8, <2>1, <2>2
  <2>4. \A s \in Stores : count'[s] >= count[s]
    BY <1>1, <1>8 DEF TypeOK
  <2>5. SlotsQuiet
    BY <2>0, <2>3, <2>4 DEF SlotsQuiet
  <2>. QED BY <1>6, <1>8, <2>5
<1>9. ASSUME NEW a \in Admins, Request(a) PROVE Kept
  <2> USE DEF places
  <2>1. ASSUME NEW b \in Bookings, NEW d \in Drivers, AssignDriver(a, b, d) PROVE Kept
    <3>1. /\ "return_driver_assigned" \in Status \ {"none", "payment_pending"}
          /\ "driver_assigned" \in Status \ {"none", "payment_pending"}
      BY DEF Status, PickupLeg, DeliveryLeg
    <3>2. /\ UNCHANGED <<storeOf, count, handler>> /\ status[b] \notin Terminal
          /\ Move(b, "return_driver_assigned") \/ Move(b, "driver_assigned")
      BY <2>1 DEF AssignDriver
    <3>. QED BY <1>8, <3>1, <3>2
  <2>2. ASSUME NEW b \in Bookings, SearchAgain(a, b) PROVE Kept
    <3>1. /\ "final_payment_captured" \in Status \ {"none", "payment_pending"}
          /\ "store_assigned" \in Status \ {"none", "payment_pending"}
      BY DEF Status
    <3>2. /\ UNCHANGED <<storeOf, count, handler>> /\ status[b] \notin Terminal
          /\ Move(b, "final_payment_captured") \/ Move(b, "store_assigned")
      BY <2>2 DEF SearchAgain
    <3>. QED BY <1>8, <3>1, <3>2
  <2>3. ASSUME NEW b \in Bookings, NEW d \in Drivers, AssignReturnDriver(a, b, d) PROVE Kept
    <3>1. "return_driver_assigned" \in Status \ {"none", "payment_pending"}
      BY DEF Status, DeliveryLeg
    <3>2. /\ UNCHANGED <<storeOf, count, handler>> /\ status[b] \notin Terminal
          /\ Move(b, "return_driver_assigned")
      BY <1>1, <2>3 DEF AssignReturnDriver, Transitions, Terminal, TypeOK, Status
    <3>. QED BY <1>8, <3>1, <3>2
  <2>4. ASSUME NEW b \in Bookings, NEW s \in Stores, ReassignStore(a, b, s) PROVE Kept
    <3>1. handler' = handler
      BY <2>4 DEF ReassignStore
    <3>. QED BY <1>1, <1>5, <2>4, <3>1, ReassignStep
  <2>5. ASSUME NEW b \in Bookings, ForceCancel(a, b) PROVE Kept
    <3>1. "cancelled" \in Status \ {"none", "payment_pending"}
      BY DEF Status
    <3>2. /\ UNCHANGED <<storeOf, count, handler>> /\ status[b] \notin Terminal
          /\ Move(b, "cancelled")
      BY <2>5 DEF ForceCancel
    <3>. QED BY <1>8, <3>1, <3>2
  <2>6. ASSUME NEW b \in Bookings, DecideCritical(a, b) PROVE Kept
    <3>1. UNCHANGED <<status, storeOf, count, handler>>
      BY <2>6 DEF DecideCritical
    <3>2. SlotsQuiet
      BY <1>1, <3>1 DEF SlotsQuiet, TypeOK
    <3>. QED BY <1>6, <3>1, <3>2
  <2>7. ASSUME NEW b \in Bookings,
               NEW to \in {"driver_arrived", "picked_up", "stored", "return_requested",
                           "delivered"},
               Progress(a, b, to)
        PROVE  Kept
    <3>1. to \in Status \ {"none", "payment_pending"}
      BY DEF Status, PickupLeg
    <3>2. /\ UNCHANGED <<storeOf, count, handler>> /\ status[b] \notin Terminal
          /\ Move(b, to)
      BY <1>1, <2>7 DEF Progress, Transitions, Terminal, TypeOK, Status
    <3>. QED BY <1>8, <3>1, <3>2
  <2>. QED BY <1>9, <2>1, <2>2, <2>3, <2>4, <2>5, <2>6, <2>7
           DEF Request, MarkDriverArrived, MarkPickedUp, MarkStored, RequestReturnFor,
               MarkDelivered
<1>10. ASSUME NEW a \in Admins, Free(a) \/ CriticalGuard(a) \/ AdminCrash(a) PROVE Kept
  <2>1. UNCHANGED <<status, places, handler>>
    BY <1>10 DEF Free, CriticalGuard, AdminCrash, vars
  <2>2. SlotsQuiet
    BY <1>1, <2>1 DEF SlotsQuiet, places, TypeOK
  <2>. QED BY <1>6, <2>1, <2>2
<1>11. ASSUME NEW a \in Admins, ForceCritical(a) PROVE Kept
  <2>1. desk[a].b \in Bookings
    BY <1>11 DEF ForceCritical, AdminTypeOK
  <2>2. /\ UNCHANGED <<storeOf, count, handler>>
        /\ Move(desk[a].b, "driver_cancelled_critical")
    BY <1>11 DEF ForceCritical, places
  <2>3. "driver_cancelled_critical" \in (Status \ {"none", "payment_pending"}) \cap Terminal
    BY DEF Status, Terminal
  <2>. QED BY <1>8, <2>1, <2>2, <2>3
<1>. QED BY <1>4, <1>9, <1>10, <1>11 DEF AdminNext, adminVars

\* The stores' invariant with administrators about, upon true readings or not.
THEOREM AdminSlotInvariant == AdminSpec => []SlotInv
<1>1. AdminInit => SlotInv
  BY SlotInit DEF AdminInit
<1>2. AdminTypeOK /\ AdminTypeOK' /\ SlotInv /\ [AdminNext]_adminVars => SlotInv'
  BY AdminSlotStep
<1>. QED BY <1>1, <1>2, AdminTypeCorrect, PTL DEF AdminSpec

\* HoldsCounted: a booking moved to another store leaves a count behind, and
\* never takes one along.
THEOREM AdminCounterCovers == AdminSpec => []HoldsCounted
<1>1. AdminTypeOK /\ SlotInv => HoldsCounted
  BY HoldsWithinLive DEF AdminTypeOK, SlotInv, SlotsCounted, HoldsCounted, TypeOK
<1>. QED BY <1>1, AdminSlotInvariant, AdminTypeCorrect, PTL

\* NeverOverbooked: a move by hand asks for a free place, too.
THEOREM AdminOverbooking == AdminSpec => []NeverOverbooked
<1>1. SlotInv => NeverOverbooked
  BY HoldsWithinLive, CapacityAssumption DEF SlotInv, SlotsCounted, NeverOverbooked
<1>. QED BY <1>1, AdminSlotInvariant, PTL

------------------------------------------------------------------------------
(* Who sees what of a booking: BookingViews. *)

------------------------------------------------------------------------------
(* What views there are, what they show and who drops them. *)

General == OfUser \cup {<<"adminList", "admin">>, <<"overview", "owner">>}

Actives == {"active"} \X Drivers

OfStores == StoreKinds \X Stores

\* The kinds of a view the helper drops are told by its name.
LEMMA KindsApart ==
    /\ \A v \in General : v[1] \in UserKinds \cup {"adminList", "overview"}
    /\ \A v \in Actives : v = <<"active", v[2]>> /\ v[2] \in Drivers
    /\ \A v \in OfStores : v = <<v[1], v[2]>> /\ v[1] \in StoreKinds /\ v[2] \in Stores
    /\ KeptViews = General \cup OfStores \cup Actives
    /\ KeptViews \subseteq Views
  BY DEF General, Actives, OfStores, OfUser, KeptViews, Views, DriverKinds

\* Whom a view concerns.
LEMMA Concern ==
    ASSUME NEW v \in KeptViews
    PROVE  /\ v \in OfStores => (Concerns(v) <=> v[2] = booking.store)
           /\ v \in Actives => (Concerns(v) <=> v[2] \in {booking.pickup, booking.delivery})
           /\ v = <<"overview", "owner">> => (Concerns(v) <=> booking.store # None)
  BY KindsApart DEF Concerns, DriverKinds, StoreKinds, UserKinds, OfStores, Actives

\* What the shared drop drops of the views kept.
LEMMA CoreDropsAre ==
    ASSUME NEW ds \in SUBSET (Drivers \cup {None}), NEW s \in Stores \cup {None},
           NEW v \in KeptViews
    PROVE  v \in CoreDrops(ds, s) <=>
              \/ v \in General
              \/ v \in OfStores /\ IF s = None THEN v[1] # "storeDetail" ELSE v[2] = s
              \/ v \in Actives /\ v[2] \in ds
<1>1. CASE v \in General
  BY <1>1 DEF CoreDrops, StoreDrops, General
<1>2. CASE v \in OfStores
  <2>1. v \notin General /\ v \notin Actives /\ v \notin OfUser /\ v # <<"adminList", "admin">>
        /\ v # <<"overview", "owner">> /\ v \notin {"active"} \X (ds \ {None})
    BY <1>2, KindsApart DEF General, UserKinds, StoreKinds, OfStores, Actives, OfUser
  <2>2. v \in StoreKinds \X {s} <=> v[2] = s
    BY <1>2 DEF OfStores
  <2>3. v \in (StoreKinds \ {"storeDetail"}) \X Stores <=> v[1] # "storeDetail"
    BY <1>2 DEF OfStores
  <2>. QED BY <1>2, <2>1, <2>2, <2>3 DEF CoreDrops, StoreDrops, OfStore
<1>3. CASE v \in Actives
  <2>1. v \notin General /\ v \notin OfStores /\ v \notin OfUser /\ v # <<"adminList", "admin">>
        /\ v # <<"overview", "owner">>
    BY <1>3, KindsApart DEF General, UserKinds, StoreKinds, OfUser
  <2>2. \A t : v \notin StoreKinds \X {t} /\ v \notin (StoreKinds \ {"storeDetail"}) \X Stores
    BY <1>3 DEF StoreKinds, Actives
  <2>3. v \in {"active"} \X (ds \ {None}) <=> v[2] \in ds
    BY <1>3, ViewsAssumption DEF Actives
  <2>. QED BY <1>3, <2>1, <2>2, <2>3 DEF CoreDrops, StoreDrops, OfStore
<1>. QED BY <1>1, <1>2, <1>3, KindsApart

\* ... which are views.
LEMMA DropsAreViews ==
    ASSUME NEW ds \in SUBSET (Drivers \cup {None}), NEW s \in Stores \cup {None},
           NEW d \in Drivers \cup {None}
    PROVE  /\ CoreDrops(ds, s) \in SUBSET Views /\ StoreDrops(s) \in SUBSET Views
           /\ DriverDrops(d) \in SUBSET Views
<1>1. StoreDrops(s) \in SUBSET Views
  BY DEF StoreDrops, OfStore, Views
<1>2. OfUser \in SUBSET Views /\ {"active"} \X (ds \ {None}) \in SUBSET Views
  BY DEF OfUser, Views, DriverKinds
<1>3. CoreDrops(ds, s) \in SUBSET Views
  <2>1. <<"adminList", "admin">> \in Views
    BY DEF Views
  <2>. QED BY <1>1, <1>2, <2>1 DEF CoreDrops
<1>4. DriverDrops(d) \in SUBSET Views
  BY DEF DriverDrops, Views, DriverKinds
<1>. QED BY <1>1, <1>3, <1>4

\* A view finds the booking or nothing.
LEMMA FaceType == ASSUME ViewsTypeOK, NEW v PROVE Face(v) \in Documents
  BY DEF ViewsTypeOK, Face, Documents, Blank, Known

\* While the booking stays as it is, so does what views find in it.
LEMMA SameBooking ==
    ASSUME booking' = booking PROVE HelperDrops' = HelperDrops /\ \A v : Face(v)' = Face(v)
  BY DEF HelperDrops, Face, Concerns

\* A view that finds another thing than before concerns the booking, or did.
LEMMA FaceMoves ==
    ASSUME NEW v \in KeptViews, Face(v)' # Face(v)
    PROVE  \/ v \in General
           \/ v \in OfStores /\ v[2] \in {booking.store, booking'.store}
           \/ /\ v \in Actives
              /\ \/ /\ v[2] \in {booking.pickup, booking.delivery}
                    /\ booking.st \in PickupLeg \cup DeliveryLeg
                 \/ /\ v[2] \in {booking'.pickup, booking'.delivery}
                    /\ booking'.st \in PickupLeg \cup DeliveryLeg
<1>1. \/ Concerns(v) /\ booking.st \in Scope[v[1]]
      \/ (Concerns(v) /\ booking.st \in Scope[v[1]])'
  BY DEF Face
<1>2. CASE v \in OfStores
  <2>1. (Concerns(v) <=> v[2] = booking.store) /\ (Concerns(v) <=> v[2] = booking.store)'
    BY <1>2, KindsApart DEF Concerns, DriverKinds, StoreKinds
  <2>. QED BY <1>1, <1>2, <2>1
<1>3. CASE v \in Actives
  <2>0. v[1] \in DriverKinds /\ v[1] \notin StoreKinds /\ v[1] # "overview"
    BY <1>3, KindsApart DEF DriverKinds, StoreKinds
  <2>1. /\ Concerns(v) <=> v[2] \in {booking.pickup, booking.delivery}
        /\ Concerns(v)' <=> v[2] \in {booking'.pickup, booking'.delivery}
    BY <2>0 DEF Concerns
  <2>2. Scope[v[1]] = PickupLeg \cup DeliveryLeg
    BY <1>3, KindsApart DEF Scope, DriverKinds
  <2>. QED BY <1>1, <1>3, <2>1, <2>2
<1>. QED BY <1>2, <1>3, KindsApart

\* A view that is never cached empty, and is right, has the booking in it.
LEMMA SingleShows ==
    ASSUME NoBlank, NEW v \in DOMAIN cached, v[1] \in Single, Right(v)
    PROVE  Concerns(v) /\ booking.st \in Scope[v[1]]
  BY DEF NoBlank, Right, Face

------------------------------------------------------------------------------
(* Steps that leave the booking as it is. *)

\* Such a step, of whoever it is, loses no excuse and no view.
LEMMA QuietView ==
    ASSUME NEW v, Shown(v), booking' = booking,
           v \in DOMAIN cached' => v \in DOMAIN cached /\ cached'[v] = cached[v],
           Due(v) \/ v \in moved => Due(v)' \/ v \in moved' \/ v \notin DOMAIN cached'
    PROVE  Shown(v)'
  BY SameBooking DEF Shown, Right

\* What a handler has left to drop and to look for is all the others see of it.
SameDrops(h) == \A g \in Handlers : g # h => request'[g] = request[g]

\* A reader begins.
LEMMA ReadStep ==
    ASSUME ViewsTypeOK, ViewsInv, NEW h \in Handlers, NEW w \in Views, Read(h, w)
    PROVE  ViewsTypeOK' /\ ViewsInv'
<1> DEFINE k == [AtRest EXCEPT !.do = "read", !.view = w, !.face = Face(w)]
<1>1. /\ UNCHANGED <<booking, cached, by, late, missed, moved>>
      /\ request[h] = AtRest /\ request' = [request EXCEPT ![h] = k]
  BY DEF Read, history
<1>2. /\ k.do = "read" /\ k.view = w /\ k.face = Face(w) /\ k.left = {} /\ k.look = FALSE
      /\ AtRest.left = {} /\ AtRest.look = FALSE
  BY DEF AtRest
<1>3. k \in Requests
  BY DEF AtRest, Requests, ViewsTypeOK, Face, Blank, Documents, Known
<1>4. request'[h] = k /\ SameDrops(h)
  BY <1>1 DEF ViewsTypeOK, SameDrops
<1>5. ViewsTypeOK'
  <2> HIDE DEF k
  <2>. QED BY <1>1, <1>2, <1>3 DEF ViewsTypeOK
<1> HIDE DEF k
<1>6. ASSUME NEW v, Shown(v) PROVE Shown(v)'
  <2>1. Due(v) => Due(v)'
    BY <1>1, <1>2, <1>4, SameBooking DEF Due, SameDrops
  <2>. QED BY <1>1, <1>6, <2>1, QuietView
<1>7. KeptShown' /\ LastShown'
  BY <1>1, <1>6 DEF ViewsInv, KeptShown, LastShown
<1>8. ReadIsFresh'
  BY <1>1, <1>2, <1>4, SameBooking DEF ViewsInv, ReadIsFresh, SameDrops
<1>9. NoBlank' /\ Unpaid' /\ NoEarlyDelivery'
  BY <1>1, <1>2, <1>4 DEF ViewsInv, NoBlank, Unpaid, NoEarlyDelivery, SameDrops
<1>. QED BY <1>5, <1>7, <1>8, <1>9 DEF ViewsInv

\* A handler stops, or has its views dropped: handler h is left with k.
LEMMA DoneStep ==
    ASSUME ViewsTypeOK, ViewsInv, NEW h \in Handlers, NEW k \in Requests,
           k.do # "read", k.do # "write" => k.left = {} /\ ~k.look, k.look => request[h].look,
           request' = [request EXCEPT ![h] = k],
           UNCHANGED <<booking, by>>,
           DOMAIN cached' \subseteq DOMAIN cached,
           \A v \in DOMAIN cached' : cached'[v] = cached[v],
           late' \cup missed' \subseteq Views, moved' \subseteq StoreKinds \X Stores,
           \A v \in DOMAIN cached' :
              /\ v \in late \cup missed => v \in late' \cup missed'
              /\ v \in moved => v \in moved'
              /\ v \in request[h].left => v \in k.left \cup missed'
              /\ request[h].look /\ v \in HelperDrops => k.look \/ v \in k.left \cup missed'
    PROVE  ViewsTypeOK' /\ ViewsInv'
<1>1. request'[h] = k /\ SameDrops(h)
  BY DEF ViewsTypeOK, SameDrops
<1>2. ViewsTypeOK'
  BY DEF ViewsTypeOK
<1>3. ASSUME NEW v, Shown(v) PROVE Shown(v)'
  <2>1. Due(v) => Due(v)' \/ v \notin DOMAIN cached'
    BY <1>1, SameBooking DEF Due, SameDrops
  <2>. QED BY <1>3, <2>1, QuietView
<1>4. KeptShown' /\ LastShown'
  BY <1>3 DEF ViewsInv, KeptShown, LastShown
<1>5. ReadIsFresh'
  BY <1>1, SameBooking DEF ViewsInv, ReadIsFresh, SameDrops
<1>6. NoBlank' /\ Unpaid' /\ NoEarlyDelivery'
  BY <1>1 DEF ViewsInv, NoBlank, Unpaid, NoEarlyDelivery, SameDrops
<1>. QED BY <1>2, <1>4, <1>5, <1>6 DEF ViewsInv

\* Nothing left to do.
LEMMA IdleIs ==
    AtRest \in Requests /\ AtRest.do = "idle" /\ AtRest.left = {} /\ AtRest.look = FALSE
  BY DEF AtRest, Requests, Blank, Documents, Known

\* A reader caches what it read.
LEMMA FillStep ==
    ASSUME ViewsTypeOK, ViewsInv, NEW h \in Handlers, Fill(h) PROVE ViewsTypeOK' /\ ViewsInv'
<1> DEFINE w == request[h].view
           f == request[h].face
<1>1. /\ request[h].do = "read" /\ request[h].left = {} /\ ~request[h].look
      /\ w \in Views /\ f \in Documents
      /\ ~request[h].old => f = Face(w)
      /\ request' = [request EXCEPT ![h] = AtRest] /\ UNCHANGED <<booking, by>>
  BY DEF Fill, ViewsTypeOK, Requests, ViewsInv, ReadIsFresh
<1>2. CASE f = Blank /\ w[1] \in Single
  <2>1. UNCHANGED <<cached, late, missed, moved>>
    BY <1>2 DEF Fill, history
  <2>. QED BY <1>1, <2>1, IdleIs, DoneStep DEF ViewsTypeOK
<1>3. CASE ~(f = Blank /\ w[1] \in Single)
  <2>1. /\ cached' = [v \in DOMAIN cached \cup {w} |-> IF v = w THEN f ELSE cached[v]]
        /\ late' = IF request[h].old THEN late \cup {w} ELSE late \ {w}
        /\ missed' = missed \ {w} /\ moved' = moved \ {w}
    BY <1>3 DEF Fill
  <2>2. request'[h] = AtRest /\ SameDrops(h)
    BY <1>1 DEF ViewsTypeOK, SameDrops
  <2>3. ViewsTypeOK'
    BY <1>1, <2>1, IdleIs DEF ViewsTypeOK
  <2>4. ASSUME NEW v, Shown(v) PROVE Shown(v)'
    <3>1. CASE v = w
      BY <1>1, <2>1, <3>1, SameBooking DEF Shown, Right, Due
    <3>2. CASE v # w
      <4>1. Due(v) => Due(v)'
        BY <1>1, <2>1, <2>2, <3>2, SameBooking DEF Due, SameDrops
      <4>. QED BY <1>1, <2>1, <2>4, <3>2, <4>1, QuietView
    <3>. QED BY <3>1, <3>2
  <2>5. KeptShown' /\ LastShown'
    BY <1>1, <2>4 DEF ViewsInv, KeptShown, LastShown
  <2>6. ReadIsFresh'
    BY <1>1, <2>2, IdleIs, SameBooking DEF ViewsInv, ReadIsFresh, SameDrops
  <2>7. NoBlank'
    BY <1>3, <2>1 DEF ViewsInv, NoBlank
  <2>8. Unpaid' /\ NoEarlyDelivery'
    BY <1>1, <2>2, IdleIs DEF ViewsInv, Unpaid, NoEarlyDelivery, SameDrops
  <2>. QED BY <2>3, <2>5, <2>6, <2>7, <2>8 DEF ViewsInv
<1>. QED BY <1>2, <1>3

\* A key's time to live is over.
LEMMA ExpireStep == ASSUME ViewsTypeOK, ViewsInv, Expire PROVE ViewsTypeOK' /\ ViewsInv'
<1>1. PICK w \in DOMAIN cached : Forget({w})
  BY DEF Expire
<1>2. /\ UNCHANGED <<booking, request, by>>
      /\ DOMAIN cached' \subseteq DOMAIN cached /\ w \notin DOMAIN cached'
      /\ \A v \in DOMAIN cached' : cached'[v] = cached[v]
      /\ late' = late \ {w} /\ missed' = missed \ {w} /\ moved' = moved \ {w}
  BY <1>1 DEF Expire, Forget
<1>3. ViewsTypeOK'
  BY <1>2 DEF ViewsTypeOK
<1>4. ASSUME NEW v, Shown(v) PROVE Shown(v)'
  <2>1. Due(v) => Due(v)' \/ v \notin DOMAIN cached'
    BY <1>2, SameBooking DEF Due
  <2>. QED BY <1>2, <1>4, <2>1, QuietView
<1>5. KeptShown' /\ LastShown'
  BY <1>2, <1>4 DEF ViewsInv, KeptShown, LastShown
<1>6. ReadIsFresh' /\ NoBlank' /\ Unpaid' /\ NoEarlyDelivery'
  BY <1>2, SameBooking DEF ViewsInv, ReadIsFresh, NoBlank, Unpaid, NoEarlyDelivery
<1>. QED BY <1>3, <1>5, <1>6 DEF ViewsInv

\* The helper looks up whom the booking names.
LEMMA LookStep ==
    ASSUME ViewsTypeOK, ViewsInv, NEW h \in Handlers, Look(h)
    PROVE  ViewsTypeOK' /\ ViewsInv'
<1> DEFINE k == [request[h] EXCEPT !.look = FALSE,
                              !.left = request[h].left \cup HelperDrops]
<1>0. request' = [request EXCEPT ![h] = k]
  BY DEF Look
<1>1. /\ request[h].look /\ request[h] \in Requests /\ request[h].do = "write"
      /\ UNCHANGED <<booking, by, cached, late, missed, moved>>
  BY DEF Look, ViewsTypeOK, history
<1>2. HelperDrops \in SUBSET Views
  BY DropsAreViews DEF HelperDrops, ViewsTypeOK, Documents
<1>3. /\ k \in Requests /\ k.do = "write" /\ k.look = FALSE
      /\ k.left = request[h].left \cup HelperDrops
  BY <1>1, <1>2 DEF Requests
<1> HIDE DEF k
<1>. QED BY <1>0, <1>1, <1>3, DoneStep DEF ViewsTypeOK

\* What is known so far is dropped.
LEMMA DropStep ==
    ASSUME ViewsTypeOK, ViewsInv, NEW h \in Handlers, Drop(h) PROVE ViewsTypeOK' /\ ViewsInv'
<1>1. PICK k \in Requests :
        /\ request' = [request EXCEPT ![h] = k]
        /\ k.do # "read" /\ k.left = {} /\ k.look = request[h].look
        /\ k.do # "write" => ~k.look
  <2>1. CASE request[h].look
    <3> DEFINE k == [request[h] EXCEPT !.left = {}]
    <3>1. request' = [request EXCEPT ![h] = k]
      BY <2>1 DEF Drop
    <3>2. /\ k \in Requests /\ k.do = "write" /\ k.left = {} /\ k.look = request[h].look
      BY <2>1 DEF ViewsTypeOK, Requests
    <3>. QED BY <3>1, <3>2
  <2>2. CASE ~request[h].look
    <3>1. request' = [request EXCEPT ![h] = AtRest]
      BY <2>2 DEF Drop
    <3>2. request[h].look = FALSE
      BY <2>2 DEF ViewsTypeOK, Requests
    <3>. QED BY <3>1, <3>2, IdleIs
  <2>. QED BY <2>1, <2>2
<1>2. /\ UNCHANGED <<booking, by>>
      /\ DOMAIN cached' = DOMAIN cached \ request[h].left
      /\ \A v \in DOMAIN cached' : cached'[v] = cached[v]
      /\ late' = late \ request[h].left /\ missed' = missed \ request[h].left
      /\ moved' = moved \ request[h].left
  BY DEF Drop, Forget
<1>3. late' \cup missed' \subseteq Views /\ moved' \subseteq StoreKinds \X Stores
  BY <1>2 DEF ViewsTypeOK
<1>4. \A v \in DOMAIN cached' : v \in DOMAIN cached /\ v \notin request[h].left
  BY <1>2
<1>5. \A v \in DOMAIN cached' :
         /\ v \in late \cup missed => v \in late' \cup missed'
         /\ v \in moved => v \in moved'
         /\ v \in request[h].left => v \in k.left \cup missed'
  BY <1>2, <1>4
<1>6. k.look = request[h].look /\ (k.do # "write" => k.left = {} /\ ~k.look)
  BY <1>1
<1>. QED BY <1>1, <1>2, <1>3, <1>4, <1>5, <1>6, DoneStep

\* A crash, or an error of Redis: what was left stays in the cache.
LEMMA LoseStep ==
    ASSUME ViewsTypeOK, ViewsInv, NEW h \in Handlers, Lose(h)
    PROVE  ViewsTypeOK' /\ ViewsInv'
<1>1. /\ request' = [request EXCEPT ![h] = AtRest]
      /\ UNCHANGED <<booking, by, cached, late, moved>>
      /\ missed' = missed \cup (DOMAIN cached \cap IF request[h].look THEN Views
                                                   ELSE request[h].left)
  BY DEF Lose
<1>2. DOMAIN cached \subseteq Views /\ missed' \subseteq Views
      /\ late' \cup missed' \subseteq Views /\ moved' \subseteq StoreKinds \X Stores
  BY <1>1 DEF ViewsTypeOK
<1>3. \A v \in DOMAIN cached' : v \in request[h].left \/ request[h].look => v \in missed'
  BY <1>1, <1>2
<1>4. AtRest.do # "read" /\ (AtRest.do # "write" => AtRest.left = {} /\ ~AtRest.look)
      /\ (AtRest.look => request[h].look)
  BY IdleIs
<1>. QED BY <1>1, <1>2, <1>3, <1>4, IdleIs, DoneStep

------------------------------------------------------------------------------
(* Steps that write the booking. *)

\* A view is caught by a writer who drops it, or who has yet to look and will
\* find it, or it is one of those the model excuses.
Caught(v, drops, look) ==
    v \in drops \/ (look /\ v \in HelperDrops') \/ v \in missed' \cup moved'

\* The handlers after a write: h drops what it knows and has yet to look for the
\* rest; what others have read is of the past.
Written(h, drops, look) ==
    /\ request' \in [Handlers -> Requests]
    /\ request'[h].do \in {"idle", "write"}
    /\ request'[h].do # "write" => drops = {} /\ ~look
    /\ request'[h].left = drops /\ request'[h].look = look
    /\ request[h].left = {} /\ ~request[h].look
    /\ \A g \in Handlers : g # h =>
          /\ request'[g].do = request[g].do
          /\ request'[g].left = request[g].left /\ request'[g].look = request[g].look
          /\ request'[g].view = request[g].view
          /\ request[g].do = "read" => request'[g].old = TRUE

LEMMA WriterIs ==
    ASSUME ViewsTypeOK, NEW h \in Handlers, NEW new, NEW d, NEW drops \in SUBSET Views,
           NEW look \in BOOLEAN, Write(h, new, d, drops, look)
    PROVE  Written(h, drops, look)
<1> DEFINE w == [AtRest EXCEPT !.do = "write", !.left = drops, !.look = look]
<1>1. /\ request[h] = AtRest
      /\ request' = [g \in Handlers |->
             IF g = h THEN Finish(w)
             ELSE IF request[g].do = "read" THEN [request[g] EXCEPT !.old = TRUE] ELSE request[g]]
  BY DEF Write
<1>2. w \in Requests /\ w.do = "write" /\ w.left = drops /\ w.look = look
  BY DEF AtRest, Requests, Blank, Documents, Known
<1> HIDE DEF w
<1>3. /\ Finish(w) \in Requests /\ Finish(w).do \in {"idle", "write"}
      /\ Finish(w).do # "write" => drops = {} /\ ~look
      /\ Finish(w).left = drops /\ Finish(w).look = look
  BY <1>2, IdleIs DEF Finish
<1>4. ASSUME NEW g \in Handlers
      PROVE  /\ request[g] \in Requests /\ [request[g] EXCEPT !.old = TRUE] \in Requests
             /\ LET k == [request[g] EXCEPT !.old = TRUE] IN
                   /\ k.do = request[g].do /\ k.left = request[g].left
                   /\ k.look = request[g].look /\ k.view = request[g].view /\ k.old = TRUE
  BY DEF ViewsTypeOK, Requests
<1>5. request' \in [Handlers -> Requests]
  BY <1>1, <1>3, <1>4
<1>6. request'[h] = Finish(w)
  BY <1>1
<1>7. request[h].left = {} /\ ~request[h].look
  BY <1>1, IdleIs
<1>. QED BY <1>1, <1>3, <1>4, <1>5, <1>6, <1>7 DEF Written

\* A write after which every view that was right, and now is not, is caught, and
\* every view somebody had yet to look for, too.
LEMMA WriteStep ==
    ASSUME ViewsTypeOK, ViewsInv, NEW h \in Handlers, NEW new \in Documents,
           NEW d \in Drivers \cup {None}, NEW drops \in SUBSET Views, NEW look \in BOOLEAN,
           Write(h, new, d, drops, look),
           missed \subseteq missed', missed' \subseteq Views,
           moved \subseteq moved', moved' \subseteq StoreKinds \X Stores,
           \A v \in KeptViews \cap DOMAIN cached :
              Right(v) /\ Face(v)' # Face(v) => Caught(v, drops, look),
           (\E g \in Handlers : request[g].look) =>
              \A v \in KeptViews \cap DOMAIN cached :
                 v \in HelperDrops /\ v \notin HelperDrops' => Caught(v, drops, look),
           d # None => \A k \in {"assigned", "ride"} :
              <<k, d>> \in drops \/ <<k, d>> \in missed' \/ <<k, d>> \notin DOMAIN cached,
           new.st \in {"none", "payment_pending"} =>
              new.store = None /\ ~look /\ \A g \in Handlers : ~request[g].look,
           new.delivery # None => new.st \in DeliveryLeg \cup Terminal
    PROVE  ViewsTypeOK' /\ ViewsInv'
<1>00. Written(h, drops, look)
  BY WriterIs
<1>0. /\ request' \in [Handlers -> Requests]
      /\ request'[h].do \in {"idle", "write"}
      /\ request'[h].do # "write" => drops = {} /\ ~look
      /\ request'[h].left = drops /\ request'[h].look = look
      /\ request[h].left = {} /\ ~request[h].look
      /\ \A g \in Handlers : g # h =>
            /\ request'[g].do = request[g].do
            /\ request'[g].left = request[g].left /\ request'[g].look = request[g].look
            /\ request'[g].view = request[g].view
            /\ request[g].do = "read" => request'[g].old = TRUE
  BY <1>00 DEF Written
<1>1. booking' = new /\ by' = d /\ UNCHANGED <<cached, late>>
  BY DEF Write
<1>2. ViewsTypeOK'
  <2>1. \A g \in Handlers : request'[g].do # "write" => request'[g].left = {} /\ ~request'[g].look
    BY <1>0 DEF ViewsTypeOK
  <2>2. /\ late' \cup missed' \subseteq Views /\ booking' \in Documents
        /\ by' \in Drivers \cup {None} /\ DOMAIN cached' \subseteq Views
    BY <1>1 DEF ViewsTypeOK
  <2>. QED BY <1>0, <2>1, <2>2 DEF ViewsTypeOK
<1>3. ASSUME NEW v, Caught(v, drops, look) PROVE Shown(v)'
  BY <1>0, <1>3 DEF Caught, Shown, Due
<1>4. ASSUME NEW v \in KeptViews PROVE Shown(v)'
  <2>1. Shown(v)
    BY DEF ViewsInv, KeptShown
  <2>2. CASE v \notin DOMAIN cached
    BY <1>1, <2>2 DEF Shown, Right
  <2>3. CASE v \in DOMAIN cached /\ Right(v)
    <3>1. CASE Face(v)' = Face(v)
      BY <1>1, <2>3, <3>1 DEF Shown, Right
    <3>. QED BY <1>3, <2>3, <3>1
  <2>4. CASE v \in DOMAIN cached /\ ~Right(v)
    <3>1. CASE v \in late \cup missed \cup moved
      BY <1>1, <3>1 DEF Shown, Due
    <3>2. CASE \E g \in Handlers : v \in request[g].left
      BY <1>0, <3>2 DEF Shown, Due
    <3>3. CASE \E g \in Handlers : request[g].look /\ v \in HelperDrops
      <4>1. CASE v \in HelperDrops'
        BY <1>0, <3>3, <4>1 DEF Shown, Due
      <4>. QED BY <1>3, <2>4, <3>3, <4>1
    <3>. QED BY <2>1, <2>4, <3>1, <3>2, <3>3 DEF Shown, Due
  <2>. QED BY <2>2, <2>3, <2>4
<1>5. KeptShown'
  BY <1>4 DEF KeptShown, KeptViews, OfUser
<1>6. LastShown'
  <2>1. ASSUME NEW k \in {"assigned", "ride"}, d # None PROVE Shown(<<k, d>>)'
    <3>1. CASE <<k, d>> \notin DOMAIN cached
      BY <1>1, <3>1 DEF Shown, Right
    <3>2. CASE <<k, d>> \in drops \/ <<k, d>> \in missed'
      BY <1>3, <3>2 DEF Caught
    <3>. QED BY <2>1, <3>1, <3>2
  <2>. QED BY <1>1, <2>1 DEF LastShown
<1>7. ReadIsFresh'
  BY <1>0 DEF ViewsInv, ReadIsFresh
<1>8. NoBlank'
  BY <1>1 DEF ViewsInv, NoBlank
<1>9. Unpaid' /\ NoEarlyDelivery'
  BY <1>0, <1>1 DEF Unpaid, NoEarlyDelivery
<1>. QED BY <1>2, <1>5, <1>6, <1>7, <1>8, <1>9 DEF ViewsInv

\* What the helper drops of the views kept, before a step and after.
LEMMA HelperDropsAre ==
    ASSUME booking \in Documents, booking' \in Documents, NEW v \in KeptViews
    PROVE  /\ v \in HelperDrops <=>
                 \/ v \in General
                 \/ v \in OfStores /\ IF booking.store = None THEN v[1] # "storeDetail"
                                      ELSE v[2] = booking.store
                 \/ v \in Actives /\ v[2] \in {booking.pickup, booking.delivery}
           /\ v \in HelperDrops' <=>
                 \/ v \in General
                 \/ v \in OfStores /\ IF booking'.store = None THEN v[1] # "storeDetail"
                                      ELSE v[2] = booking'.store
                 \/ v \in Actives /\ v[2] \in {booking'.pickup, booking'.delivery}
<1>1. ASSUME NEW b \in Documents
      PROVE  v \in CoreDrops({b.pickup, b.delivery}, b.store) <=>
                 \/ v \in General
                 \/ v \in OfStores /\ IF b.store = None THEN v[1] # "storeDetail"
                                      ELSE v[2] = b.store
                 \/ v \in Actives /\ v[2] \in {b.pickup, b.delivery}
  <2>1. {b.pickup, b.delivery} \in SUBSET (Drivers \cup {None}) /\ b.store \in Stores \cup {None}
    BY DEF Documents
  <2>. QED BY <2>1, CoreDropsAre
<1>2. HelperDrops = CoreDrops({booking.pickup, booking.delivery}, booking.store)
      /\ HelperDrops' = CoreDrops({booking'.pickup, booking'.delivery}, booking'.store)
  BY DEF HelperDrops, CoreDrops, StoreDrops, OfStore
<1>. QED BY <1>1, <1>2

\* A writer who has the helper look: whoever is taken off the booking is dropped
\* by name.
LEMMA LookingStep ==
    ASSUME ViewsTypeOK, ViewsInv, NEW h \in Handlers, NEW new \in Documents,
           NEW d \in Drivers \cup {None}, NEW drops \in SUBSET Views,
           Write(h, new, d, drops, TRUE),
           missed \subseteq missed', missed' \subseteq Views, moved' = moved,
           new.store = booking.store \/ booking.st = "payment_pending",
           \A x \in {booking.pickup, booking.delivery} :
              \/ x \in {new.pickup, new.delivery}
              \/ <<"active", x>> \in drops \cup missed' \/ <<"active", x>> \notin DOMAIN cached,
           d # None => \A k \in {"assigned", "ride"} : <<k, d>> \in drops,
           new.st \notin {"none", "payment_pending"},
           new.delivery # None => new.st \in DeliveryLeg \cup Terminal
    PROVE  ViewsTypeOK' /\ ViewsInv'
<1>1. booking' = new /\ booking \in Documents /\ booking' \in Documents
  BY DEF Write, ViewsTypeOK
<1>2. \/ booking'.store = booking.store
      \/ booking.store = None /\ \A g \in Handlers : ~request[g].look
  BY <1>1 DEF ViewsInv, Unpaid
<1>3. ASSUME NEW v \in Actives, v \in DOMAIN cached, v[2] \in {booking.pickup, booking.delivery}
      PROVE  Caught(v, drops, TRUE)
  <2>1. v = <<"active", v[2]>> /\ v \in KeptViews
    BY KindsApart
  <2>2. \/ v[2] \in {booking'.pickup, booking'.delivery}
        \/ v \in drops \cup missed'
    BY <1>1, <1>3, <2>1
  <2>. QED BY <1>1, <2>1, <2>2, HelperDropsAre DEF Caught
<1>4. ASSUME NEW v \in KeptViews \cap DOMAIN cached, Face(v)' # Face(v)
      PROVE  Caught(v, drops, TRUE)
  <2>1. CASE v \in General
    BY <1>1, <2>1, HelperDropsAre DEF Caught
  <2>2. CASE v \in OfStores /\ v[2] \in {booking.store, booking'.store}
    <3>1. v[2] \in Stores /\ v[2] # None
      BY <2>2, KindsApart, ViewsAssumption
    <3>2. v[2] = booking'.store
      BY <1>2, <2>2, <3>1
    <3>. QED BY <1>1, <2>2, <3>1, <3>2, HelperDropsAre DEF Caught
  <2>3. CASE v \in Actives /\ v[2] \in {booking'.pickup, booking'.delivery}
    BY <1>1, <2>3, HelperDropsAre DEF Caught
  <2>4. CASE v \in Actives /\ v[2] \in {booking.pickup, booking.delivery}
    BY <1>3, <2>4
  <2>. QED BY <1>4, <2>1, <2>2, <2>3, <2>4, FaceMoves
<1>5. ASSUME NEW g \in Handlers, request[g].look, NEW v \in KeptViews \cap DOMAIN cached,
             v \in HelperDrops, v \notin HelperDrops'
      PROVE  Caught(v, drops, TRUE)
  <2>1. booking'.store = booking.store
    BY <1>2, <1>5
  <2>2. v \in Actives /\ v[2] \in {booking.pickup, booking.delivery}
    BY <1>1, <1>5, <2>1, HelperDropsAre
  <2>. QED BY <1>3, <2>2
<1>6. TRUE \in BOOLEAN /\ moved \subseteq moved' /\ moved' \subseteq StoreKinds \X Stores
  BY DEF ViewsTypeOK
<1>. QED BY <1>4, <1>5, <1>6, WriteStep

\* Nobody has no view.
LEMMA NobodysView ==
    ASSUME ViewsTypeOK PROVE <<"active", None>> \notin DOMAIN cached
<1>1. <<"active", None>> \notin Views
  BY ViewsAssumption DEF Views, UserKinds, StoreKinds, DriverKinds
<1>. QED BY <1>1 DEF ViewsTypeOK

\* The booking in another status.
LEMMA InIs ==
    ASSUME ViewsTypeOK, NEW st \in Known
    PROVE  /\ In(st) \in Documents /\ In(st).st = st /\ In(st).store = booking.store
           /\ In(st).pickup = booking.pickup /\ In(st).delivery = booking.delivery
  BY DEF ViewsTypeOK, In, Documents

\* An endpoint of a driver, which takes nobody off the booking.
LEMMA EndpointStep ==
    ASSUME ViewsTypeOK, ViewsInv, NEW h \in Handlers, NEW d \in Drivers,
           NEW new \in Documents, Endpoint(h, d, new),
           new.store = booking.store,
           booking.pickup \in {new.pickup, None}, booking.delivery \in {new.delivery, None},
           new.st \notin {"none", "payment_pending"},
           new.delivery # None => new.st \in DeliveryLeg \cup Terminal
    PROVE  ViewsTypeOK' /\ ViewsInv'
<1>1. Write(h, new, d, DriverDrops(d), TRUE) /\ missed' = missed /\ moved' = moved
  BY DEF Endpoint, EndpointDrops, Plain
<1>2. DriverDrops(d) \in SUBSET Views
  BY DropsAreViews
<1>3. \A k \in {"assigned", "ride"} : <<k, d>> \in DriverDrops(d)
  BY ViewsAssumption DEF DriverDrops
<1>4. missed' \subseteq Views
  BY <1>1 DEF ViewsTypeOK
<1>5. \A x \in {booking.pickup, booking.delivery} :
         x \in {new.pickup, new.delivery} \/ <<"active", x>> \notin DOMAIN cached
  BY NobodysView
<1>. QED BY <1>1, <1>2, <1>3, <1>4, <1>5, LookingStep

\* Nobody is told: what is cached is marked.
LEMMA UnannouncedStep ==
    ASSUME ViewsTypeOK, ViewsInv, NEW h \in Handlers,
           NEW new \in Documents, NEW d \in Drivers \cup {None}, Unannounced(h, new, d),
           new.st \notin {"none", "payment_pending"},
           new.delivery # None => new.st \in DeliveryLeg \cup Terminal
    PROVE  ViewsTypeOK' /\ ViewsInv'
<1>1. /\ Write(h, new, d, {}, FALSE)
      /\ missed' = missed \cup DOMAIN cached /\ moved' = moved
  BY DEF Unannounced
<1>2. missed \subseteq missed' /\ missed' \subseteq Views /\ moved \subseteq moved'
      /\ moved' \subseteq StoreKinds \X Stores /\ {} \in SUBSET Views /\ FALSE \in BOOLEAN
  BY <1>1 DEF ViewsTypeOK
<1>3. \A v \in KeptViews \cap DOMAIN cached : Caught(v, {}, FALSE)
  BY <1>1 DEF Caught
<1>4. \A k \in {"assigned", "ride"} : <<k, d>> \in missed' \/ <<k, d>> \notin DOMAIN cached
  BY <1>1
<1>. QED BY <1>1, <1>2, <1>3, <1>4, WriteStep

\* The helper drops them all.
LEMMA HelpedStep ==
    ASSUME ViewsTypeOK, ViewsInv, NEW h \in Handlers,
           NEW new \in Documents, Helped(h, new),
           new.store = booking.store \/ booking.st = "payment_pending",
           new.pickup = booking.pickup, new.delivery = booking.delivery,
           new.st \notin {"none", "payment_pending"},
           new.delivery # None => new.st \in DeliveryLeg \cup Terminal
    PROVE  ViewsTypeOK' /\ ViewsInv'
<1>1. Write(h, new, None, {}, TRUE) /\ missed' = missed /\ moved' = moved
  BY DEF Helped, Plain
<1>2. missed' \subseteq Views
  BY <1>1 DEF ViewsTypeOK
<1>3. {} \in SUBSET Views /\ None \in Drivers \cup {None} /\ missed \subseteq missed'
  BY <1>1
<1>4. \A x \in {booking.pickup, booking.delivery} : x \in {new.pickup, new.delivery}
  OBVIOUS
<1>. QED BY <1>1, <1>2, <1>3, <1>4, LookingStep

\* An administrator names whom the booking named and whom he adds.
LEMMA OrderedStep ==
    ASSUME ViewsTypeOK, ViewsInv, NEW h \in Handlers,
           NEW new \in Documents, NEW ds \in SUBSET Drivers, Ordered(h, new, ds),
           new.store = booking.store,
           {new.pickup, new.delivery} \subseteq {booking.pickup, booking.delivery, None} \cup ds,
           new.st \notin {"none", "payment_pending"},
           new.delivery # None => new.st \in DeliveryLeg \cup Terminal
    PROVE  ViewsTypeOK' /\ ViewsInv'
<1> DEFINE all == {booking.pickup, booking.delivery} \cup ds
           drops == CoreDrops(all, booking.store)
<1>1. Write(h, new, None, drops, FALSE) /\ missed' = missed /\ moved' = moved
  BY DEF Ordered
<1>2. /\ booking \in Documents /\ booking' = new /\ booking' \in Documents
      /\ booking.store \in Stores \cup {None} /\ all \in SUBSET (Drivers \cup {None})
  BY <1>1 DEF ViewsTypeOK, Documents, Write
<1>3. drops \in SUBSET Views
  BY <1>2, DropsAreViews
<1>4. missed' \subseteq Views /\ moved' \subseteq StoreKinds \X Stores
  BY <1>1 DEF ViewsTypeOK
<1>5. ASSUME NEW v \in KeptViews
      PROVE  /\ v \in General => v \in drops
             /\ v \in OfStores /\ v[2] = booking.store => v \in drops
             /\ v \in OfStores /\ booking.store = None /\ v[1] # "storeDetail" => v \in drops
             /\ v \in Actives /\ v[2] \in all => v \in drops
  <2>1. v \in OfStores => v[2] # None
    BY ViewsAssumption DEF OfStores
  <2>. QED BY <1>2, <2>1, CoreDropsAre
<1> HIDE DEF drops
<1>6. ASSUME NEW v \in KeptViews, Face(v)' # Face(v) PROVE v \in drops
  <2>1. v \in Actives => v[2] # None
    BY ViewsAssumption DEF Actives
  <2>. QED BY <1>2, <1>5, <1>6, <2>1, FaceMoves
<1>7. ASSUME NEW v \in KeptViews, v \in HelperDrops PROVE v \in drops
  BY <1>2, <1>5, <1>7, HelperDropsAre
<1>8. \A v \in KeptViews \cap DOMAIN cached :
         /\ Face(v)' # Face(v) => Caught(v, drops, FALSE)
         /\ v \in HelperDrops => Caught(v, drops, FALSE)
  BY <1>6, <1>7 DEF Caught
<1>. QED BY <1>1, <1>2, <1>3, <1>4, <1>8, WriteStep
------------------------------------------------------------------------------
(* The handlers. *)

\* A driver accepts, or goes on.
LEMMA DriverWrites ==
    ASSUME ViewsTypeOK, ViewsInv, NEW h \in Handlers, NEW d \in Drivers, Driver(h, d)
    PROVE  ViewsTypeOK' /\ ViewsInv'
<1>0. NoEarlyDelivery /\ booking \in Documents
  BY DEF ViewsInv, ViewsTypeOK
<1>1. CASE RideAccepted(h, d) \/ BookingAccepted(h, d)
  <2> DEFINE b == AcceptedBy(d)
  <2>1. /\ b \in Documents /\ b.store = booking.store
        /\ b.st \in {"driver_assigned", "return_driver_assigned"}
        /\ b.delivery # None => b.st \in DeliveryLeg
        /\ booking.pickup \in {None, b.pickup} /\ booking.delivery \in {None, b.delivery}
        /\ {b.pickup, b.delivery} \subseteq {booking.pickup, booking.delivery, d}
    <3>1. CASE booking.st = "store_assigned" /\ booking.pickup = None
      <4>1. booking.delivery = None
        BY <1>0, <3>1 DEF NoEarlyDelivery, DeliveryLeg, Terminal, Over
      <4>. QED BY <1>0, <3>1, <4>1 DEF AcceptedBy, Documents, Known, PickupLeg
    <3>2. CASE booking.st \in AwaitingReturn /\ booking.delivery = None
      <4>1. booking.st # "store_assigned"
        BY <3>2 DEF AwaitingReturn
      <4>. QED BY <1>0, <3>2, <4>1 DEF AcceptedBy, Documents, Known, DeliveryLeg
    <3>. QED BY <1>1, <3>1, <3>2 DEF RideAccepted, BookingAccepted, Acceptable
  <2>2. b.delivery # None => b.st \in DeliveryLeg \cup Terminal
    BY <2>1
  <2> HIDE DEF b
  <2>3. CASE Endpoint(h, d, b)
    BY <2>1, <2>2, <2>3, EndpointStep
  <2>4. CASE Unannounced(h, b, d)
    BY <2>1, <2>2, <2>4, UnannouncedStep
  <2>. QED BY <1>1, <2>3, <2>4 DEF RideAccepted, BookingAccepted, b
<1>2. ASSUME NEW to \in Known \ {"none", "payment_pending"}, Endpoint(h, d, In(to)),
             booking.delivery # None => to \in DeliveryLeg \cup Terminal
      PROVE  ViewsTypeOK' /\ ViewsInv'
  BY <1>2, InIs, EndpointStep
<1>3. CASE ArrivedAtPickup(h, d) \/ PickupCompleted(h, d) \/ ArrivedAtStore(h, d)
  <2>1. PICK to \in {"driver_arrived", "picked_up", "at_store"} :
           /\ booking.st \in {"driver_assigned", "driver_arrived", "picked_up"}
           /\ Endpoint(h, d, In(to))
    BY <1>3 DEF ArrivedAtPickup, PickupCompleted, ArrivedAtStore, OnPickup
  <2>2. booking.delivery = None
    BY <1>0, <2>1 DEF NoEarlyDelivery, DeliveryLeg, Terminal, Over
  <2>3. to \in Known \ {"none", "payment_pending"}
    BY DEF Known, PickupLeg
  <2>. QED BY <1>2, <2>1, <2>2, <2>3
<1>4. CASE \/ ArrivedAtStoreForReturn(h, d) \/ HandoverCompleted(h, d)
           \/ ArrivedAtUserReturn(h, d) \/ DeliveryCompleted(h, d)
  <2>1. PICK to \in DeliveryLeg \cup {"delivered"} : Endpoint(h, d, In(to))
    BY <1>4 DEF ArrivedAtStoreForReturn, HandoverCompleted, ArrivedAtUserReturn,
                DeliveryCompleted, OnDelivery, DeliveryLeg
  <2>2. to \in Known \ {"none", "payment_pending"} /\ to \in DeliveryLeg \cup Terminal
    BY DEF Known, DeliveryLeg, Terminal, Over
  <2>. QED BY <1>2, <2>1, <2>2
<1>. QED BY <1>1, <1>3, <1>4 DEF Driver

\* The handlers that leave it all to the helper.
LEMMA HelpedSteps ==
    ASSUME ViewsTypeOK, ViewsInv, NEW h \in Handlers,
           \/ StoreAssigned(h) \/ AutoCancelled(h) \/ CancelledByUser(h)
           \/ ReturnRequested(h) \/ ReturnPaidFor(h)
    PROVE  ViewsTypeOK' /\ ViewsInv'
<1>0. NoEarlyDelivery /\ booking \in Documents
  BY DEF ViewsInv, ViewsTypeOK
<1>1. CASE StoreAssigned(h)
  <2>1. PICK s \in Stores : Helped(h, PlacedIn(s))
    BY <1>1 DEF StoreAssigned
  <2> DEFINE b == PlacedIn(s)
  <2>2. /\ b \in Documents /\ b.st = "store_assigned" /\ b.pickup = booking.pickup
        /\ b.delivery = booking.delivery
    BY <1>0 DEF PlacedIn, Documents, Known
  <2>3. booking.st = "payment_pending" /\ booking.delivery = None
    BY <1>0, <1>1 DEF StoreAssigned, NoEarlyDelivery, DeliveryLeg, Terminal, Over
  <2> HIDE DEF b
  <2>. QED BY <2>1, <2>2, <2>3, HelpedStep DEF b
<1>2. ASSUME NEW to \in Known \ {"none", "payment_pending"}, Helped(h, In(to)),
             booking.delivery # None => to \in DeliveryLeg \cup Terminal
      PROVE  ViewsTypeOK' /\ ViewsInv'
  BY <1>2, InIs, HelpedStep
<1>3. CASE AutoCancelled(h) \/ CancelledByUser(h)
  <2>1. "cancelled" \in Known \ {"none", "payment_pending"} /\ "cancelled" \in Terminal
    BY DEF Known, Terminal, Over
  <2>. QED BY <1>2, <1>3, <2>1 DEF AutoCancelled, CancelledByUser
<1>4. CASE ReturnRequested(h) \/ ReturnPaidFor(h)
  <2>1. PICK to \in {"return_requested", "final_payment_pending", "final_payment_captured"} :
           booking.st \in {"stored", "final_payment_pending"} /\ Helped(h, In(to))
    BY <1>4 DEF ReturnRequested, ReturnPaidFor
  <2>2. booking.delivery = None
    BY <1>0, <2>1 DEF NoEarlyDelivery, DeliveryLeg, Terminal, Over
  <2>3. to \in Known \ {"none", "payment_pending"}
    BY DEF Known, AwaitingReturn
  <2>. QED BY <1>2, <2>1, <2>2, <2>3
<1>. QED BY <1>1, <1>3, <1>4

\* The two that take a driver off by the helper's drop.
LEMMA HelperTakesOff ==
    ASSUME ViewsTypeOK, ViewsInv, NEW h \in Handlers,
           AssignmentNulled(h) \/ CriticallyCancelled(h)
    PROVE  ViewsTypeOK' /\ ViewsInv'
<1>0. NoEarlyDelivery /\ booking \in Documents /\ DOMAIN cached \subseteq Views
      /\ missed \subseteq Views
  BY DEF ViewsInv, ViewsTypeOK
<1>1. CASE AssignmentNulled(h)
  <2> DEFINE b == [booking EXCEPT !.delivery = None]
  <2>1. /\ b \in Documents /\ b.st = booking.st /\ b.pickup = booking.pickup
        /\ b.delivery = None /\ b.store = booking.store
    BY <1>0 DEF Documents
  <2>2. b.st \notin {"none", "payment_pending"}
    BY <1>1, <2>1 DEF AssignmentNulled, AwaitingReturn
  <2>3. /\ Write(h, b, None, {}, TRUE) /\ moved' = moved
        /\ missed' = missed \cup (DOMAIN cached \cap ({"active"} \X {booking.delivery}))
    BY <1>1 DEF AssignmentNulled
  <2> HIDE DEF b
  <2>4. missed \subseteq missed' /\ missed' \subseteq Views /\ {} \in SUBSET Views
        /\ None \in Drivers \cup {None}
    BY <1>0, <2>3
  <2>5. \A x \in {booking.pickup, booking.delivery} :
           \/ x \in {b.pickup, b.delivery}
           \/ <<"active", x>> \in {} \cup missed' \/ <<"active", x>> \notin DOMAIN cached
    BY <2>1, <2>3
  <2>. QED BY <2>1, <2>2, <2>3, <2>4, <2>5, LookingStep
<1>2. CASE CriticallyCancelled(h)
  <2> DEFINE return == \/ booking.delivery # None
                       \/ booking.st \in {"out_for_return", "arrived_for_delivery"}
             x == IF return THEN booking.delivery ELSE booking.pickup
             taken == IF return THEN [booking EXCEPT !.delivery = None]
                      ELSE [booking EXCEPT !.pickup = None]
             b == [taken EXCEPT !.st = "driver_cancelled_critical"]
  <2>1. Write(h, b, None, DriverDrops(x), TRUE) /\ moved' = moved /\ missed' = missed
    BY <1>2 DEF CriticallyCancelled
  <2>2. /\ taken \in Documents /\ taken.store = booking.store
        /\ \A y \in {booking.pickup, booking.delivery} :
              y \in {taken.pickup, taken.delivery} \/ y = x
    BY <1>0 DEF Documents
  <2>3. x \in Drivers \cup {None}
    BY <1>0 DEF Documents
  <2> HIDE DEF taken, x
  <2>4. /\ b \in Documents /\ b.st = "driver_cancelled_critical" /\ b.store = booking.store
        /\ b.pickup = taken.pickup /\ b.delivery = taken.delivery
    BY <2>2 DEF Documents, Known, Terminal
  <2> HIDE DEF b
  <2>5. b.st \in Terminal
    BY <2>4 DEF Terminal
  <2>6. \A y \in {booking.pickup, booking.delivery} :
           \/ y \in {b.pickup, b.delivery}
           \/ <<"active", y>> \in DriverDrops(x) \cup missed'
           \/ <<"active", y>> \notin DOMAIN cached
    BY <2>2, <2>3, <2>4, NobodysView DEF DriverDrops
  <2>7. DriverDrops(x) \in SUBSET Views /\ missed \subseteq missed' /\ missed' \subseteq Views
        /\ None \in Drivers \cup {None}
    BY <1>0, <2>1, <2>3, DropsAreViews
  <2>. QED BY <2>1, <2>4, <2>5, <2>6, <2>7, LookingStep
<1>. QED BY <1>1, <1>2
\* The administrators' requests that drop whom the booking names.
LEMMA OrderedSteps ==
    ASSUME ViewsTypeOK, ViewsInv, NEW h \in Handlers,
           \/ SearchedAgain(h) \/ ForceCancelled(h) \/ Pushed(h)
           \/ \E d \in Drivers : DriverAssigned(h, d)
    PROVE  ViewsTypeOK' /\ ViewsInv'
<1>0. /\ NoEarlyDelivery /\ booking \in Documents /\ DOMAIN cached \subseteq Views
      /\ missed \subseteq Views /\ moved \subseteq StoreKinds \X Stores
  BY DEF ViewsInv, ViewsTypeOK
<1>1. ASSUME Open, booking.st \notin Returning PROVE booking.delivery = None
  BY <1>0, <1>1 DEF Open, Returning, NoEarlyDelivery
<1>2. CASE \E d \in Drivers : DriverAssigned(h, d)
  <2>1. PICK d \in Drivers : Open /\ Ordered(h, WithDriver(d), {d})
    BY <1>2 DEF DriverAssigned
  <2> DEFINE b == WithDriver(d)
  <2>2. /\ b \in Documents /\ b.store = booking.store
        /\ {b.pickup, b.delivery} \subseteq {booking.pickup, booking.delivery, d}
        /\ b.st \in {"return_driver_assigned", "driver_assigned"}
        /\ b.st = "driver_assigned" => b.delivery = None
    BY <1>0, <1>1, <2>1 DEF WithDriver, Documents, Known, PickupLeg, DeliveryLeg
  <2> HIDE DEF b
  <2>3. b.delivery # None => b.st \in DeliveryLeg
    BY <2>2 DEF DeliveryLeg
  <2>4. Ordered(h, b, {d}) /\ {d} \in SUBSET Drivers
    BY <2>1 DEF b
  <2>. QED BY <2>2, <2>3, <2>4, OrderedStep
<1>3. CASE SearchedAgain(h)
  <2> DEFINE b == Researched
  <2>1. /\ b \in Documents /\ b.store = booking.store
        /\ {b.pickup, b.delivery} \subseteq {booking.pickup, booking.delivery, None}
        /\ b.st \in {"final_payment_captured", "store_assigned"} /\ b.delivery = None
    BY <1>0, <1>1, <1>3 DEF SearchedAgain, Researched, Documents, Known, AwaitingReturn
  <2> HIDE DEF b
  <2>2. CASE LegDriver # None
    <3>1. Ordered(h, b, {})
      BY <1>3, <2>2 DEF SearchedAgain, b
    <3>. QED BY <2>1, <3>1, OrderedStep
  <2>3. CASE LegDriver = None
    <3>1. Unannounced(h, b, None) /\ None \in Drivers \cup {None}
      BY <1>3, <2>3 DEF SearchedAgain, b
    <3>2. b.st \notin {"none", "payment_pending"}
      BY <2>1
    <3>. QED BY <2>1, <3>1, <3>2, UnannouncedStep
  <2>. QED BY <2>2, <2>3
<1>4. ASSUME NEW to \in Known \ {"none", "payment_pending"}, Ordered(h, In(to), {}),
             booking.delivery # None => to \in DeliveryLeg \cup Terminal
      PROVE  ViewsTypeOK' /\ ViewsInv'
  <2>1. {} \in SUBSET Drivers
    OBVIOUS
  <2>. QED BY <1>4, <2>1, InIs, OrderedStep
<1>5. CASE ForceCancelled(h)
  <2>1. "cancelled" \in Known \ {"none", "payment_pending"} /\ "cancelled" \in Terminal
    BY DEF Known, Terminal, Over
  <2>. QED BY <1>4, <1>5, <2>1 DEF ForceCancelled
<1>6. CASE Pushed(h)
  <2>1. PICK to \in Known : <<booking.st, to>> \in Pushes /\ Ordered(h, In(to), {})
    BY <1>6 DEF Pushed
  <2>2. /\ to \notin {"none", "payment_pending"}
        /\ booking.st \notin DeliveryLeg \cup Terminal \/ to \in Terminal
    BY <2>1 DEF Pushes, DeliveryLeg, Terminal, Over
  <2>. QED BY <1>0, <1>4, <2>1, <2>2 DEF NoEarlyDelivery
<1>. QED BY <1>2, <1>3, <1>5, <1>6
\* The store's confirmation drops all stores' lists and its own views, and the driver's.
LEMMA ConfirmStep ==
    ASSUME ViewsTypeOK, ViewsInv, NEW h \in Handlers, StoredConfirmed(h)
    PROVE  ViewsTypeOK' /\ ViewsInv'
<1> DEFINE d == booking.pickup
           drops == CoreDrops({}, None) \cup StoreDrops(booking.store) \cup DriverDrops(d)
<1>1. /\ booking.st = "at_store" /\ missed' = missed /\ moved' = moved
      /\ Write(h, In("stored"), d, drops, FALSE)
  BY DEF StoredConfirmed, Plain
<1>2. /\ booking \in Documents /\ d \in Drivers \cup {None} /\ booking.store \in Stores \cup {None}
      /\ missed \subseteq Views /\ moved \subseteq StoreKinds \X Stores
      /\ DOMAIN cached \subseteq Views
  BY DEF ViewsTypeOK, Documents
<1>3. drops \in SUBSET Views
  BY <1>2, DropsAreViews
<1>4. /\ In("stored") \in Documents /\ In("stored").st = "stored" /\ booking' = In("stored")
      /\ booking'.store = booking.store /\ booking'.pickup = booking.pickup
      /\ booking'.delivery = booking.delivery
  <2>1. "stored" \in Known
    BY DEF Known
  <2>. QED BY <1>1, <2>1, InIs DEF Write
<1>5. booking.delivery = None
  BY <1>1 DEF ViewsInv, NoEarlyDelivery, DeliveryLeg, Terminal, Over
<1>6. \A k \in {"active", "assigned", "ride"} : d # None => <<k, d>> \in drops
  BY <1>2 DEF DriverDrops
<1>7. ASSUME NEW v \in KeptViews, Face(v)' # Face(v) PROVE v \in drops
  <2>1. CASE v \in General
    BY <1>2, <2>1, CoreDropsAre
  <2>2. CASE v \in OfStores /\ v[2] = booking.store
    <3>1. v = <<v[1], booking.store>> /\ v[1] \in StoreKinds /\ booking.store # None
      BY <2>2, KindsApart, ViewsAssumption
    <3>2. v \in StoreKinds \X {booking.store}
      BY <3>1
    <3>. QED BY <3>1, <3>2 DEF StoreDrops, OfStore
  <2>3. CASE v \in Actives /\ v[2] \in {booking.pickup, booking.delivery}
    <3>1. v = <<"active", d>> /\ d # None
      BY <1>5, <2>3, KindsApart, ViewsAssumption
    <3>. QED BY <1>6, <3>1
  <2>. QED BY <1>4, <1>7, <2>1, <2>2, <2>3, FaceMoves
<1>8. HelperDrops' = HelperDrops
  BY <1>4 DEF HelperDrops, CoreDrops, StoreDrops
<1> HIDE DEF drops
<1>9. \A v \in KeptViews \cap DOMAIN cached : Face(v)' # Face(v) => Caught(v, drops, FALSE)
  BY <1>7 DEF Caught
<1>10. /\ In("stored").delivery = None /\ FALSE \in BOOLEAN
       /\ missed \subseteq missed' /\ missed' \subseteq Views
       /\ moved \subseteq moved' /\ moved' \subseteq StoreKinds \X Stores
       /\ In("stored").st \notin {"none", "payment_pending"}
  BY <1>1, <1>2, <1>4, <1>5
<1> HIDE DEF d
<1>. QED BY <1>1, <1>2, <1>3, <1>4, <1>6, <1>8, <1>9, <1>10, WriteStep

\* The new booking: nobody can have its detail, which is not dropped.
LEMMA ScheduleStep ==
    ASSUME ViewsTypeOK, ViewsInv, NEW h \in Handlers, PickupScheduled(h)
    PROVE  ViewsTypeOK' /\ ViewsInv'
<1> DEFINE drops == CoreDrops({}, None) \ {<<"userDetail", "user">>}
           b == In("payment_pending")
<1>1. /\ booking.st = "none" /\ missed' = missed /\ moved' = moved
      /\ Write(h, b, None, drops, FALSE)
  BY DEF PickupScheduled, Plain
<1>2. /\ booking \in Documents /\ missed \subseteq Views /\ NoBlank
      /\ moved \subseteq StoreKinds \X Stores
  BY DEF ViewsTypeOK, ViewsInv
<1>3. drops \in SUBSET Views
  BY <1>2, DropsAreViews
<1>4. /\ b \in Documents /\ b.st = "payment_pending" /\ booking' = b
      /\ b.store = booking.store /\ b.pickup = booking.pickup /\ b.delivery = booking.delivery
  <2>1. "payment_pending" \in Known
    BY DEF Known
  <2>. QED BY <1>1, <2>1, InIs DEF Write
<1>5. booking.store = None /\ (\A g \in Handlers : ~request[g].look) /\ booking.delivery = None
  BY <1>1 DEF ViewsInv, Unpaid, NoEarlyDelivery, DeliveryLeg, Terminal, Over
<1> HIDE DEF b
<1>6. ASSUME NEW v \in KeptViews \cap DOMAIN cached, Right(v), Face(v)' # Face(v)
      PROVE  v \in drops
  <2>1. CASE v \in General
    <3>1. v # <<"userDetail", "user">>
      <4>1. "userDetail" \in Single /\ Scope["userDetail"] = Known /\ "none" \notin Known
        BY DEF Single, Scope, UserKinds, Known, PickupLeg, DeliveryLeg,
               AwaitingReturn, Terminal, Over
      <4>. QED BY <1>1, <1>2, <1>6, <4>1, SingleShows
    <3>2. v \in CoreDrops({}, None)
      BY <2>1, CoreDropsAre
    <3>. QED BY <3>1, <3>2
  <2>2. CASE v \in OfStores /\ v[2] = booking.store
    BY <1>5, <2>2, KindsApart, ViewsAssumption
  <2>3. /\ booking.st \notin PickupLeg \cup DeliveryLeg
        /\ b.st \notin PickupLeg \cup DeliveryLeg
    BY <1>1, <1>4 DEF PickupLeg, DeliveryLeg
  <2>. QED BY <1>4, <1>6, <2>1, <2>2, <2>3, FaceMoves
<1> HIDE DEF drops
<1>7. \A v \in KeptViews \cap DOMAIN cached :
         Right(v) /\ Face(v)' # Face(v) => Caught(v, drops, FALSE)
  BY <1>6 DEF Caught
<1>8. FALSE \in BOOLEAN /\ None \in Drivers \cup {None}
      /\ missed \subseteq missed' /\ missed' \subseteq Views
      /\ moved \subseteq moved' /\ moved' \subseteq StoreKinds \X Stores
  BY <1>1, <1>2
<1>. QED BY <1>1, <1>3, <1>4, <1>5, <1>7, <1>8, WriteStep

\* The return's driver, by hand: the view of the pickup's driver was empty, and
\* empty views are not cached.
LEMMA ReturnDriverStep ==
    ASSUME ViewsTypeOK, ViewsInv, NEW h \in Handlers, NEW d \in Drivers,
           ReturnDriverAssigned(h, d)
    PROVE  ViewsTypeOK' /\ ViewsInv'
<1> DEFINE drops == CoreDrops({d}, booking.store)
           b == [booking EXCEPT !.st = "return_driver_assigned", !.delivery = d]
<1>1. /\ booking.st \in AwaitingReturn /\ missed' = missed /\ moved' = moved
      /\ Write(h, b, None, drops, FALSE) /\ booking' = b
  BY DEF ReturnDriverAssigned, Write
<1>2. /\ booking \in Documents /\ booking.store \in Stores \cup {None}
      /\ missed \subseteq Views /\ moved \subseteq StoreKinds \X Stores /\ NoBlank
  BY DEF ViewsTypeOK, ViewsInv, Documents
<1>3. drops \in SUBSET Views
  BY <1>2, DropsAreViews
<1>4. /\ b \in Documents /\ b.st = "return_driver_assigned" /\ b.store = booking.store
      /\ b.pickup = booking.pickup /\ b.delivery = d /\ b.st \in DeliveryLeg
  BY <1>2 DEF Documents, Known, DeliveryLeg
<1>5. booking.delivery = None /\ booking.st \notin PickupLeg \cup DeliveryLeg
  BY <1>1 DEF ViewsInv, NoEarlyDelivery, AwaitingReturn, PickupLeg, DeliveryLeg,
              Terminal, Over
<1> HIDE DEF b
<1>6. ASSUME NEW v \in KeptViews
      PROVE  /\ v \in General => v \in drops
             /\ v \in OfStores /\ (v[2] = booking.store \/ v \in HelperDrops) => v \in drops
             /\ v \in Actives /\ v[2] = d => v \in drops
  <2>1. v \in OfStores => v[2] # None
    BY ViewsAssumption DEF OfStores
  <2>2. v \in OfStores => v \notin General /\ v \notin Actives
    BY KindsApart DEF UserKinds, StoreKinds
  <2>3. {d} \in SUBSET (Drivers \cup {None})
    OBVIOUS
  <2>4. v \in drops <=>
              \/ v \in General
              \/ v \in OfStores /\ IF booking.store = None THEN v[1] # "storeDetail"
                                   ELSE v[2] = booking.store
              \/ v \in Actives /\ v[2] \in {d}
    BY <1>2, <2>3, CoreDropsAre
  <2>. QED BY <1>1, <1>2, <1>4, <2>1, <2>2, <2>4, HelperDropsAre
<1> HIDE DEF drops
<1>7. ASSUME NEW v \in KeptViews \cap DOMAIN cached, Right(v), Face(v)' # Face(v)
      PROVE  v \in drops
  <2>1. CASE v \in Actives
    <3>1. v[1] = "active" /\ v[1] \in Single /\ Scope[v[1]] = PickupLeg \cup DeliveryLeg
      BY <2>1, KindsApart DEF Single, Scope, DriverKinds
    <3>. QED BY <1>2, <1>5, <1>7, <3>1, SingleShows
  <2>. QED BY <1>1, <1>4, <1>6, <1>7, <2>1, FaceMoves
<1>8. ASSUME NEW v \in KeptViews, v \in HelperDrops, v \notin HelperDrops' PROVE v \in drops
  <2>1. v \in Actives => v[2] # None
    BY ViewsAssumption DEF Actives
  <2>. QED BY <1>1, <1>2, <1>4, <1>5, <1>6, <1>8, <2>1, HelperDropsAre
<1>9. \A v \in KeptViews \cap DOMAIN cached :
         /\ Right(v) /\ Face(v)' # Face(v) => Caught(v, drops, FALSE)
         /\ v \in HelperDrops /\ v \notin HelperDrops' => Caught(v, drops, FALSE)
  BY <1>7, <1>8 DEF Caught
<1>10. FALSE \in BOOLEAN /\ None \in Drivers \cup {None}
      /\ missed \subseteq missed' /\ missed' \subseteq Views
      /\ moved \subseteq moved' /\ moved' \subseteq StoreKinds \X Stores
  BY <1>1, <1>2
<1>. QED BY <1>1, <1>3, <1>4, <1>9, <1>10, WriteStep

\* Another store: the old one's views are dropped; the new one's are excused, or,
\* if there was none, dropped with all stores' lists.
LEMMA OtherStore ==
    ASSUME ViewsTypeOK, ViewsInv, NEW h \in Handlers, NEW s \in Stores,
           StoreReassigned(h, s)
    PROVE  ViewsTypeOK' /\ ViewsInv'
<1> DEFINE drops == CoreDrops({}, booking.store)
           b == [booking EXCEPT !.store = s]
<1>1. /\ booking.st = "store_assigned" /\ missed' = missed
      /\ moved' = IF booking.store = None THEN moved
                  ELSE moved \cup (DOMAIN cached \cap OfStore(s))
      /\ Write(h, b, None, drops, FALSE) /\ booking' = b
  BY DEF StoreReassigned, Write
<1>2. /\ booking \in Documents /\ booking.store \in Stores \cup {None}
      /\ missed \subseteq Views /\ moved \subseteq StoreKinds \X Stores /\ NoBlank
  BY DEF ViewsTypeOK, ViewsInv, Documents
<1>3. drops \in SUBSET Views
  BY <1>2, DropsAreViews
<1>4. /\ b \in Documents /\ b.st = booking.st /\ b.store = s
      /\ b.pickup = booking.pickup /\ b.delivery = booking.delivery
  BY <1>2 DEF Documents
<1>5. booking.delivery = None /\ booking.st \notin PickupLeg \cup DeliveryLeg
  BY <1>1 DEF ViewsInv, NoEarlyDelivery, PickupLeg, DeliveryLeg, Terminal, Over
<1> HIDE DEF b
<1>6. ASSUME NEW v \in KeptViews
      PROVE  /\ v \in General => v \in drops
             /\ v \in OfStores /\ (v[2] = booking.store \/ v \in HelperDrops) => v \in drops
             /\ v \in OfStores /\ booking.store = None /\ v[1] # "storeDetail" => v \in drops
  <2>1. v \in OfStores => v[2] # None
    BY ViewsAssumption DEF OfStores
  <2>2. v \in OfStores => v \notin General /\ v \notin Actives
    BY KindsApart DEF UserKinds, StoreKinds
  <2>3. v \in drops <=>
              \/ v \in General
              \/ v \in OfStores /\ IF booking.store = None THEN v[1] # "storeDetail"
                                   ELSE v[2] = booking.store
              \/ v \in Actives /\ v[2] \in {}
    BY <1>2, CoreDropsAre
  <2>. QED BY <1>1, <1>2, <1>4, <2>1, <2>2, <2>3, HelperDropsAre
<1> HIDE DEF drops
<1>7. ASSUME NEW v \in KeptViews \cap DOMAIN cached, Right(v), Face(v)' # Face(v)
      PROVE  v \in drops \cup moved'
  <2>1. CASE v \in General
    BY <1>6, <2>1
  <2>2. CASE v \in OfStores /\ v[2] = booking.store
    BY <1>6, <2>2
  <2>3. CASE v \in OfStores /\ v[2] = s /\ booking.store # None
    <3>1. v \in OfStore(s)
      BY <2>3, KindsApart, ViewsAssumption DEF OfStore
    <3>. QED BY <1>1, <2>3, <3>1
  <2>4. CASE v \in OfStores /\ v[2] = s /\ booking.store = None
    <3>1. CASE v[1] = "storeDetail"
      <4>1. v[1] \in Single
        BY <3>1 DEF Single
      <4>2. Concerns(v)
        BY <1>2, <1>7, <4>1, SingleShows
      <4>3. v[2] = None
        BY <2>4, <4>2, Concern
      <4>. QED BY <2>4, <4>3, ViewsAssumption
    <3>. QED BY <1>6, <2>4, <3>1
  <2>. QED BY <1>1, <1>4, <1>5, <1>7, <2>1, <2>2, <2>3, <2>4, FaceMoves
<1>8. ASSUME NEW v \in KeptViews, v \in HelperDrops, v \notin HelperDrops' PROVE v \in drops
  BY <1>1, <1>2, <1>4, <1>6, <1>8, HelperDropsAre
<1>9. \A v \in KeptViews \cap DOMAIN cached :
         /\ Right(v) /\ Face(v)' # Face(v) => Caught(v, drops, FALSE)
         /\ v \in HelperDrops /\ v \notin HelperDrops' => Caught(v, drops, FALSE)
  BY <1>7, <1>8 DEF Caught
<1>10. FALSE \in BOOLEAN /\ None \in Drivers \cup {None}
      /\ missed \subseteq missed' /\ missed' \subseteq Views /\ moved \subseteq moved'
  BY <1>1, <1>2
<1>11. moved' \subseteq StoreKinds \X Stores
  BY <1>1, <1>2 DEF OfStore
<1>12. b.st \notin {"none", "payment_pending"} /\ b.delivery = None
  BY <1>1, <1>4, <1>5
<1>. QED BY <1>1, <1>3, <1>4, <1>9, <1>10, <1>11, <1>12, WriteStep
------------------------------------------------------------------------------
(* The whole. *)

\* Nothing is cached before the first request.
LEMMA InitHolds == ASSUME ViewsInit PROVE ViewsTypeOK /\ ViewsInv
<1>1. /\ booking = Blank /\ DOMAIN cached = {} /\ request = [h \in Handlers |-> AtRest]
      /\ by = None /\ late = {} /\ missed = {} /\ moved = {}
  BY DEF ViewsInit
<1>2. booking \in Documents /\ booking.store = None /\ booking.delivery = None
  BY <1>1 DEF Blank, Documents
<1>3. ViewsTypeOK
  BY <1>1, <1>2, IdleIs DEF ViewsTypeOK
<1>4. KeptShown /\ LastShown
  BY <1>1 DEF KeptShown, LastShown, Shown, Right
<1>5. ReadIsFresh /\ NoBlank /\ Unpaid /\ NoEarlyDelivery
  BY <1>1, <1>2, IdleIs DEF ReadIsFresh, NoBlank, Unpaid, NoEarlyDelivery
<1>. QED BY <1>3, <1>4, <1>5 DEF ViewsInv

\* Every endpoint that reads, reads a view.
LEMMA ReaderReads ==
    ASSUME NEW h \in Handlers, Reader(h) PROVE \E w \in Views : Read(h, w)
<1>1. CASE \/ GetMyBookings(h) \/ GetBookingById(h) \/ GetActiveBookings(h)
           \/ GetBookingHistory(h) \/ GetBookings(h) \/ OwnerDashboard(h)
  <2>1. \A k \in UserKinds : <<k, "user">> \in Views
    BY DEF Views
  <2>2. <<"adminList", "admin">> \in Views /\ <<"overview", "owner">> \in Views
    BY DEF Views
  <2>. QED BY <1>1, <2>1, <2>2 DEF GetMyBookings, GetBookingById, GetActiveBookings,
                GetBookingHistory, GetBookings, OwnerDashboard, UserKinds
<1>2. ASSUME NEW d \in Drivers,
             \/ AssignedRides(h, d) \/ ActiveRide(h, d)
             \/ RideDetails(h, d) \/ RideHistory(h, d)
      PROVE  \E w \in Views : Read(h, w)
  <2>1. \A k \in DriverKinds : <<k, d>> \in Views
    BY DEF Views
  <2>. QED BY <1>2, <2>1 DEF AssignedRides, ActiveRide, RideDetails, RideHistory,
                             DriverKinds
<1>3. ASSUME NEW s \in Stores,
             \/ IncomingBookings(h, s) \/ KeptBookings(h, s) \/ ReturnParcels(h, s)
             \/ BookingDetail(h, s) \/ StoreHistory(h, s) \/ Dashboard(h, s)
      PROVE  \E w \in Views : Read(h, w)
  <2>1. \A k \in StoreKinds : <<k, s>> \in Views
    BY DEF Views
  <2>. QED BY <1>3, <2>1 DEF IncomingBookings, KeptBookings, ReturnParcels, BookingDetail,
                StoreHistory, Dashboard, StoreKinds
<1>. QED BY <1>1, <1>2, <1>3 DEF Reader

\* Nothing moves.
LEMMA StutterStep ==
    ASSUME ViewsTypeOK, ViewsInv, UNCHANGED viewVars PROVE ViewsTypeOK' /\ ViewsInv'
<1>1. UNCHANGED <<booking, cached, request, by, late, missed, moved>>
  BY DEF viewVars, history
<1>2. ViewsTypeOK'
  BY <1>1 DEF ViewsTypeOK
<1>3. \A v : Shown(v)' <=> Shown(v)
  BY <1>1, SameBooking DEF Shown, Right, Due
<1>4. KeptShown' /\ LastShown'
  BY <1>1, <1>3 DEF ViewsInv, KeptShown, LastShown
<1>5. ReadIsFresh' /\ NoBlank' /\ Unpaid' /\ NoEarlyDelivery'
  BY <1>1, SameBooking DEF ViewsInv, ReadIsFresh, NoBlank, Unpaid, NoEarlyDelivery
<1>. QED BY <1>2, <1>4, <1>5 DEF ViewsInv

\* Every view someone drops is shown as it is, or marked.
THEOREM ViewsInvariant == ViewsSpec => [](ViewsTypeOK /\ ViewsInv)
<1>1. ViewsInit => ViewsTypeOK /\ ViewsInv
  BY InitHolds
<1>2. ASSUME ViewsTypeOK, ViewsInv, [ViewsNext]_viewVars PROVE (ViewsTypeOK /\ ViewsInv)'
  <2>1. CASE UNCHANGED viewVars
    BY <1>2, <2>1, StutterStep
  <2>2. CASE Expire
    BY <1>2, <2>2, ExpireStep
  <2>3. ASSUME NEW h \in Handlers,
               \/ Reader(h) \/ Fill(h) \/ Look(h) \/ Drop(h) \/ Lose(h)
        PROVE  (ViewsTypeOK /\ ViewsInv)'
    BY <1>2, <2>3, ReaderReads, ReadStep, FillStep, LookStep, DropStep, LoseStep
  <2>4. ASSUME NEW h \in Handlers, Other(h) PROVE (ViewsTypeOK /\ ViewsInv)'
    BY <1>2, <2>4, HelpedSteps, HelperTakesOff, ConfirmStep, ScheduleStep DEF Other
  <2>5. ASSUME NEW h \in Handlers, Admin(h) PROVE (ViewsTypeOK /\ ViewsInv)'
    BY <1>2, <2>5, OrderedSteps, HelperTakesOff, ReturnDriverStep, OtherStore DEF Admin
  <2>6. ASSUME NEW h \in Handlers, NEW d \in Drivers, Driver(h, d) PROVE (ViewsTypeOK /\ ViewsInv)'
    BY <1>2, <2>6, DriverWrites
  <2>. QED BY <1>2, <2>1, <2>2, <2>3, <2>4, <2>5, <2>6 DEF ViewsNext
<1>. QED BY <1>1, <1>2, PTL DEF ViewsSpec

\* A view whose drop is due is excused, and only stores' views are moved.
LEMMA ShownIs ==
    ASSUME ViewsTypeOK, NEW v, Shown(v)
    PROVE  /\ Right(v) \/ Excused(v) \/ v \in moved
           /\ v[1] \notin StoreKinds => Right(v) \/ Excused(v)
  BY DEF ViewsTypeOK, Shown, Due, Excused

\* Whoever changed the booking, once he is done the customer and the
\* administrators are shown it as it is (the drops of every handler).
THEOREM CustomerView == ViewsSpec => []CustomerSeesPresent
<1>1. ASSUME ViewsTypeOK, ViewsInv PROVE CustomerSeesPresent
  <2>1. ASSUME NEW v \in OfUser \cup {<<"adminList", "admin">>} PROVE Right(v) \/ Excused(v)
    <3>1. v \in General /\ v \in KeptViews /\ v[1] \notin StoreKinds
      BY KindsApart DEF General, UserKinds, StoreKinds
    <3>. QED BY <1>1, <3>1, ShownIs DEF ViewsInv, KeptShown
  <2>. QED BY <2>1 DEF CustomerSeesPresent
<1>. QED BY <1>1, ViewsInvariant, PTL

\* So are the stores, but the one the booking was moved to, and their owner.
THEOREM StoresView == ViewsSpec => []StoresSeePresent
<1>1. ASSUME ViewsTypeOK, ViewsInv PROVE StoresSeePresent
  BY <1>1, ShownIs DEF ViewsInv, KeptShown, StoresSeePresent, KeptViews
<1>. QED BY <1>1, ViewsInvariant, PTL

\* A driver's active ride, whoever wrote; his list and the ride's detail after a
\* write of his own or the store's confirmation.
THEOREM DriversView == ViewsSpec => []DriversSeePresent
<1>1. ASSUME ViewsTypeOK, ViewsInv PROVE DriversSeePresent
  <2>1. ASSUME NEW d \in Drivers PROVE Right(<<"active", d>>) \/ Excused(<<"active", d>>)
    <3>1. <<"active", d>> \in KeptViews /\ <<"active", d>>[1] \notin StoreKinds
      BY DEF KeptViews, StoreKinds
    <3>. QED BY <1>1, <3>1, ShownIs DEF ViewsInv, KeptShown
  <2>2. ASSUME by # None, NEW k \in {"assigned", "ride"}
        PROVE  Right(<<k, by>>) \/ Excused(<<k, by>>)
    <3>1. <<k, by>>[1] \notin StoreKinds
      BY DEF StoreKinds
    <3>. QED BY <1>1, <2>2, <3>1, ShownIs DEF ViewsInv, LastShown
  <2>. QED BY <2>1, <2>2 DEF DriversSeePresent
<1>. QED BY <1>1, ViewsInvariant, PTL
==============================================================================
