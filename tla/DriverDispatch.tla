---------------------------- MODULE DriverDispatch ----------------------------
(***************************************************************************)
(* How a driver is found for one leg of a booking: a search job picks the  *)
(* candidates, offer jobs offer the leg to one of them after another,      *)
(* timeout jobs move on, drivers accept and reject over HTTP and socket.   *)
(* BookingCore has of all this a look at a driver and an offer to him; here *)
(* every await another job or request can interleave with ends an action.  *)
(*                                                                         *)
(* State: the booking's leg in MongoDB, the Redis keys of the booking      *)
(* (offer, candidates, tried, search) and of the driver (lock, meta), and  *)
(* the jobs of the queue.  The list of candidates is a set, popped in any  *)
(* order: its order is that of the drivers' distances.                     *)
(***************************************************************************)
EXTENDS Naturals, FiniteSets

CONSTANTS
    Bookings, Drivers,
    None,           \* an absent driver or booking
    MaxSearch,      \* bound on the searches of a booking
    MaxMishap       \* bound on failed steps, deaths of a worker process and
                    \* rejections over the ride endpoints, together

ASSUME NoneIsNobody == None \notin Drivers \cup Bookings
ASSUME BoundsAssumption == MaxSearch \in Nat /\ MaxMishap \in Nat

VARIABLES
    kind,           \* the type of the searches of each booking: one leg of it
                    \* is modelled
    leg,            \* the booking's status, as far as the search can tell
    taker,          \* the assignment's driverId
    nulled,         \* bookings whose delivery.assignment is the value null
    gaveUp,         \* bookings whose delivery.driverSearchStatus is "failed"
    offer,          \* BookingKeys.offer
    candidates,     \* BookingKeys.candidates
    tried,          \* BookingKeys.tried
    searching,      \* bookings with BookingKeys.searchActive
    lock,           \* DriverKeys.offered
    online,         \* drivers online
    busy,           \* drivers with Driver.is_on_trip
    onTrip,         \* drivers whose Redis meta says so
    jobs,           \* the jobs of the driver queue, queued or under way
    kept,           \* the ids of the failed jobs the queue keeps
    request,        \* the request each driver has under way
    searches,       \* the searches begun, which number the search jobs
    asked,          \* history: who was offered the leg in its latest search
    forked,         \* history: bookings with a second search, or whose next
                    \* offer a rejecting driver scheduled, while jobs of the
                    \* search still waited
    lost,           \* history: bookings whose search was to be given up, but
                    \* whose giving up failed unseen
    rejects, throws, crashes

booking == <<kind, leg, taker, nulled, gaveUp>>
keys    == <<offer, candidates, tried, searching, lock>>
fleet   == <<online, busy, onTrip>>
queue   == <<jobs, kept>>
history == <<searches, asked, forked, lost, rejects, throws, crashes>>
vars    == <<booking, keys, fleet, queue, request, history>>

------------------------------------------------------------------------------
(* Jobs.  A job is an id, what the handler has read, and its next step. *)

JobStep ==
    [search  |-> {"queued", "look", "fail"},
     offer   |-> {"queued", "pop", "check", "write", "arm", "skip", "fail"},
     timeout |-> {"queued", "act", "fail"},
     return  |-> {"queued"}]

Job(name, b, n, d) == [name |-> name, b |-> b, n |-> n, d |-> d, at |-> "queued"]

IsJob(j) ==
    /\ j \in [name : DOMAIN JobStep, b : Bookings, n : Nat, d : Drivers \cup {None},
              at : JobStep[j.name]]
    /\ j.at \in {"check", "write", "arm", "skip", "act"} => j.d \in Drivers
    /\ j.name = "timeout" => j.d \in Drivers

Id(j) == <<j.name, j.b, j.n>>

\* The queue ignores a job while it holds another of the same id, even a
\* failed one.
Put(js, j) == IF Id(j) \in kept \/ \E k \in js : Id(k) = Id(j) THEN js ELSE js \cup {j}

\* Job j goes on to its next step, having read driver d; or it is done.
Step(j, at, d) == jobs' = (jobs \ {j}) \cup {[j EXCEPT !.at = at, !.d = d]}
Done(j) == jobs' = jobs \ {j}

\* The driver that a job's data names.
Named(j) == IF j.name = "timeout" THEN j.d ELSE None

JobsOf(b) == {j \in jobs : j.b = b}

OfferTo(b, n) == Job("offer", b, n, None)

------------------------------------------------------------------------------
(* Offers. *)

NoOffer == [to |-> None, n |-> 0, accepted |-> FALSE]

Idle == [do |-> "idle", b |-> None, n |-> 0]

\* The ride endpoints' accept and reject, and those of the booking endpoints.
Replies == {"ride", "reject", "txn", "drop"}

Request ==
    [do : Replies \cup {"settle", "txn_settle"}, b : Bookings, n : Nat]
    \cup {Idle}

Awaiting(b) == leg[b] = "awaiting"

\* clearOffer: the booking's offer, whoever's it is, and the driver's lock,
\* whichever booking holds it.
ClearOffer(b, d) ==
    /\ offer' = [offer EXCEPT ![b] = NoOffer]
    /\ lock' = [lock EXCEPT ![d] = None]

\* cleanupBookingRedisKeys, for a known driver or the one the offer names.
Cleanup(b, d) ==
    /\ offer' = [offer EXCEPT ![b] = NoOffer]
    /\ candidates' = [candidates EXCEPT ![b] = {}]
    /\ tried' = [tried EXCEPT ![b] = {}]
    /\ searching' = searching \ {b}
    /\ lock' = [x \in Drivers |-> IF x = d THEN None ELSE lock[x]]

Init ==
    /\ kind \in [Bookings -> {"PICKUP", "RETURN"}]
    /\ leg = [b \in Bookings |-> "none"]
    /\ taker = [b \in Bookings |-> None]
    /\ nulled = {}
    /\ gaveUp = {}
    /\ offer = [b \in Bookings |-> NoOffer]
    /\ candidates = [b \in Bookings |-> {}]
    /\ tried = [b \in Bookings |-> {}]
    /\ searching = {}
    /\ lock = [d \in Drivers |-> None]
    /\ online = Drivers
    /\ busy = {}
    /\ onTrip = {}
    /\ jobs = {}
    /\ kept = {}
    /\ request = [d \in Drivers |-> Idle]
    /\ searches = [b \in Bookings |-> 0]
    /\ asked = [b \in Bookings |-> {}]
    /\ forked = {}
    /\ lost = {}
    /\ rejects = 0 /\ throws = 0 /\ crashes = 0

------------------------------------------------------------------------------
(* A search begins. *)

\* scheduleDriverSearch: what an earlier search left is dropped, its offer and
\* its jobs excepted.
ScheduleSearch(b, js) ==
    /\ searches[b] < MaxSearch
    /\ searches' = [searches EXCEPT ![b] = @ + 1]
    /\ candidates' = [candidates EXCEPT ![b] = {}]
    /\ tried' = [tried EXCEPT ![b] = {}]
    /\ searching' = searching \ {b}
    /\ jobs' = Put(js, Job("search", b, searches[b] + 1, None))

\* The advance is paid and the store assigned.
PickupPaid(b) ==
    /\ kind[b] = "PICKUP" /\ leg[b] = "none"
    /\ leg' = [leg EXCEPT ![b] = "awaiting"]
    /\ ScheduleSearch(b, jobs)
    /\ UNCHANGED <<kind, taker, nulled, gaveUp, offer, lock, fleet, kept, request,
                   asked, forked, lost, rejects, throws, crashes>>

\* The return is requested and paid, or requested again while it waits.
ReturnRequested(b) ==
    /\ kind[b] = "RETURN" /\ leg[b] \in {"none", "awaiting"}
    /\ searches[b] < MaxSearch
    /\ \A j \in jobs : Id(j) # <<"return", b, 0>>
    /\ leg' = [leg EXCEPT ![b] = "awaiting"]
    /\ gaveUp' = gaveUp \ {b}
    /\ jobs' = Put(jobs, Job("return", b, 0, None))
    /\ forked' = IF JobsOf(b) = {} THEN forked ELSE forked \cup {b}
    /\ lost' = lost \ {b}
    /\ UNCHANGED <<kind, taker, nulled, keys, fleet, kept, request, searches, asked,
                   rejects, throws,
                   crashes>>

\* handleProcessReturn.  The job that requestReturn queues finds the place of
\* delivery that requestReturn wrote.
ReturnJob(j) ==
    /\ j.name = "return" /\ j.at = "queued"
    /\ IF Awaiting(j.b)
       THEN ScheduleSearch(j.b, jobs \ {j})
       ELSE Done(j) /\ UNCHANGED <<candidates, tried, searching, searches>>
    /\ UNCHANGED <<booking, offer, lock, fleet, kept, request, asked, forked, lost,
                   rejects, throws, crashes>>

\* handleSearchDrivers: one search of a booking at a time.
SearchBegins(j) ==
    /\ j.name = "search" /\ j.at = "queued"
    /\ IF j.b \in searching \/ ~Awaiting(j.b)
       THEN Done(j) /\ UNCHANGED searching
       ELSE Step(j, "look", None) /\ searching' = searching \cup {j.b}
    /\ UNCHANGED <<booking, offer, candidates, tried, lock, fleet, kept, request,
                   history>>

\* Who may be a candidate: the Redis keys, then the driver's document.
Eligible(b) ==
    {d \in online \ (onTrip \cup busy \cup tried[b]) : lock[d] \in {b, None}}

\* Any of them may be near enough.
SearchFinds(j) ==
    /\ j.name = "search" /\ j.at = "look"
    /\ \/ \E found \in SUBSET Eligible(j.b) \ {{}} :
            /\ candidates' = [candidates EXCEPT ![j.b] = found]
            /\ asked' = [asked EXCEPT ![j.b] = {}]
            /\ jobs' = Put(jobs \ {j}, OfferTo(j.b, 1))
       \/ Step(j, "fail", None) /\ UNCHANGED <<candidates, asked>>
    /\ UNCHANGED <<booking, offer, tried, searching, lock, fleet, kept, request,
                   searches, forked, lost, rejects, throws, crashes>>

------------------------------------------------------------------------------
(* handleOfferNextDriver. *)

OfferBegins(j) ==
    /\ j.name = "offer" /\ j.at = "queued"
    /\ IF Awaiting(j.b)
       THEN Step(j, "pop", None) /\ UNCHANGED keys
       ELSE Done(j) /\ Cleanup(j.b, offer[j.b].to)
    /\ UNCHANGED <<booking, fleet, kept, request, history>>

\* Mutant of PopCandidate: the candidate stays in the list.
PopKeeping(j) ==
    /\ j.name = "offer" /\ j.at = "pop"
    /\ \/ \E d \in candidates[j.b] : Step(j, "check", d)
       \/ candidates[j.b] = {} /\ Step(j, "fail", None)
    /\ UNCHANGED <<booking, keys, fleet, kept, request, history>>

PopCandidate(j) ==
    /\ j.name = "offer" /\ j.at = "pop"
    /\ \/ \E d \in candidates[j.b] :
            /\ candidates' = [candidates EXCEPT ![j.b] = @ \ {d}]
            /\ Step(j, "check", d)
       \/ candidates[j.b] = {} /\ Step(j, "fail", None) /\ UNCHANGED candidates
    /\ UNCHANGED <<booking, offer, tried, searching, lock, fleet, kept, request, history>>

\* What the job and createDriverOffer read before the offer is written.
CanOffer(b, d) ==
    /\ d \in online \ onTrip
    /\ lock[d] = None
    /\ offer[b].to = None \/ offer[b].accepted

\* Mutant of CheckCandidate: the timeout is armed before the offer is written.
ArmBeforeWriting(j) ==
    /\ j.name = "offer" /\ j.at = "check"
    /\ IF CanOffer(j.b, j.d)
       THEN jobs' = (jobs \ {j}) \cup {[j EXCEPT !.at = "write"], Job("timeout", j.b, j.n, j.d)}
       ELSE Step(j, "skip", j.d)
    /\ UNCHANGED <<booking, keys, fleet, kept, request, history>>

CheckCandidate(j) ==
    /\ j.name = "offer" /\ j.at = "check"
    /\ Step(j, IF CanOffer(j.b, j.d) THEN "write" ELSE "skip", j.d)
    /\ UNCHANGED <<booking, keys, fleet, kept, request, history>>

CreateOffer(j) ==
    /\ j.name = "offer" /\ j.at = "write"
    /\ offer' = [offer EXCEPT ![j.b] = [to |-> j.d, n |-> j.n, accepted |-> FALSE]]
    /\ lock' = [lock EXCEPT ![j.d] = j.b]
    /\ asked' = [asked EXCEPT ![j.b] = @ \cup {j.d}]
    /\ Step(j, "arm", j.d)
    /\ UNCHANGED <<booking, candidates, tried, searching, fleet, kept, request,
                   searches, forked, lost, rejects, throws, crashes>>

ArmTimeout(j) ==
    /\ j.name = "offer" /\ j.at = "arm"
    /\ jobs' = Put(jobs \ {j}, Job("timeout", j.b, j.n, j.d))
    /\ UNCHANGED <<booking, keys, fleet, kept, request, history>>

\* Mutant of MoveOn: the last candidate is forgotten.
MoveOnEarly(j) ==
    /\ tried' = [tried EXCEPT ![j.b] = @ \cup {j.d}]
    /\ IF Cardinality(candidates[j.b]) <= 1
       THEN Step(j, "fail", Named(j))
       ELSE jobs' = Put(jobs \ {j}, OfferTo(j.b, j.n + 1))

\* The driver is marked as tried; with nobody left the search fails.
MoveOn(j) ==
    /\ tried' = [tried EXCEPT ![j.b] = @ \cup {j.d}]
    /\ IF candidates[j.b] = {}
       THEN Step(j, "fail", Named(j))
       ELSE jobs' = Put(jobs \ {j}, OfferTo(j.b, j.n + 1))

\* Mutant of SkipCandidate: nobody takes the skipped driver's place.
SkipAndStop(j) ==
    /\ j.name = "offer" /\ j.at = "skip"
    /\ tried' = [tried EXCEPT ![j.b] = @ \cup {j.d}]
    /\ Done(j)
    /\ UNCHANGED <<booking, offer, candidates, searching, lock, fleet, kept, request, history>>

\* tryNextDriver.
SkipCandidate(j) ==
    /\ j.name = "offer" /\ j.at = "skip"
    /\ MoveOn(j)
    /\ UNCHANGED <<booking, offer, candidates, searching, lock, fleet, kept, request,
                   history>>

------------------------------------------------------------------------------
(* handleOfferTimeout. *)

\* Mutant of TimeoutReads: an offer that expired first is taken for answered.
TimeoutIgnoresExpired(j) ==
    /\ j.name = "timeout" /\ j.at = "queued"
    /\ IF Awaiting(j.b) /\ offer[j.b].to = j.d /\ ~offer[j.b].accepted
       THEN Step(j, "act", j.d)
       ELSE Done(j)
    /\ UNCHANGED <<booking, keys, fleet, kept, request, history>>

TimeoutReads(j) ==
    /\ j.name = "timeout" /\ j.at = "queued"
    /\ \/ /\ ~Awaiting(j.b)
          /\ ClearOffer(j.b, j.d)
          /\ Done(j)
       \/ /\ Awaiting(j.b)
          /\ IF offer[j.b].to = None \/ (offer[j.b].to = j.d /\ ~offer[j.b].accepted)
             THEN Step(j, "act", j.d)
             ELSE Done(j)
          /\ UNCHANGED <<offer, lock>>
    /\ UNCHANGED <<booking, candidates, tried, searching, fleet, kept, request, history>>

\* handleDriverTimeout.
TimeoutActs(j) ==
    /\ j.name = "timeout" /\ j.at = "act"
    /\ ClearOffer(j.b, j.d)
    /\ MoveOn(j)
    /\ UNCHANGED <<booking, candidates, searching, fleet, kept, request, history>>

------------------------------------------------------------------------------
(* failDriverSearch, in the job that decided it or in the listener of a job  *)
(* that failed for the last time.                                            *)

\* A pickup is cancelled by autoCancelBooking, and its keys are dropped.
CancelPickup(b) ==
    /\ kind[b] = "PICKUP"
    /\ leg[b] \notin {"none", "cancelled"}
    /\ leg' = [leg EXCEPT ![b] = "cancelled"]
    /\ Cleanup(b, offer[b].to)
    /\ UNCHANGED <<kind, taker, nulled, gaveUp>>

\* A return is marked, whatever it has become, and its assignment nulled.
MarkReturn(b) ==
    /\ kind[b] = "RETURN"
    /\ taker' = [taker EXCEPT ![b] = None]
    /\ nulled' = nulled \cup {b}
    /\ gaveUp' = gaveUp \cup {b}
    /\ UNCHANGED <<kind, leg, offer, candidates, tried, lock>>

\* A failed job that is kept has been given up by the queue: its listener runs.
InListener(j) == Id(j) \in kept

\* The search job and the listener drop the search's lock afterwards.
Unlocked(j) ==
    IF j.name = "search" \/ InListener(j) THEN searching \ {j.b} ELSE searching

FailSearch(j) ==
    /\ j.at = "fail"
    /\ \/ CancelPickup(j.b)
       \/ MarkReturn(j.b) /\ searching' = Unlocked(j)
       \/ /\ kind[j.b] = "PICKUP" /\ leg[j.b] = "cancelled"
          /\ searching' = Unlocked(j)
          /\ UNCHANGED <<booking, offer, candidates, tried, lock>>
    /\ Done(j)
    /\ UNCHANGED <<fleet, kept, request, history>>

Mishap == rejects + throws + crashes < MaxMishap

\* A giving up that fails and that nobody learns of: autoCancelBooking answers
\* an error or a conflict of its transaction as it answers a booking already
\* cancelled, and no caller looks; the listener logs what it catches.  The job
\* is done, and the leg is as it was.
GivingUpFails(j) ==
    /\ j.at = "fail"
    /\ kind[j.b] = "PICKUP" \/ InListener(j)
    /\ Mishap
    /\ throws' = throws + 1
    /\ lost' = lost \cup {j.b}
    /\ searching' \in IF kind[j.b] = "PICKUP" /\ ~InListener(j)
                      THEN {Unlocked(j)} ELSE {searching, Unlocked(j)}
    /\ Done(j)
    /\ UNCHANGED <<booking, offer, candidates, tried, lock, fleet, kept, request,
                   searches, asked, forked, rejects, crashes>>

\* The queue runs the job again; or, if its earlier attempts failed before
\* they did anything, keeps it as failed, and its listener fails the search.
RunAgain(j) ==
    /\ j.at # "queued" /\ ~(j.at = "fail" /\ InListener(j))
    /\ \/ Step(j, "queued", Named(j)) /\ UNCHANGED kept
       \/ Step(j, "fail", Named(j)) /\ kept' = kept \cup {Id(j)}
    /\ UNCHANGED <<booking, offer, candidates, tried, lock, fleet, request, searches,
                   asked, forked, lost>>

\* A step throws.  A search gives up its lock first.
JobThrows(j) ==
    /\ Mishap
    /\ throws' = throws + 1
    /\ searching' = IF j.name = "search" THEN searching \ {j.b} ELSE searching
    /\ RunAgain(j)
    /\ UNCHANGED <<rejects, crashes>>

\* The process dies.  A search leaves its lock.
WorkerDies(j) ==
    /\ Mishap
    /\ crashes' = crashes + 1
    /\ RunAgain(j)
    /\ UNCHANGED <<searching, rejects, throws>>

------------------------------------------------------------------------------
(* The drivers. *)

Ask(d, do, b) ==
    /\ request[d] = Idle
    /\ request' = [request EXCEPT ![d] = [do |-> do, b |-> b, n |-> offer[b].n]]
    /\ UNCHANGED <<booking, keys, fleet, queue, history>>

\* Every endpoint first reads the offer: it must be the driver's, unanswered.
ReadsOffer(d, b, do) ==
    /\ offer[b].to = d
    /\ do \in {"ride", "txn"} => ~offer[b].accepted
    /\ Ask(d, do, b)

\* The socket takes a rejection unseen, and reads what attempt it is from the
\* offer there is, the first if there is none.
LateReject(d, b) ==
    /\ d \in asked[b] /\ offer[b].to # d
    /\ request[d] = Idle
    /\ request' = [request EXCEPT ![d] =
            [do |-> "reject", b |-> b, n |-> IF offer[b].to = None THEN 1 ELSE offer[b].n]]
    /\ UNCHANGED <<booking, keys, fleet, queue, history>>

\* The guarded update of either accept endpoint.
TakeLeg(b, d) ==
    /\ Awaiting(b) /\ taker[b] = None
    /\ leg' = [leg EXCEPT ![b] = "taken"]
    /\ taker' = [taker EXCEPT ![b] = d]
    /\ nulled' = nulled \ {b}
    /\ UNCHANGED <<kind, gaveUp>>

Answering(d, do) == request[d].do = do

\* processRideAccept; the HTTP endpoint clears the offer if it came too late.
RideAccepted(d) ==
    /\ Answering(d, "ride")
    /\ LET b == request[d].b IN
        \/ /\ TakeLeg(b, d)
           /\ request' = [request EXCEPT ![d].do = "settle"]
           /\ UNCHANGED <<offer, lock>>
        \/ /\ ~(Awaiting(b) /\ taker[b] = None)
           /\ request' = [request EXCEPT ![d] = Idle]
           /\ ClearOffer(b, d) \/ UNCHANGED <<offer, lock>>
           /\ UNCHANGED booking
    /\ UNCHANGED <<candidates, tried, searching, fleet, queue, history>>

RideSettled(d) ==
    /\ Answering(d, "settle")
    /\ busy' = busy \cup {d}
    /\ onTrip' = onTrip \cup {d}
    /\ Cleanup(request[d].b, d)
    /\ request' = [request EXCEPT ![d] = Idle]
    /\ UNCHANGED <<booking, online, queue, history>>

\* acceptBookingOffer: the booking and the driver in one transaction, which
\* MongoDB refuses under an assignment that is null.
OfferAccepted(d) ==
    /\ Answering(d, "txn")
    /\ LET b == request[d].b IN
        \/ /\ b \notin nulled
           /\ TakeLeg(b, d)
           /\ busy' = busy \cup {d}
           /\ request' = [request EXCEPT ![d].do = "txn_settle"]
        \/ /\ b \in nulled \/ ~(Awaiting(b) /\ taker[b] = None)
           /\ request' = [request EXCEPT ![d] = Idle]
           /\ UNCHANGED <<booking, busy>>
    /\ UNCHANGED <<keys, online, onTrip, queue, history>>

\* ... then the Redis side, and the timeout job is removed if it still waits.
\* The driver's lock is left to expire.
OfferSettled(d) ==
    /\ Answering(d, "txn_settle")
    /\ LET b == request[d].b IN
        /\ offer' = [offer EXCEPT ![b].accepted = offer[b].to # None]
        /\ candidates' = [candidates EXCEPT ![b] = {}]
        /\ tried' = [tried EXCEPT ![b] = {}]
        /\ searching' = searching \ {b}
        /\ jobs' = {j \in jobs : ~(Id(j) = <<"timeout", b, request[d].n>> /\ j.at = "queued")}
    /\ onTrip' = onTrip \cup {d}
    /\ request' = [request EXCEPT ![d] = Idle]
    /\ UNCHANGED <<booking, lock, online, busy, kept, history>>

\* processRideReject: the next offer is scheduled at once.
RideRejected(d) ==
    /\ Answering(d, "reject")
    /\ LET b == request[d].b IN
        /\ ClearOffer(b, d)
        /\ tried' = [tried EXCEPT ![b] = @ \cup {d}]
        /\ jobs' = Put(jobs, OfferTo(b, request[d].n + 1))
    /\ Mishap
    /\ rejects' = rejects + 1
    /\ forked' = forked \cup {request[d].b}
    /\ request' = [request EXCEPT ![d] = Idle]
    /\ UNCHANGED <<booking, candidates, searching, fleet, kept, searches, asked, lost,
                   throws, crashes>>

\* rejectBookingOffer: only the offer goes; the timeout job moves on.
OfferRejected(d) ==
    /\ Answering(d, "drop")
    /\ offer' = [offer EXCEPT ![request[d].b] = NoOffer]
    /\ request' = [request EXCEPT ![d] = Idle]
    /\ UNCHANGED <<booking, candidates, tried, searching, lock, fleet, queue, history>>

GoOffline(d) ==
    /\ d \in online \ busy
    /\ online' = online \ {d}
    /\ UNCHANGED <<booking, keys, busy, onTrip, queue, request, history>>

------------------------------------------------------------------------------
(* The user, and the keys' time to live. *)

UserCancels(b) ==
    /\ kind[b] = "PICKUP" /\ leg[b] \in {"awaiting", "taken"}
    /\ leg' = [leg EXCEPT ![b] = "cancelled"]
    /\ UNCHANGED <<kind, taker, nulled, gaveUp, keys, fleet, queue, request, history>>

\* The offer and the lock live as long as each other, but are not one key.
OfferExpires(b) ==
    /\ offer[b].to # None
    /\ offer' = [offer EXCEPT ![b] = NoOffer]
    /\ UNCHANGED <<booking, candidates, tried, searching, lock, fleet, queue, request,
                   history>>

LockExpires(d) ==
    /\ lock[d] # None
    /\ lock' = [lock EXCEPT ![d] = None]
    /\ UNCHANGED <<booking, offer, candidates, tried, searching, fleet, queue, request,
                   history>>

------------------------------------------------------------------------------
JobRuns(j) ==
    \/ ReturnJob(j) \/ SearchBegins(j) \/ SearchFinds(j)
    \/ OfferBegins(j) \/ PopCandidate(j) \/ CheckCandidate(j) \/ CreateOffer(j)
    \/ ArmTimeout(j) \/ SkipCandidate(j)
    \/ TimeoutReads(j) \/ TimeoutActs(j) \/ FailSearch(j)

DriverReplies(d) ==
    \/ RideAccepted(d) \/ RideSettled(d) \/ OfferAccepted(d) \/ OfferSettled(d)
    \/ RideRejected(d) \/ OfferRejected(d)

Next ==
    \/ \E b \in Bookings :
        \/ PickupPaid(b) \/ ReturnRequested(b) \/ UserCancels(b) \/ OfferExpires(b)
    \/ \E j \in jobs : JobRuns(j) \/ GivingUpFails(j) \/ JobThrows(j) \/ WorkerDies(j)
    \/ \E d \in Drivers :
        \/ DriverReplies(d) \/ GoOffline(d) \/ LockExpires(d)
        \/ \E b \in Bookings :
            \/ LateReject(d, b)
            \/ \E do \in Replies : ReadsOffer(d, b, do)

\* The queue runs every job in the end, and a request's awaits end.
Fairness ==
    /\ WF_vars(\E j \in jobs : JobRuns(j))
    /\ \A d \in Drivers : WF_vars(DriverReplies(d))

Spec == Init /\ [][Next]_vars
FairSpec == Spec /\ Fairness

------------------------------------------------------------------------------
(* Properties. *)

\* Every variable keeps its shape: the documents' fields, the keys, the queue
\* and the requests under way.
TypeOK ==
    /\ kind \in [Bookings -> {"PICKUP", "RETURN"}]
    /\ leg \in [Bookings -> {"none", "awaiting", "taken", "cancelled"}]
    /\ taker \in [Bookings -> Drivers \cup {None}]
    /\ nulled \subseteq Bookings /\ gaveUp \subseteq Bookings
    /\ offer \in [Bookings -> [to : Drivers \cup {None}, n : Nat, accepted : BOOLEAN]]
    /\ candidates \in [Bookings -> SUBSET Drivers]
    /\ tried \in [Bookings -> SUBSET Drivers]
    /\ searching \subseteq Bookings
    /\ lock \in [Drivers -> Bookings \cup {None}]
    /\ online \subseteq Drivers /\ busy \subseteq Drivers /\ onTrip \subseteq Drivers
    /\ \A j \in jobs : IsJob(j)
    /\ \A i \in kept : i \in (DOMAIN JobStep) \X Bookings \X Nat
    /\ request \in [Drivers -> Request]
    /\ searches \in [Bookings -> Nat]
    /\ asked \in [Bookings -> SUBSET Drivers]
    /\ forked \subseteq Bookings /\ lost \subseteq Bookings
    /\ rejects \in Nat /\ throws \in Nat /\ crashes \in Nat

\* The search of a leg is one chain of jobs, as long as no driver's rejection
\* starts a second: each job schedules the next as its last act, so that no two
\* of them ever work on the booking's keys.
OneChain == \A b \in Bookings \ forked : \A j, k \in JobsOf(b) : j = k

\* The ids of a booking that failed jobs still hold.
KeptOf(b) == {i \in kept : i[2] = b}

\* A leg that waits for a driver is not forgotten: a job of its search is
\* queued or under way, or the search was given up and the user told.  A worker
\* that dies in a search leaves the search's lock behind, and the job is lost.
\* A giving up whose own error is swallowed ends the search's last job and
\* leaves the leg waiting with none.
\* So is the first offer of a later search whose id a failed job of an earlier
\* search still has: offers are numbered from one in every search.
NeverForgotten ==
    crashes = 0 =>
        \A b \in Bookings \ forked :
            Awaiting(b) /\ b \notin gaveUp \cup lost /\ (searches[b] > 1 => KeptOf(b) = {})
                => JobsOf(b) # {}

\* Within one search no driver is offered the leg a second time, whatever is
\* thrown, run again, rejected or left to expire, unless two searches overlap.
AskedOnce ==
    [][\A b \in Bookings, d \in Drivers :
          offer'[b].to = d /\ offer[b].to # d /\ (b \in forked => searches[b] = 1)
              => d \notin asked[b]]_vars

\* A search is given up only when nobody is left to ask: no candidate, and
\* nobody who holds an offer he may still accept.
GivesUp(j) == j.at = "fail" /\ j \notin jobs' /\ Awaiting(j.b)

GivenUpOnlyExhausted ==
    [][\A j \in jobs :
          GivesUp(j) /\ throws = 0 /\ crashes = 0 /\ j.b \notin forked
              => candidates[j.b] = {} /\ offer[j.b].to = None]_vars

\* Every search comes to an end, with a driver or without, unless giving it up
\* fails and the failure is swallowed.
SearchEnds ==
    \A b \in Bookings :
        Awaiting(b) ~> ~Awaiting(b) \/ b \in gaveUp \cup forked \cup lost \/ crashes > 0

==============================================================================
