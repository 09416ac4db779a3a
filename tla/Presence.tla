------------------------------ MODULE Presence ------------------------------
(* Which drivers the search can see.  MongoDB says who is online, active and  *)
(* on a trip; Redis has the index the search reads: two sets of positions and *)
(* a hash about each driver.  A hook of the driver's model rewrites the index *)
(* from the document that each save or update by findOneAndUpdate hands it:   *)
(* the saved document, the one before the update, or a projection of it.      *)
(* Handlers write the index besides, before or after.                         *)
(*                                                                            *)
(* Every await ends an action; a request under way is a record in handler.    *)
(* Positions themselves, vehicles and radii are left out: a search may find   *)
(* any of the drivers listed.  All drivers are verified, of one area, and     *)
(* have sent a position: one who has not is never listed.                     *)
EXTENDS Naturals, Sequences

CONSTANTS
    Drivers,
    Handlers,    \* requests under way at once
    None,
    MaxActs,     \* requests, searches and runs of the nightly job
    MaxRestart   \* restarts of the server, errors of Redis and expiries of a hash

ASSUME PresenceAssumption == None \notin Drivers /\ {MaxActs, MaxRestart} \subseteq Nat

VARIABLES
    db,          \* Driver documents: is_online, is_on_trip, account_status
    geo,         \* the sets of positions each driver is in: his area's, the global one
    meta,        \* DriverKeys.meta
    handler,     \* the request under way
    night,       \* the nightly job
    boot,        \* drivers the server's start has still to list, as it read them
    search,      \* a search
    candidates,  \* drivers a search has queued for an offer
    offered,     \* drivers with an open offer
    allowed,     \* drivers with a cached permission to send live positions
    astray,      \* drivers who may be listed though they are not free
    lost,        \* drivers who may be free though they are not listed
    acts, restarts

index   == <<geo, meta>>
offers  == <<search, candidates, offered>>
jobs    == <<night, boot>>
history == <<astray, lost>>
counts  == <<acts, restarts>>
vars    == <<db, index, handler, jobs, offers, allowed, history, counts>>

\* shouldBeInRedis.
Fit(doc) == doc.online /\ doc.active /\ ~doc.trip

Sets == {"area", "global"}

\* The hash: whether it is there, says he is online, on a trip, and names his area.
NoMeta == [there |-> FALSE, online |-> FALSE, trip |-> FALSE, area |-> FALSE]
Known  == [there |-> TRUE, online |-> TRUE, trip |-> FALSE, area |-> TRUE]

\* An offer goes to a driver whose hash says so.
Offerable(d) == meta[d].there /\ meta[d].online /\ ~meta[d].trip

Bare == [online |-> FALSE, trip |-> FALSE, active |-> FALSE]

\* A request: its driver, his document as read and whether all of it was, the
\* steps left, and what two of them need to know.
Idle == [d |-> None, doc |-> Bare, full |-> FALSE, plan |-> <<>>, area |-> FALSE, there |-> FALSE]

Rec(d, doc, plan) == [Idle EXCEPT !.d = d, !.doc = doc, !.full = TRUE, !.plan = plan]
Part(d, plan)     == [Idle EXCEPT !.d = d, !.plan = plan]

\* The steps of the first set come in any order, then those of the second.
At(h, step) == handler[h].plan # <<>> /\ step \in Head(handler[h].plan)

After(k, step) ==
    LET left == Head(k.plan) \ {step}
        plan == IF left = {} THEN Tail(k.plan) ELSE <<left>> \o Tail(k.plan) IN
    IF plan = <<>> THEN Idle ELSE [k EXCEPT !.plan = plan]

Done(h, step) == handler' = [handler EXCEPT ![h] = After(@, step)]

\* Someone else is at work on what MongoDB or Redis says of d.
Touched(d, others) ==
    \/ \E g \in others : handler[g].d = d
    \/ night.at # "idle" \/ search.at # "idle"
    \/ \E b \in boot : b.d = d

InHand == ({handler[h].d : h \in Handlers} \ {None}) \cup {b.d : b \in boot}

Doubt(ds) == astray' = astray \cup ds /\ lost' = lost \cup ds

Begin(h, rec) ==
    /\ handler[h] = Idle /\ acts < MaxActs
    /\ acts' = acts + 1
    /\ handler' = [handler EXCEPT ![h] = rec]
    /\ Doubt(IF Touched(rec.d, Handlers) THEN {rec.d} ELSE {})
    /\ UNCHANGED <<index, jobs, offers, restarts>>

Init ==
    /\ db = [d \in Drivers |-> [online |-> FALSE, trip |-> FALSE, active |-> TRUE]]
    /\ geo = [d \in Drivers |-> {}]
    /\ meta = [d \in Drivers |-> NoMeta]
    /\ handler = [h \in Handlers |-> Idle]
    /\ night = [at |-> "idle", found |-> {}] /\ boot = {}
    /\ search = [at |-> "idle", found |-> {}]
    /\ candidates = {} /\ offered = {} /\ allowed = {}
    /\ astray = {} /\ lost = {}
    /\ acts = 0 /\ restarts = 0

(* The index. *)

\* removeDriverFromRedis: without the area given, it is the one the hash names.
Remove(d, named) ==
    /\ geo' = [geo EXCEPT ![d] = IF named \/ meta[d].area THEN {} ELSE @ \ {"global"}]
    /\ meta' = [meta EXCEPT ![d] = NoMeta]

\* Mutant of Add: whoever the handler names is listed.
AddAll(d, doc) == geo' = [geo EXCEPT ![d] = Sets] /\ meta' = [meta EXCEPT ![d] = Known]

\* addDriverToRedis.
Add(d, doc) ==
    IF Fit(doc)
    THEN geo' = [geo EXCEPT ![d] = Sets] /\ meta' = [meta EXCEPT ![d] = Known]
    ELSE Remove(d, TRUE)

\* syncDriverToRedis.  A projection lacks the status, so that its driver is
\* removed; it lacks his area too.
Sync(d, doc, full) == IF full THEN Add(d, doc) ELSE Remove(d, FALSE)

\* updateDriverLocation finds out whether there is a hash.
Gauge(h) ==
    /\ At(h, "gauge")
    /\ handler' = [handler EXCEPT ![h] = [After(@, "gauge") EXCEPT !.there = meta[handler[h].d].there]]
    /\ UNCHANGED <<db, index, jobs, offers, allowed, history, counts>>

\* It lists the driver and, if there was no hash, makes one that says he is free.
Place(h) ==
    /\ At(h, "place")
    /\ LET k == handler[h] IN
       /\ geo' = [geo EXCEPT ![k.d] = @ \cup IF k.area THEN Sets ELSE {"global"}]
       /\ meta' = [meta EXCEPT ![k.d] = IF k.there THEN [@ EXCEPT !.there = TRUE]
                                       ELSE [Known EXCEPT !.area = k.area]]
       /\ astray' = IF ~k.there /\ (k.doc.trip \/ ~k.full) THEN astray \cup {k.d} ELSE astray
    /\ Done(h, "place")
    /\ UNCHANGED <<db, jobs, offers, allowed, lost, counts>>

\* markDriverOnTrip and markDriverAvailable may make a hash of one field.
Mark(h, step) ==
    /\ At(h, step)
    /\ meta' = [meta EXCEPT ![handler[h].d] = [@ EXCEPT !.there = TRUE, !.trip = (step = "busy")]]
    /\ Done(h, step)
    /\ UNCHANGED <<db, geo, jobs, offers, allowed, history, counts>>

\* A handler lists the driver, or takes him off the list, on its own account.
Lists(h) ==
    /\ At(h, "add")
    /\ Add(handler[h].d, handler[h].doc)
    /\ Done(h, "add")
    /\ UNCHANGED <<db, jobs, offers, allowed, history, counts>>

Unlists(h) ==
    /\ At(h, "drop")
    /\ Remove(handler[h].d, handler[h].area)
    /\ Done(h, "drop")
    /\ UNCHANGED <<db, jobs, offers, allowed, history, counts>>

\* invalidateDriverCache of the administrators deletes the hash.
Forget(h) ==
    /\ At(h, "forget")
    /\ meta' = [meta EXCEPT ![handler[h].d] = NoMeta]
    /\ Done(h, "forget")
    /\ UNCHANGED <<db, geo, jobs, offers, allowed, history, counts>>

\* The hook.  What it writes of an up-to-date document, with nobody else at
\* work on the driver, is right again.
Hook(h) ==
    /\ At(h, "sync")
    /\ LET k == handler[h]
           true == k.full /\ k.doc = db[k.d] IN
       /\ Sync(k.d, k.doc, k.full)
       /\ IF true /\ ~At(h, "busy") /\ ~Touched(k.d, Handlers \ {h})
          THEN astray' = astray \ {k.d} /\ lost' = lost \ {k.d}
          ELSE /\ astray' = IF true \/ ~k.full \/ At(h, "busy") THEN astray ELSE astray \cup {k.d}
               /\ lost' = IF k.full THEN lost ELSE lost \cup {k.d}
    /\ Done(h, "sync")
    /\ UNCHANGED <<db, jobs, offers, allowed, counts>>

\* An error of Redis, which the helpers of the index log and leave at that.
RedisFails(h) ==
    /\ restarts < MaxRestart
    /\ restarts' = restarts + 1
    /\ \E step \in {"sync", "add", "drop", "place", "busy", "free", "forget"} :
          At(h, step) /\ Done(h, step)
    /\ Doubt({handler[h].d})
    /\ UNCHANGED <<db, index, jobs, offers, allowed, acts>>

(* The driver's requests over HTTP. *)

\* updateDriverStatus reads the driver, writes the index, then saves.
StatusReads(h, d, on) ==
    /\ Begin(h, Rec(d, [db[d] EXCEPT !.online = on],
                    <<{IF on THEN "add" ELSE "drop"}>>
                    \o (IF db[d].online = on THEN <<>> ELSE <<{"save"}>>) \o <<{"sync"}>>))
    /\ UNCHANGED <<db, allowed>>

\* The save writes what was changed of the document: is_online.
StatusSaves(h) ==
    /\ At(h, "save")
    /\ db' = [db EXCEPT ![handler[h].d].online = handler[h].doc.online]
    /\ Done(h, "save")
    /\ UNCHANGED <<index, jobs, offers, allowed, history, counts>>

\* updateDriverLocation of the driver's controller, whether he is on a trip or not.
LocationReads(h, d) ==
    /\ Begin(h, [Rec(d, db[d], IF db[d].active /\ db[d].online THEN <<{"sync"}, {"gauge"}, {"place"}>>
                                                                ELSE <<{"drop"}>>) EXCEPT !.area = TRUE])
    /\ UNCHANGED <<db, allowed>>

\* updatePushToken and a sign-in project the document; a refreshed session
\* hands the hook the one before the update, which changed no status.
PushTokenWrites(h, d) ==
    /\ Begin(h, Part(d, <<{"sync"}>>))
    /\ UNCHANGED <<db, allowed>>

SignInWrites(h, d) ==
    /\ db' = [db EXCEPT ![d].active = TRUE]
    /\ Begin(h, Part(d, <<{"sync"}>>))
    /\ UNCHANGED allowed

RefreshWrites(h, d) ==
    /\ Begin(h, Rec(d, db[d], <<{"sync"}>>))
    /\ UNCHANGED <<db, allowed>>

(* Over the socket. *)

GoOnline(h, d) ==
    /\ db' = [db EXCEPT ![d].online = TRUE]
    /\ Begin(h, Rec(d, db'[d], <<{"sync"}, {"add"}>>))
    /\ UNCHANGED allowed

GoOfflineReads(h, d) ==
    /\ ~db[d].trip
    /\ Begin(h, Rec(d, db[d], <<{"off"}, {"sync"}>>))
    /\ UNCHANGED <<db, allowed>>

\* The update returns the document from before it: the hook lists the driver.
GoOfflineWrites(h) ==
    /\ At(h, "off")
    /\ LET k == [handler[h] EXCEPT !.doc = db[handler[h].d]] IN
       /\ db' = [db EXCEPT ![k.d].online = FALSE]
       /\ handler' = [handler EXCEPT ![h] = After(k, "off")]
    /\ UNCHANGED <<index, jobs, offers, allowed, history, counts>>

\* updateDriverLocation of the location service: the driver of a booking under
\* way, or who was that when his permission was put in the cache.
LivePosition(h, d) ==
    /\ db[d].trip \/ d \in allowed
    /\ allowed' = allowed \cup {d}
    /\ Begin(h, Part(d, <<{"gauge"}, {"place"}>>))
    /\ UNCHANGED db

(* Trips. *)

\* processRideAccept: the hook is handed the document from before the update,
\* and the hash is written at the same time.
Accept(h, d) ==
    /\ d \in offered
    /\ Begin(h, Rec(d, db[d], <<{"take", "busy"}>>))
    /\ UNCHANGED <<db, allowed>>

Takes(h) ==
    /\ At(h, "take")
    /\ LET k == handler[h] IN
       /\ db' = [db EXCEPT ![k.d].trip = TRUE]
       /\ handler' = [handler EXCEPT ![h].doc = db[k.d],
                                     ![h].plan = <<(Head(@) \ {"take"}) \cup {"sync"}>>]
    /\ UNCHANGED <<index, jobs, offers, allowed, history, counts>>

\* acceptRide: the hook runs inside the transaction, the hash is written after it.
AcceptTxn(h, d) ==
    /\ d \in offered
    /\ Begin(h, Rec(d, db[d], <<{"sync"}, {"commit"}, {"busy"}>>))
    /\ UNCHANGED <<db, allowed>>

Commits(h) ==
    /\ At(h, "commit")
    /\ db' = [db EXCEPT ![handler[h].d].trip = TRUE]
    /\ Done(h, "commit")
    /\ UNCHANGED <<index, jobs, offers, allowed, history, counts>>

\* A transaction is aborted although its hook has run.
Aborts(h) ==
    /\ At(h, "commit") \/ At(h, "relieve")
    /\ handler' = [handler EXCEPT ![h] = Idle]
    /\ UNCHANGED <<db, index, jobs, offers, allowed, history, counts>>

\* releaseDriver, and the other ways a trip ends.
Release(h, d) ==
    /\ db[d].trip
    /\ db' = [db EXCEPT ![d].trip = FALSE]
    /\ Begin(h, Rec(d, db'[d], <<{"sync"}, {"add", "free"}>>))
    /\ UNCHANGED allowed

(* Administrators. *)

\* updateDriverDuty.
AdminDuty(h, d, on) ==
    /\ db[d].active /\ (~on => ~db[d].trip)
    /\ db' = [db EXCEPT ![d].online = on]
    /\ Begin(h, Part(d, <<{"sync"}, {"forget"}>>))
    /\ UNCHANGED allowed

\* updateDriverStatus.
AdminStatus(h, d, active) ==
    /\ db[d].active # active /\ (~active => ~db[d].trip)
    /\ db' = [db EXCEPT ![d].active = active, ![d].online = @ /\ active]
    /\ Begin(h, Part(d, <<{"sync"}, {"forget"}>>))
    /\ UNCHANGED allowed

\* updateDriver.
AdminEdits(h, d) ==
    /\ Begin(h, Rec(d, db[d], <<{"sync"}, {"forget"}>>))
    /\ UNCHANGED <<db, allowed>>

\* assignDriver and assignReturnDriver claim a free driver, inside a transaction:
\* the update projects the document, and nobody marks the hash.
AdminClaims(h, d) ==
    /\ Fit(db[d])
    /\ Begin(h, Part(d, <<{"sync"}, {"commit"}>>))
    /\ UNCHANGED <<db, allowed>>

\* assignDriver takes the driver before off his trip: the hook is handed the
\* document from before the update, and nobody lists him.
AdminTakesOff(h, d) ==
    /\ db[d].trip
    /\ Begin(h, Rec(d, db[d], <<{"sync"}, {"relieve"}>>))
    /\ UNCHANGED <<db, allowed>>

Relieves(h) ==
    /\ At(h, "relieve")
    /\ LET d == handler[h].d IN
       /\ db' = [db EXCEPT ![d].trip = FALSE]
       /\ lost' = lost \cup {d}
    /\ Done(h, "relieve")
    /\ UNCHANGED <<index, jobs, offers, allowed, astray, counts>>

\* driverLocation.
AdminLocates(h, d) ==
    /\ db[d].active
    /\ Begin(h, [Part(d, <<{"gauge"}, {"place"}, {"forget"}>>) EXCEPT !.area = TRUE])
    /\ UNCHANGED <<db, allowed>>

\* bulkDeactivateDrivers: updateMany runs no hook, and leaves is_online alone.
AdminBulk(ds) ==
    /\ acts < MaxActs
    /\ acts' = acts + 1
    /\ LET hit == {d \in ds : db[d].active /\ ~db[d].trip} IN
       /\ hit # {}
       /\ db' = [d \in Drivers |-> IF d \in hit THEN [db[d] EXCEPT !.active = FALSE] ELSE db[d]]
       /\ astray' = astray \cup hit
    /\ UNCHANGED <<index, handler, jobs, offers, allowed, lost, restarts>>

(* The nightly job. *)

\* setAllDriversOffline finds the drivers online, writes, then takes each off.
NightFinds ==
    /\ night.at = "idle" /\ acts < MaxActs
    /\ LET found == {d \in Drivers : db[d].online} IN
       found # {} /\ night' = [at |-> "write", found |-> found]
    /\ acts' = acts + 1
    /\ Doubt(InHand)
    /\ UNCHANGED <<db, index, handler, boot, offers, allowed, restarts>>

NightWrites ==
    /\ night.at = "write"
    /\ db' = [d \in Drivers |-> [db[d] EXCEPT !.online = FALSE]]
    /\ night' = [night EXCEPT !.at = "remove"]
    /\ UNCHANGED <<index, handler, boot, offers, allowed, history, counts>>

NightRemoves(d) ==
    /\ night.at = "remove" /\ d \in night.found
    /\ Remove(d, TRUE)
    /\ night' = [at |-> IF night.found = {d} THEN "idle" ELSE "remove", found |-> night.found \ {d}]
    /\ UNCHANGED <<db, handler, boot, offers, allowed, history, counts>>

(* Searches and offers. *)

\* isDriverEligibleInRedis.
Eligible(d) == ~meta[d].there \/ ~meta[d].trip

Seen(d) == geo[d] # {} /\ Eligible(d)

\* searchNearbyDrivers finds the nearest of those it sees.
SearchLooks ==
    /\ search.at = "idle" /\ acts < MaxActs
    /\ \E found \in SUBSET {d \in Drivers : Seen(d)} :
          found # {} /\ search' = [at |-> "verify", found |-> found]
    /\ acts' = acts + 1
    /\ Doubt(InHand)
    /\ UNCHANGED <<db, index, handler, jobs, candidates, offered, allowed, restarts>>

\* Mutant of SearchVerifies: whoever was found is taken off the sets.
SearchVerifiesAll ==
    /\ search.at = "verify"
    /\ candidates' = candidates \cup {d \in search.found : Fit(db[d])}
    /\ search' = [search EXCEPT !.at = "clean"]
    /\ UNCHANGED <<db, index, handler, jobs, offered, allowed, history, counts>>

\* verifyDriversInDB, and the candidates are queued.
SearchVerifies ==
    /\ search.at = "verify"
    /\ LET fit == {d \in search.found : Fit(db[d])} IN
       /\ candidates' = candidates \cup fit
       /\ search' = IF search.found = fit THEN [at |-> "idle", found |-> {}]
                                          ELSE [at |-> "clean", found |-> search.found \ fit]
    /\ UNCHANGED <<db, index, handler, jobs, offered, allowed, history, counts>>

\* cleanStaleDrivers.
SearchCleans ==
    /\ search.at = "clean"
    /\ geo' = [d \in Drivers |-> IF d \in search.found THEN {} ELSE geo[d]]
    /\ search' = [at |-> "idle", found |-> {}]
    /\ UNCHANGED <<db, meta, handler, jobs, candidates, offered, allowed, history, counts>>

\* Mutant of Offers: the hash is not read again.
OffersAtOnce(d) ==
    /\ d \in candidates
    /\ candidates' = candidates \ {d}
    /\ offered' = offered \cup {d}
    /\ UNCHANGED <<db, index, handler, jobs, search, allowed, history, counts>>

\* handleOfferNextDriver pops a candidate and reads his hash again.
Offers(d) ==
    /\ d \in candidates
    /\ candidates' = candidates \ {d}
    /\ offered' = IF Offerable(d) THEN offered \cup {d} ELSE offered
    /\ UNCHANGED <<db, index, handler, jobs, search, allowed, history, counts>>

OfferLapses(d) ==
    /\ d \in offered
    /\ offered' = offered \ {d}
    /\ UNCHANGED <<db, index, handler, jobs, search, candidates, allowed, history, counts>>

(* Expiry and restart. *)

\* Nobody has refreshed the hash for an hour.
MetaExpires(d) ==
    /\ restarts < MaxRestart /\ meta[d].there
    /\ restarts' = restarts + 1
    /\ meta' = [meta EXCEPT ![d] = NoMeta]
    /\ UNCHANGED <<db, geo, handler, jobs, offers, allowed, history, acts>>

\* The server stops in whatever it does and starts: syncDriversToRedis finds
\* the free drivers.
Restart ==
    /\ restarts < MaxRestart
    /\ restarts' = restarts + 1
    /\ handler' = [h \in Handlers |-> Idle]
    /\ Doubt(InHand \cup night.found)
    /\ night' = [at |-> "idle", found |-> {}] /\ search' = [at |-> "idle", found |-> {}]
    /\ boot' = {[d |-> d, doc |-> db[d]] : d \in {d \in Drivers : Fit(db[d])}}
    /\ UNCHANGED <<db, index, candidates, offered, allowed, acts>>

BootLists ==
    /\ \E b \in boot : Add(b.d, b.doc) /\ boot' = boot \ {b}
    /\ UNCHANGED <<db, handler, night, offers, allowed, history, counts>>

Next ==
    \/ \E h \in Handlers, d \in Drivers :
          \/ \E on \in BOOLEAN : StatusReads(h, d, on) \/ AdminDuty(h, d, on) \/ AdminStatus(h, d, on)
          \/ LocationReads(h, d) \/ PushTokenWrites(h, d) \/ SignInWrites(h, d) \/ RefreshWrites(h, d)
          \/ GoOnline(h, d) \/ GoOfflineReads(h, d) \/ LivePosition(h, d)
          \/ Accept(h, d) \/ AcceptTxn(h, d) \/ Release(h, d)
          \/ AdminEdits(h, d) \/ AdminLocates(h, d) \/ AdminClaims(h, d) \/ AdminTakesOff(h, d)
    \/ \E h \in Handlers :
          \/ Gauge(h) \/ Place(h) \/ Lists(h) \/ Unlists(h) \/ Forget(h) \/ Hook(h)
          \/ \E step \in {"busy", "free"} : Mark(h, step)
          \/ StatusSaves(h) \/ GoOfflineWrites(h) \/ Takes(h) \/ Commits(h) \/ Relieves(h)
          \/ Aborts(h) \/ RedisFails(h)
    \/ \E ds \in SUBSET Drivers : AdminBulk(ds)
    \/ \E d \in Drivers : NightRemoves(d) \/ Offers(d) \/ OfferLapses(d) \/ MetaExpires(d)
    \/ NightFinds \/ NightWrites \/ SearchLooks \/ SearchVerifies \/ SearchCleans
    \/ Restart \/ BootLists

Spec == Init /\ [][Next]_vars

(* Properties. *)

Docs  == [online : BOOLEAN, trip : BOOLEAN, active : BOOLEAN]
Hashes == [there : BOOLEAN, online : BOOLEAN, trip : BOOLEAN, area : BOOLEAN]

\* The types of the state; a hash that is not there has no fields.
TypeOK ==
    /\ db \in [Drivers -> Docs]
    /\ geo \in [Drivers -> SUBSET Sets]
    /\ meta \in [Drivers -> Hashes]
    /\ \A d \in Drivers : ~meta[d].there => meta[d] = NoMeta
    /\ \A h \in Handlers : handler[h] = Idle \/ (handler[h].d \in Drivers /\ handler[h].plan # <<>>)
    /\ night.found \subseteq Drivers /\ search.found \subseteq Drivers
    /\ candidates \cup offered \cup allowed \cup astray \cup lost \subseteq Drivers

\* A driver whose hash offers him rides is online, active and on no trip, unless
\* a request of his is under way or one of the known ways led the index astray:
\* two at work on him at once, a restart, an error of Redis, a bulk deactivation, going offline over
\* the socket, a position sent while on a trip, an accept whose hook came last.
\* The next undisturbed hook with the whole document puts him right.
ListedAreFree ==
    \A d \in Drivers \ astray : ~Touched(d, Handlers) /\ Offerable(d) /\ geo[d] # {} => Fit(db[d])

\* A free driver is seen by the next search, unless one of the known ways hid
\* him: two at work on him, a restart, an error of Redis, a hook that was handed a
\* projection of his document, an administrator who took him off his trip.
FreeAreListed ==
    \A d \in Drivers \ lost : ~Touched(d, Handlers) /\ Fit(db[d]) => "global" \in geo[d] /\ Eligible(d)

\* Candidates wait: whoever is offered a ride was verified when the search ran
\* and only his hash is read again.  He is free still, with the exceptions of
\* ListedAreFree.
OfferedAreFree ==
    [][\A d \in offered' \ offered : d \in astray \/ Touched(d, Handlers) \/ Fit(db[d])]_vars

==============================================================================
