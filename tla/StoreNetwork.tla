----------------------------- MODULE StoreNetwork -----------------------------
(* Store owners, their stores, and the requests of administrators, owners and  *)
(* stores that activate, verify, open, close and deactivate them, beside the   *)
(* bookings that keep taking slots in the stores.                              *)
(*                                                                             *)
(* Nearly every request reads an account or counts bookings, awaits, and then  *)
(* writes by id; a bulk request writes document after document.  A request     *)
(* under way is a record in handler.  A request of an owner is let in on a     *)
(* cached copy of his account, which may be old: it is modelled as let in at   *)
(* any status of the owner.                                                    *)
EXTENDS Naturals, FiniteSets

CONSTANTS
    Owners,     \* store owners
    Stores,     \* their stores
    Bookings,   \* bookings that may be put into a store
    Handlers,   \* requests under way at once
    None,       \* no store, no owner
    MaxCount,   \* bound: how far luggage that is stored raises a count
    MaxCrash    \* bound: requests that end between two of their steps

ASSUME NetworkAssumption ==
    /\ None \notin Owners \cup Stores \cup Bookings /\ Owners \cap Stores = {}
    /\ {MaxCount, MaxCrash} \subseteq Nat

VARIABLES
    owner,      \* StoreOwner.account_status, "none" before he registers
    store,      \* the Store documents
    stage,      \* where each booking's luggage is
    placed,     \* Booking.storeId
    handler,    \* the next step of each request under way
    disturbed,  \* owners whose requests overlapped, or whose bulk request broke off
    crashes

vars == <<owner, store, stage, placed, handler, disturbed, crashes>>

Status == {"active", "pending", "inactive", "blocked"}
Down   == {"inactive", "blocked"}

\* The statuses for which an administrator may not deactivate a store.  Here
\* store_assigned stands for every status on the way there, up to picked_up.
StoreBlocking == {"store_assigned", "stored", "return_requested", "return_driver_assigned"}

\* The statuses of a booking that has a store and is not over.  That luggage is
\* at the counter, that its return is being paid (pending or captured), that it
\* is on its way back, or that its driver gave it up blocks no store.
AtStores == StoreBlocking \cup {"at_store", "final_payment", "out", "driver_cancelled_critical"}

\* Before a store is found for it, a booking is nothing to the stores.
Stages == {"none", "over"} \cup AtStores

BlockingAt(S) == {b \in Bookings : placed[b] \in S /\ stage[b] \in StoreBlocking}
ActiveAt(S)   == {b \in Bookings : placed[b] \in S /\ stage[b] \in AtStores}

NoStore  == [of |-> None, account |-> "none", verified |-> FALSE, online |-> FALSE, count |-> 0]
StoresOf(o) == {s \in Stores : store[s].of = o}
Created  == {s \in Stores : store[s].of # None}

Idle == [do |-> "idle", os |-> {}, s |-> None, to |-> "none", left |-> {}, late |-> {}]

\* A request about owners O: it overlaps every other request about one of them.
Begin(h, O, r) ==
    /\ handler[h] = Idle
    /\ handler' = [handler EXCEPT ![h] = [r EXCEPT !.os = O]]
    /\ disturbed' = disturbed \cup (O \cap UNION {handler[g].os : g \in Handlers \ {h}})

At(h, do) == handler[h].do = do
Go(h, do) == handler' = [handler EXCEPT ![h].do = do]
End(h)    == handler' = [handler EXCEPT ![h] = Idle]

\* A request that has counted and is about to take stores out of service.
TakesOut(h) ==
    \/ handler[h].do \in {"owner_stores", "bulk_owners", "bulk_stores", "delete"}
    \/ At(h, "toggle") /\ handler[h].to # "active"

\* A booking begins to block its store, unseen by the counts of such requests.
Arrives(b) ==
    handler' = [h \in Handlers |->
                  IF TakesOut(h)
                  THEN [handler[h] EXCEPT !.late = @ \cup {b}] ELSE handler[h]]

Request(do, s, to) == [Idle EXCEPT !.do = do, !.s = s, !.to = to]

Init ==
    /\ owner = [o \in Owners |-> "none"]
    /\ store = [s \in Stores |-> NoStore]
    /\ stage = [b \in Bookings |-> "none"]
    /\ placed = [b \in Bookings |-> None]
    /\ handler = [h \in Handlers |-> Idle]
    /\ disturbed = {} /\ crashes = 0

(* Owners. *)

\* An owner comes by his registration's code, or is entered by an administrator:
\* active and verified either way.
NewOwner(o) ==
    /\ owner[o] = "none"
    /\ owner' = [owner EXCEPT ![o] = "active"]
    /\ UNCHANGED <<store, stage, placed, handler, disturbed, crashes>>

\* An owner signs in unless he is blocked or pending; the write that follows
\* his code, which nobody waits for, makes him active.
OwnerSignsIn(h, o) ==
    /\ owner[o] \in {"active", "inactive"}
    /\ Begin(h, {o}, Request("owner_write", None, "active"))
    /\ UNCHANGED <<owner, store, stage, placed, crashes>>

\* Mutant of OwnerStatusReads: only one of the two ways to deactivate takes the stores down.
OwnerStatusReadsBlocked(h, o, to) ==
    /\ owner[o] \notin {"none", to}
    /\ Begin(h, {o}, Request(IF to = "inactive" THEN "owner_count" ELSE "owner_write", None, to))
    /\ UNCHANGED <<owner, store, stage, placed, crashes>>

\* An administrator sets an owner's status; deactivating him takes his stores
\* down first.
OwnerStatusReads(h, o, to) ==
    /\ owner[o] \notin {"none", to}
    /\ Begin(h, {o}, Request(IF to \in Down THEN "owner_count" ELSE "owner_write", None, to))
    /\ UNCHANGED <<owner, store, stage, placed, crashes>>

\* The owner's stores are listed and their bookings counted.
OwnerStatusCounts(h) ==
    /\ At(h, "owner_count")
    /\ LET S == UNION {StoresOf(o) : o \in handler[h].os} IN
       IF ActiveAt(S) # {} THEN End(h)
       ELSE handler' = [handler EXCEPT ![h].do = "owner_stores", ![h].left = S, ![h].late = {}]
    /\ UNCHANGED <<owner, store, stage, placed, disturbed, crashes>>

\* updateMany: one document after the other.
TakeDown(s) == [store EXCEPT ![s].account = "inactive", ![s].online = FALSE]

\* Mutant of DeactivateOwnerStores: an owner whose stores are down is forgotten.
DeactivateStoresOnly(h) ==
    /\ At(h, "owner_stores")
    /\ \/ \E s \in handler[h].left :
             store' = TakeDown(s) /\ handler' = [handler EXCEPT ![h].left = @ \ {s}]
       \/ handler[h].left = {} /\ End(h) /\ UNCHANGED store
    /\ UNCHANGED <<owner, stage, placed, disturbed, crashes>>

DeactivateOwnerStores(h) ==
    /\ At(h, "owner_stores")
    /\ \/ \E s \in handler[h].left :
             /\ store' = TakeDown(s)
             /\ handler' = [handler EXCEPT ![h].left = @ \ {s}]
       \/ /\ handler[h].left = {}
          /\ Go(h, "owner_write") /\ UNCHANGED store
    /\ UNCHANGED <<owner, stage, placed, disturbed, crashes>>

WriteOwner(h) ==
    /\ At(h, "owner_write")
    /\ owner' = [o \in Owners |-> IF o \in handler[h].os THEN handler[h].to ELSE owner[o]]
    /\ End(h)
    /\ UNCHANGED <<store, stage, placed, disturbed, crashes>>

\* Several owners at once: the active ones among them and their stores, all at
\* the same time.
BulkOwnersRead(h, O) ==
    LET active == {o \in O : owner[o] = "active"}
        S == UNION {StoresOf(o) : o \in active} IN
    /\ active # {} /\ ActiveAt(S) = {}
    /\ Begin(h, active, [Idle EXCEPT !.do = "bulk_owners", !.left = S \cup active])
    /\ UNCHANGED <<owner, store, stage, placed, crashes>>

BulkOwnersWrite(h) ==
    /\ At(h, "bulk_owners")
    /\ \/ \E x \in handler[h].left :
             /\ handler' = [handler EXCEPT ![h].left = @ \ {x}]
             /\ IF x \in Owners THEN owner' = [owner EXCEPT ![x] = "inactive"] /\ UNCHANGED store
                ELSE store' = TakeDown(x) /\ UNCHANGED owner
       \/ handler[h].left = {} /\ End(h) /\ UNCHANGED <<owner, store>>
    /\ UNCHANGED <<stage, placed, disturbed, crashes>>

(* Stores come into being. *)

OwnerCreatesStore(o, s) ==
    /\ owner[o] # "none" /\ s \notin Created
    /\ store' = [store EXCEPT ![s] = [NoStore EXCEPT !.of = o, !.account = "pending"]]
    /\ UNCHANGED <<owner, stage, placed, handler, disturbed, crashes>>

AdminReadsOwner(h, o, s) ==
    /\ owner[o] = "active" /\ s \notin Created
    /\ Begin(h, {o}, Request("create", s, "pending"))
    /\ UNCHANGED <<owner, store, stage, placed, crashes>>

\* The store's phone is taken if somebody created it meanwhile.
AdminCreatesStore(h) ==
    /\ At(h, "create")
    /\ LET s == handler[h].s IN
       store' = IF s \in Created THEN store
                ELSE [store EXCEPT ![s] =
                        [NoStore EXCEPT !.of = CHOOSE o \in handler[h].os : TRUE,
                                        !.account = "pending", !.verified = TRUE]]
    /\ End(h)
    /\ UNCHANGED <<owner, stage, placed, disturbed, crashes>>

\* The administrator's form may verify a store, or take that back; whether it
\* is online is left as it is.
AdminUpdatesStore(s, verified) ==
    /\ s \in Created /\ store[s].verified # verified
    /\ store' = [store EXCEPT ![s].verified = verified]
    /\ UNCHANGED <<owner, stage, placed, handler, disturbed, crashes>>

(* Stores open and close. *)

\* A store signs in while it and its owner are active, and is verified by that.
StoreSignsIn(h, s) ==
    /\ store[s].account = "active" /\ owner[store[s].of] = "active"
    /\ Begin(h, {store[s].of}, Request("sign_in", s, "none"))
    /\ UNCHANGED <<owner, store, stage, placed, crashes>>

SignInWrites(h) ==
    /\ At(h, "sign_in")
    /\ store' = [store EXCEPT ![handler[h].s].verified = TRUE]
    /\ End(h)
    /\ UNCHANGED <<owner, stage, placed, disturbed, crashes>>

Fit(s) == store[s].account = "active" /\ store[s].verified

\* The owner's switch.
OwnerGoesOnline(h, s) ==
    /\ s \in Created /\ Fit(s)
    /\ Begin(h, {store[s].of},
             Request(IF store[s].online THEN "go_offline" ELSE "go_online", s, "none"))
    /\ UNCHANGED <<owner, store, stage, placed, crashes>>

\* The store's own switch.
StoreGoesOnline(h, s) ==
    /\ s \in Created
    /\ store[s].account \notin {"blocked", "pending", "inactive"} /\ store[s].verified
    /\ Begin(h, {store[s].of},
             Request(IF store[s].online THEN "go_offline" ELSE "go_online", s, "none"))
    /\ UNCHANGED <<owner, store, stage, placed, crashes>>

\* Both write by id what they were asked for.
GoOnline(h) ==
    /\ handler[h].do \in {"go_online", "go_offline"}
    /\ store' = [store EXCEPT ![handler[h].s].online = At(h, "go_online")]
    /\ End(h)
    /\ UNCHANGED <<owner, stage, placed, disturbed, crashes>>

\* The administrator's switch looks at the owner as well, and writes only if
\* the store is still where it was.
AdminReadsDuty(h, s) ==
    /\ s \in Created /\ owner[store[s].of] = "active"
    /\ ~store[s].online => Fit(s)
    /\ Begin(h, {store[s].of},
             Request(IF store[s].online THEN "duty_off" ELSE "duty_on", s, "none"))
    /\ UNCHANGED <<owner, store, stage, placed, crashes>>

UpdateStoreOnline(h) ==
    /\ handler[h].do \in {"duty_on", "duty_off"}
    /\ store' = IF store[handler[h].s].online = At(h, "duty_off")
                THEN [store EXCEPT ![handler[h].s].online = At(h, "duty_on")] ELSE store
    /\ End(h)
    /\ UNCHANGED <<owner, stage, placed, disturbed, crashes>>

(* Stores are activated and deactivated. *)

\* Mutant of MayToggle: luggage that is still on its way does not count.
MayToggleEarly(s, to) ==
    IF to = "active" THEN owner[store[s].of] = "active"
    ELSE \A b \in BlockingAt({s}) : stage[b] # "stored"

\* To deactivate a store its bookings are counted; to activate it its owner
\* must be active.  To a store the other statuses are one: it is not active.
MayToggle(s, to) ==
    IF to = "active" THEN owner[store[s].of] = "active" ELSE BlockingAt({s}) = {}

ToggleReads(h, s, to) ==
    /\ s \in Created /\ MayToggle(s, to)
    /\ Begin(h, {store[s].of}, Request("toggle", s, to))
    /\ UNCHANGED <<owner, store, stage, placed, crashes>>

ToggleStoreStatus(h) ==
    /\ At(h, "toggle")
    /\ LET s == handler[h].s
           to == handler[h].to IN
       store' = [store EXCEPT ![s].account = to, ![s].online = @ /\ to = "active"]
    /\ End(h)
    /\ UNCHANGED <<owner, stage, placed, disturbed, crashes>>

BulkStoresRead(h, S) ==
    LET active == {s \in S : store[s].account = "active"} IN
    /\ active # {} /\ BlockingAt(active) = {}
    /\ Begin(h, {store[s].of : s \in active}, [Idle EXCEPT !.do = "bulk_stores", !.left = active])
    /\ UNCHANGED <<owner, store, stage, placed, crashes>>

BulkStoresWrite(h) ==
    /\ At(h, "bulk_stores")
    /\ \/ \E s \in handler[h].left :
             store' = TakeDown(s) /\ handler' = [handler EXCEPT ![h].left = @ \ {s}]
       \/ handler[h].left = {} /\ End(h) /\ UNCHANGED store
    /\ UNCHANGED <<owner, stage, placed, disturbed, crashes>>

\* The owner gives a store up, on a read that shows it closed and empty.
OwnerReadsStore(h, s) ==
    /\ s \in Created
    /\ store[s].account = "active" /\ ~store[s].online /\ store[s].count = 0
    /\ Begin(h, {store[s].of}, Request("delete", s, "pending"))
    /\ UNCHANGED <<owner, store, stage, placed, crashes>>

DeleteStore(h) ==
    /\ At(h, "delete")
    /\ store' = [store EXCEPT ![handler[h].s].account = "pending",
                              ![handler[h].s].verified = FALSE,
                              ![handler[h].s].online = FALSE]
    /\ End(h)
    /\ UNCHANGED <<owner, stage, placed, disturbed, crashes>>

(* Bookings. *)

Available(s) == store[s].online /\ Fit(s)

\* A transaction: a store found for a booking that is paid, and its count raised.
AssignStore(b, s) ==
    /\ stage[b] = "none" /\ Available(s)
    /\ stage' = [stage EXCEPT ![b] = "store_assigned"]
    /\ placed' = [placed EXCEPT ![b] = s]
    /\ store' = [store EXCEPT ![s].count = @ + 1]
    /\ Arrives(b)
    /\ UNCHANGED <<owner, disturbed, crashes>>

\* The count goes down by one, from wherever the booking is cancelled: by its
\* user, by the clock or by an administrator.
CancelBooking(b) ==
    /\ stage[b] \in AtStores
    /\ stage' = [stage EXCEPT ![b] = "over"]
    /\ store' = [store EXCEPT ![placed[b]].count = IF @ > 0 THEN @ - 1 ELSE @]
    /\ UNCHANGED <<owner, placed, handler, disturbed, crashes>>

\* A booking goes from one of the statuses From to one of To.
Goes(b, From, To) ==
    /\ stage[b] \in From
    /\ \E to \in To :
          /\ stage' = [stage EXCEPT ![b] = to]
          /\ IF to \in StoreBlocking /\ stage[b] \notin StoreBlocking THEN Arrives(b)
             ELSE UNCHANGED handler
    /\ UNCHANGED <<owner, placed, disturbed, crashes>>

\* Stored luggage is counted once more.
ConfirmStored(b) ==
    /\ Goes(b, {"at_store"}, {"stored"})
    /\ store[placed[b]].count < MaxCount
    /\ store' = [store EXCEPT ![placed[b]].count = @ + 1]

ArriveAtStore(b) == Goes(b, {"store_assigned"}, {"at_store"})

\* An administrator's word that luggage is stored is not counted.
MarkStored(b) == Goes(b, {"at_store"}, {"stored"})

\* The user asks for his luggage, and pays unless there is nothing to pay.
RequestReturn(b) ==
    Goes(b, {"stored", "final_payment"}, {"final_payment", "return_requested"})

AwaitingReturn == {"return_requested", "final_payment"}

ReturnDriverAccepts(b) == Goes(b, AwaitingReturn, {"return_driver_assigned"})

\* No driver is found, and the luggage stays.
ReturnSearchFails(b) == Goes(b, AwaitingReturn, {"stored"})

HandOver(b) == Goes(b, {"return_driver_assigned"}, {"out"})
Deliver(b)  == Goes(b, {"out"}, {"over"})

\* An administrator gives the ride to another driver, or has one searched for,
\* from any status: for the pickup,
AssignPickupDriver(b) ==
    Goes(b, {"store_assigned", "at_store", "stored", "final_payment",
             "driver_cancelled_critical"}, {"store_assigned"})

\* ... or for the return.
AssignReturnDriver(b) ==
    Goes(b, AwaitingReturn \cup {"return_driver_assigned", "out", "driver_cancelled_critical"},
         {"return_driver_assigned", "final_payment"})

\* He takes a driver off his ride.
CriticalCancel(b) == Goes(b, AtStores, {"driver_cancelled_critical"})

\* The steps that move a booking and leave every store as it is.
Travels(b) ==
    /\ \/ ArriveAtStore(b) \/ MarkStored(b) \/ RequestReturn(b) \/ ReturnDriverAccepts(b)
       \/ ReturnSearchFails(b) \/ HandOver(b) \/ Deliver(b) \/ AssignPickupDriver(b)
       \/ AssignReturnDriver(b) \/ CriticalCancel(b)
    /\ UNCHANGED store

\* A request ends between two of its steps, by an error or with its process.
\* A bulk deactivation of owners that breaks off has done part of its writes.
Crash(h) ==
    /\ crashes < MaxCrash /\ handler[h] # Idle
    /\ crashes' = crashes + 1
    /\ disturbed' = disturbed \cup (IF At(h, "bulk_owners") THEN handler[h].os ELSE {})
    /\ End(h)
    /\ UNCHANGED <<owner, store, stage, placed>>

Step(h) ==
    \/ OwnerStatusCounts(h) \/ DeactivateOwnerStores(h) \/ WriteOwner(h)
    \/ BulkOwnersWrite(h) \/ AdminCreatesStore(h) \/ SignInWrites(h) \/ GoOnline(h)
    \/ UpdateStoreOnline(h) \/ ToggleStoreStatus(h) \/ BulkStoresWrite(h) \/ DeleteStore(h)

Next ==
    \/ \E o \in Owners : NewOwner(o) \/ \E s \in Stores : OwnerCreatesStore(o, s)
    \/ \E h \in Handlers, o \in Owners :
          \/ OwnerSignsIn(h, o)
          \/ \E to \in Status : OwnerStatusReads(h, o, to)
          \/ \E s \in Stores : AdminReadsOwner(h, o, s)
    \/ \E h \in Handlers, O \in SUBSET Owners : BulkOwnersRead(h, O)
    \/ \E h \in Handlers, S \in SUBSET Stores : BulkStoresRead(h, S)
    \/ \E s \in Stores, verified \in BOOLEAN : AdminUpdatesStore(s, verified)
    \/ \E h \in Handlers, s \in Stores :
          \/ StoreSignsIn(h, s) \/ OwnerGoesOnline(h, s) \/ StoreGoesOnline(h, s)
          \/ AdminReadsDuty(h, s) \/ OwnerReadsStore(h, s)
          \/ \E to \in {"active", "inactive"} : ToggleReads(h, s, to)
    \/ \E b \in Bookings :
          \/ ConfirmStored(b) \/ CancelBooking(b) \/ Travels(b)
          \/ \E s \in Stores : AssignStore(b, s)
    \/ \E h \in Handlers : Step(h) \/ Crash(h)

Spec == Init /\ [][Next]_vars

\* The awaits of a request end.
FairSpec == Spec /\ \A h \in Handlers : WF_vars(Step(h))

\* Every variable keeps its shape: owners, stores, bookings and requests under way.
TypeOK ==
    /\ owner \in [Owners -> Status \cup {"none"}]
    /\ store \in [Stores -> [of : Owners \cup {None}, account : Status \cup {"none"},
                             verified : BOOLEAN, online : BOOLEAN, count : Nat]]
    /\ stage \in [Bookings -> Stages]
    /\ placed \in [Bookings -> Stores \cup {None}]
    /\ \A h \in Handlers :
          /\ handler[h].os \subseteq Owners /\ handler[h].s \in Stores \cup {None}
          /\ handler[h].to \in Status \cup {"none"}
          /\ handler[h].left \subseteq Stores \cup Owners /\ handler[h].late \subseteq Bookings
    /\ disturbed \subseteq Owners /\ crashes \in Nat

\* The stores of a deactivated owner are out of service: neither active nor
\* online, whatever was done to him and to them before, as long as the requests
\* about him came one after the other.  The stores go first, so that a
\* deactivation that breaks off leaves an active owner, not active stores.
OwnerDownStoresDown ==
    \A o \in Owners \ disturbed : owner[o] \in Down =>
        \A s \in StoresOf(o) :
            \/ (store[s].account # "active" /\ ~store[s].online)
            \/ \E h \in Handlers : At(h, "bulk_owners") /\ s \in handler[h].left

\* No store is deactivated over a booking in one of the blocking statuses that
\* the request's count could have seen: what it strands has come into such a
\* status after the count, whatever else overlaps.  (Luggage at the counter, or
\* whose return is being paid, blocks nothing and may be stranded.)
StrandsOnlyLateArrivals ==
    [][\A s \in Stores : \A b \in BlockingAt({s}) :
          store[s].account = "active" /\ store'[s].account # "active"
              => \E h \in Handlers : handler'[h] # handler[h] /\ b \in handler[h].late]_vars

\* A deactivation that has begun to take an owner's stores down comes to the
\* owner himself, unless the request breaks off.
DeactivationCompletes ==
    \A o \in Owners :
        (\E h \in Handlers :
            \/ At(h, "owner_stores") /\ o \in handler[h].os
            \/ At(h, "bulk_owners") /\ o \in handler[h].left)
            ~> owner[o] \in Down \/ crashes > 0

==============================================================================
