------------------------ MODULE StoreNetwork_proofs -------------------------
(* Proofs about StoreNetwork for every set of owners, stores, bookings and   *)
(* requests: the stores of a deactivated owner are out of service, and no    *)
(* store is deactivated over luggage that its request could have counted.    *)
(*                                                                           *)
(* The first property is not inductive.  DownInv adds what requests under    *)
(* way still know: no two undisturbed ones are about the same owner (Alone), *)
(* one that will put a store into service was let in while its owner was up  *)
(* (OwnerUp), and one that takes an owner down has taken down every store it *)
(* passed (TakenDown).  The second rests on what a request has counted or    *)
(* heard of (Seen), and for a store that its owner gives up on its count     *)
(* being at least the luggage it holds (Owes).                               *)
EXTENDS StoreNetwork, FiniteSetTheorems, TLAPS

(* Requests and stores. *)

\* What a request does next.
Dos == {"idle", "owner_write", "owner_count", "owner_stores", "bulk_owners", "bulk_stores",
        "create", "sign_in", "go_online", "go_offline", "duty_on", "duty_off", "toggle",
        "delete"}

\* A request.
Requests == [do : Dos, os : SUBSET Owners, s : Stores \cup {None},
             to : Status \cup {"none"},
             left : SUBSET (Stores \cup Owners), late : SUBSET Bookings]

\* A store.
StoreType == [of : Owners \cup {None}, account : Status \cup {"none"},
              verified : BOOLEAN, online : BOOLEAN, count : Nat]

\* TypeOK, and what a request does next.
Types ==
    /\ owner \in [Owners -> Status \cup {"none"}]
    /\ store \in [Stores -> StoreType]
    /\ stage \in [Bookings -> Stages]
    /\ placed \in [Bookings -> Stores \cup {None}]
    /\ handler \in [Handlers -> Requests]
    /\ disturbed \subseteq Owners /\ crashes \in Nat

\* The steps that write one store by its id.
ToOneStore == {"sign_in", "go_online", "go_offline", "duty_on", "duty_off", "toggle",
               "delete"}

\* What a request is about.
Whose(h) ==
    /\ handler[h].do = "idle" => handler[h] = Idle
    /\ handler[h].do \in ToOneStore =>
          handler[h].s \in Stores /\ store[handler[h].s].of \in handler[h].os
    /\ handler[h].do = "toggle" => handler[h].to \in Status
    /\ handler[h].do = "create" => handler[h].s \in Stores /\ handler[h].os # {}
    /\ handler[h].do \in {"owner_stores", "bulk_stores", "bulk_owners"} =>
          \A s \in handler[h].left \cap Stores : store[s].of \in handler[h].os
    /\ handler[h].do \in {"owner_stores", "bulk_stores"} => handler[h].left \subseteq Stores
    /\ handler[h].do = "bulk_owners" => handler[h].left \cap Owners \subseteq handler[h].os

\* Neither active nor online.
OutOfService(s) == store[s].account # "active" /\ ~store[s].online

\* A store that was not created is out of service, and one that was has a status.
Uncreated ==
    /\ \A s \in Stores \ Created : OutOfService(s)
    /\ \A s \in Created : store[s].account \in Status

\* Two requests about one owner have disturbed him.
Alone ==
    \A g, h \in Handlers : g # h => handler[g].os \cap handler[h].os \subseteq disturbed

\* A request that will put a store into service was let in while its owner was up.
OwnerUp(h) ==
    handler[h].do \in {"go_online", "duty_on"}
    \/ (handler[h].do = "toggle" /\ handler[h].to = "active")
        => \/ store[handler[h].s].of \in disturbed
           \/ owner[store[handler[h].s].of] \notin Down

\* A request that takes an owner down has taken down the stores it passed.
TakenDown(h) ==
    \A s \in Stores : store[s].of \in handler[h].os \ disturbed =>
        /\ handler[h].do \in {"owner_stores", "bulk_owners"} =>
              OutOfService(s) \/ s \in handler[h].left
        /\ handler[h].do = "owner_write" /\ handler[h].to \in Down => OutOfService(s)

\* What keeps the stores of a deactivated owner out of service.
DownInv ==
    /\ Uncreated /\ Alone /\ OwnerDownStoresDown
    /\ \A h \in Handlers : Whose(h) /\ OwnerUp(h) /\ TakenDown(h)

(* Steps of a request. *)

\* Request h is now this one; the others are as they were.
Now(h, do, O, s, to, left, late) ==
    /\ handler' \in [Handlers -> Requests]
    /\ handler'[h].do = do /\ handler'[h].os = O /\ handler'[h].s = s /\ handler'[h].to = to
    /\ handler'[h].left = left /\ handler'[h].late = late
    /\ \A g \in Handlers \ {h} : handler'[g] = handler[g]

\* An idle handler takes up a request about the owners O.
Starts(h, do, O, s, to, left) ==
    /\ handler[h] = Idle
    /\ Now(h, do, O, s, to, left, {})
    /\ disturbed \subseteq disturbed' /\ disturbed' \subseteq Owners
    /\ \A g \in Handlers \ {h} : handler[g].os \cap O \subseteq disturbed'

\* What a write to the record of a request makes of it, field by field.
LEMMA Written ==
    ASSUME Types, NEW h \in Handlers, NEW r \in Requests,
           handler' = [handler EXCEPT ![h] = r]
    PROVE  Now(h, r.do, r.os, r.s, r.to, r.left, r.late)
  BY DEF Now, Types

\* The types of the fields of a request.
LEMMA Fields ==
    ASSUME Types, NEW h \in Handlers
    PROVE  /\ handler[h].do \in Dos /\ handler[h].os \in SUBSET Owners
           /\ handler[h].s \in Stores \cup {None} /\ handler[h].to \in Status \cup {"none"}
           /\ handler[h].left \in SUBSET (Stores \cup Owners)
           /\ handler[h].late \in SUBSET Bookings
           /\ handler[h] \in Requests
  BY DEF Types, Requests

\* The fields of no request.
LEMMA IdleFields ==
    /\ Idle \in Requests
    /\ Idle.do = "idle" /\ Idle.os = {} /\ Idle.s = None /\ Idle.to = "none"
    /\ Idle.left = {} /\ Idle.late = {}
  BY DEF Idle, Requests, Dos

\* Begin, field by field.
LEMMA Begun ==
    ASSUME Types, NEW h \in Handlers, NEW O \in SUBSET Owners, NEW r \in Requests,
           Begin(h, O, r), r.late = {}
    PROVE  Starts(h, r.do, O, r.s, r.to, r.left)
<1> DEFINE q == [r EXCEPT !.os = O]
<1>1. /\ q \in Requests /\ q.do = r.do /\ q.os = O /\ q.s = r.s /\ q.to = r.to
      /\ q.left = r.left /\ q.late = r.late
  BY DEF Requests
<1>2. handler' = [handler EXCEPT ![h] = q] /\ handler[h] = Idle
  BY DEF Begin
<1>3. disturbed' = disturbed \cup (O \cap UNION {handler[g].os : g \in Handlers \ {h}})
  BY DEF Begin
<1> HIDE DEF q
<1>4. Now(h, r.do, O, r.s, r.to, r.left, {})
  BY <1>1, <1>2, Written
<1>5. disturbed' \subseteq Owners
  BY <1>3 DEF Types
<1> QED BY <1>2, <1>3, <1>4, <1>5 DEF Starts

\* The fields of a new request.
LEMMA RequestFields ==
    ASSUME NEW do \in Dos, NEW s \in Stores \cup {None}, NEW to \in Status \cup {"none"}
    PROVE  /\ Request(do, s, to) \in Requests
           /\ Request(do, s, to).do = do /\ Request(do, s, to).s = s
           /\ Request(do, s, to).to = to
           /\ Request(do, s, to).left = {} /\ Request(do, s, to).late = {}
  BY DEF Request, Idle, Requests, Dos

\* End, Go, and the two ways to write the list of a request, field by field.
LEMMA Ended ==
    ASSUME Types, NEW h \in Handlers, End(h)
    PROVE  Now(h, "idle", {}, None, "none", {}, {})
  BY Written, IdleFields DEF End

\* A request goes on to its next step.
LEMMA Gone ==
    ASSUME Types, NEW h \in Handlers, NEW do \in Dos, Go(h, do)
    PROVE  Now(h, do, handler[h].os, handler[h].s, handler[h].to, handler[h].left,
               handler[h].late)
<1> DEFINE q == [handler[h] EXCEPT !.do = do]
<1>1. /\ q \in Requests /\ q.do = do /\ q.os = handler[h].os /\ q.s = handler[h].s
      /\ q.to = handler[h].to /\ q.left = handler[h].left /\ q.late = handler[h].late
  BY Fields DEF Requests
<1>2. handler' = [handler EXCEPT ![h] = q]
  BY DEF Go, Types
<1> HIDE DEF q
<1> QED BY <1>1, <1>2, Written

\* It passes one of its list.
LEMMA Passed ==
    ASSUME Types, NEW h \in Handlers, NEW x,
           handler' = [handler EXCEPT ![h].left = @ \ {x}]
    PROVE  Now(h, handler[h].do, handler[h].os, handler[h].s, handler[h].to,
               handler[h].left \ {x}, handler[h].late)
<1> DEFINE left == handler[h].left \ {x}
           q == [handler[h] EXCEPT !.left = left]
<1>1. left \in SUBSET (Stores \cup Owners)
  BY Fields
<1>2. handler' = [handler EXCEPT ![h] = q]
  BY DEF Types
<1> HIDE DEF left
<1>3. /\ q \in Requests /\ q.do = handler[h].do /\ q.os = handler[h].os /\
           q.s = handler[h].s
      /\ q.to = handler[h].to /\ q.left = left /\ q.late = handler[h].late
  BY <1>1, Fields DEF Requests
<1> HIDE DEF q
<1>4. Now(h, q.do, q.os, q.s, q.to, q.left, q.late)
  BY <1>2, <1>3, Written
<1> QED BY <1>3, <1>4 DEF left

\* It has counted, and lists the stores.
LEMMA CountedStores ==
    ASSUME Types, NEW h \in Handlers, NEW S \in SUBSET Stores,
           handler' = [handler EXCEPT ![h].do = "owner_stores", ![h].left = S,
             ![h].late = {}]
    PROVE  Now(h, "owner_stores", handler[h].os, handler[h].s, handler[h].to, S, {})
<1> DEFINE q == [handler[h] EXCEPT !.do = "owner_stores", !.left = S, !.late = {}]
<1>1. /\ q \in Requests /\ q.do = "owner_stores" /\ q.os = handler[h].os /\
           q.s = handler[h].s
      /\ q.to = handler[h].to /\ q.left = S /\ q.late = {}
  BY Fields DEF Requests, Dos
<1>2. handler' = [handler EXCEPT ![h] = q]
  BY DEF Types
<1> HIDE DEF q
<1> QED BY <1>1, <1>2, Written

(* What a step leaves of the invariant. *)

\* A store in service was created, and has an owner.
LEMMA Owned ==
    ASSUME Types, DownInv, NEW s \in Stores
    PROVE  /\ s \in Created => store[s].of \in Owners
           /\ store[s].account = "active" \/ store[s].online => s \in Created
  BY DEF Types, StoreType, DownInv, Uncreated, Created, OutOfService

\* A request begins.
LEMMA StartKeeps ==
    ASSUME Types, DownInv, NEW h \in Handlers, NEW do, NEW O, NEW s, NEW to,
           NEW left, Starts(h, do, O, s, to, left), UNCHANGED <<owner, store>>,
           do \in ToOneStore => s \in Stores /\ store[s].of \in O,
           do = "toggle" => to \in Status,
           do = "create" => s \in Stores /\ O # {},
           do \in {"bulk_stores", "bulk_owners"}
             => \A x \in left \cap Stores : store[x].of \in O,
           do = "bulk_stores" => left \subseteq Stores,
           do = "bulk_owners" =>
              /\ left \cap Owners \subseteq O
              /\ \A x \in Stores : store[x].of \in O => x \in left,
           do \notin {"idle", "owner_stores"},
           do = "owner_write" => to \notin Down,
           do \in {"go_online", "duty_on"} \/ (do = "toggle" /\ to = "active")
              => store[s].of \in disturbed' \/ owner[store[s].of] \notin Down
    PROVE  DownInv'
<1> USE DEF Starts, Now
<1>1. Uncreated'
  BY DEF DownInv, Uncreated, Created, OutOfService
<1>2. Alone'
  BY DEF DownInv, Alone
<1>3. Whose(h)' /\ OwnerUp(h)' /\ TakenDown(h)'
  BY DEF Whose, OwnerUp, TakenDown, ToOneStore
<1>4. ASSUME NEW g \in Handlers, g # h PROVE Whose(g)' /\ OwnerUp(g)' /\ TakenDown(g)'
  <2>1. handler'[g] = handler[g] /\ Whose(g) /\ OwnerUp(g) /\ TakenDown(g)
    BY <1>4 DEF DownInv
  <2> QED BY <2>1 DEF Whose, OwnerUp, TakenDown, OutOfService
<1>5. OwnerDownStoresDown'
  <2> SUFFICES ASSUME NEW o \in Owners \ disturbed', owner'[o] \in Down,
                      NEW x \in StoresOf(o)',
                      ~(store'[x].account # "active" /\ ~store'[x].online)
               PROVE  \E g \in Handlers : handler'[g].do = "bulk_owners" /\
                        x \in handler'[g].left
    BY DEF OwnerDownStoresDown, At
  <2>1. x \in StoresOf(o) /\ o \notin disturbed /\ owner[o] \in Down
    BY DEF StoresOf
  <2>2. PICK g \in Handlers : handler[g].do = "bulk_owners" /\ x \in handler[g].left
    BY <2>1 DEF DownInv, OwnerDownStoresDown, At
  <2>3. g # h
    BY <2>2, IdleFields
  <2> QED BY <2>2, <2>3
<1> QED BY <1>1, <1>2, <1>3, <1>4, <1>5 DEF DownInv

\* What a step of request h may do to stores and owners.
Touches(h) ==
    /\ \A o \in Owners \ handler[h].os : owner'[o] = owner[o]
    /\ \A x \in Created : store'[x].of = store[x].of
    /\ \A x \in Stores : store[x].of \notin handler[h].os =>
          \/ store'[x].of = store[x].of
             /\ store'[x].account = store[x].account /\ store'[x].online = store[x].online
          \/ x \notin Created /\ store'[x].of \in Owners /\ OutOfService(x)'
    /\ \A x \in Stores :
          \/ store'[x].of = store[x].of /\ store'[x].account = store[x].account
          \/ store'[x].account \in Status

\* A request goes on.
LEMMA StepKeeps ==
    ASSUME Types, Types', DownInv, NEW h \in Handlers, NEW do, NEW O, NEW s, NEW to,
           NEW left, NEW late,
           Now(h, do, O, s, to, left, late), O \subseteq handler[h].os,
           disturbed \subseteq disturbed', Touches(h),
           Whose(h)', OwnerUp(h)', TakenDown(h)',
           \A x \in Stores :
              /\ store'[x].of \in handler[h].os \ disturbed' /\
                   owner'[store'[x].of] \in Down
              => OutOfService(x)' \/ (do = "bulk_owners" /\ x \in left)
    PROVE  DownInv'
<1> USE DEF Now
<1>1. Uncreated'
  BY Fields, NetworkAssumption DEF DownInv, Uncreated, Created, OutOfService, Touches
<1>2. Alone'
  BY DEF DownInv, Alone
<1>4. ASSUME NEW g \in Handlers, g # h PROVE Whose(g)' /\ OwnerUp(g)' /\ TakenDown(g)'
  <2>1. handler'[g] = handler[g] /\ Whose(g) /\ OwnerUp(g) /\ TakenDown(g)
    BY <1>4 DEF DownInv
  <2>2. \A x \in Stores : store[x].of \in Owners => store'[x].of = store[x].of
    BY NetworkAssumption DEF Touches, Created
  <2>3. handler[g].os \subseteq Owners /\
          handler[g].os \cap handler[h].os \subseteq disturbed
    BY <1>4, Fields DEF DownInv, Alone
  <2>4. Whose(g)'
    BY <2>1, <2>2, <2>3 DEF Whose
  <2>5. OwnerUp(g)'
    <3> SUFFICES ASSUME handler[g].do \in {"go_online", "duty_on"}
                           \/ (handler[g].do = "toggle" /\ handler[g].to = "active"),
                        store[handler[g].s].of \notin disturbed
                 PROVE  owner'[store'[handler[g].s].of] \notin Down
      BY <2>1, <2>2, <2>3 DEF OwnerUp, Whose, ToOneStore
    <3>1. handler[g].s \in Stores /\ store[handler[g].s].of \in handler[g].os
      BY <2>1 DEF Whose, ToOneStore
    <3>2. owner[store[handler[g].s].of] \notin Down
      BY <2>1 DEF OwnerUp
    <3> QED BY <2>2, <2>3, <3>1, <3>2 DEF Touches
  <2>6. TakenDown(g)'
    <3> SUFFICES ASSUME NEW x \in Stores, store'[x].of \in handler[g].os \ disturbed',
                        ~OutOfService(x)'
                 PROVE  /\ handler[g].do \in {"owner_stores", "bulk_owners"}
                             => x \in handler[g].left
                        /\ ~(handler[g].do = "owner_write" /\ handler[g].to \in Down)
      BY <2>1 DEF TakenDown
    <3>1. store[x].of \in Owners => store[x].of = store'[x].of
      BY <2>2
    <3>2. store'[x].of = store[x].of /\ ~OutOfService(x)
      <4>1. store[x].of \notin handler[h].os
        BY <2>3, <3>1, Fields DEF Touches, Created
      <4> QED BY <2>3, <4>1, NetworkAssumption DEF Touches, Created, OutOfService
    <3> QED BY <2>1, <3>2 DEF TakenDown
  <2> QED BY <2>4, <2>5, <2>6
<1>5. OwnerDownStoresDown'
  <2> SUFFICES ASSUME NEW o \in Owners \ disturbed', owner'[o] \in Down,
                      NEW x \in StoresOf(o)',
                      ~OutOfService(x)'
               PROVE  \E g \in Handlers : handler'[g].do = "bulk_owners" /\
                        x \in handler'[g].left
    BY DEF OwnerDownStoresDown, At, OutOfService
  <2>1. CASE o \in handler[h].os
    BY <2>1 DEF StoresOf
  <2>2. CASE o \notin handler[h].os
    <3>1. x \in StoresOf(o) /\ ~OutOfService(x) /\ owner[o] \in Down
      <4>1. store[x].of \notin handler[h].os
        BY <2>2, Fields, NetworkAssumption DEF StoresOf, Touches, Created
      <4> QED BY <2>2, <4>1, NetworkAssumption
                 DEF StoresOf, Touches, Created, OutOfService
    <3>2. PICK g \in Handlers : handler[g].do = "bulk_owners" /\ x \in handler[g].left
      BY <3>1 DEF DownInv, OwnerDownStoresDown, At, OutOfService
    <3>3. g # h
      BY <2>2, <3>1, <3>2 DEF DownInv, Whose, StoresOf
    <3> QED BY <3>2, <3>3
  <2> QED BY <2>1, <2>2
<1> QED BY <1>1, <1>2, <1>4, <1>5 DEF DownInv

\* Nothing a request can tell changes, but the bookings it hears of.
SameRequests ==
    \A h \in Handlers :
        /\ handler[h] = Idle => handler'[h] = Idle
        /\ handler'[h].do = handler[h].do /\ handler'[h].os = handler[h].os
        /\ handler'[h].s = handler[h].s /\ handler'[h].to = handler[h].to
        /\ handler'[h].left = handler[h].left

\* A step of no request leaves an owner or a store as it was, or makes a new one.
LEMMA PlainKeeps ==
    ASSUME Types, Types', DownInv, SameRequests, UNCHANGED disturbed,
           \A o \in Owners : owner'[o] = owner[o] \/ (owner[o] = "none" /\
             owner'[o] \notin Down),
           \A x \in Stores :
              \/ store'[x].of = store[x].of
                 /\ store'[x].account = store[x].account /\
                      store'[x].online = store[x].online
              \/ x \notin Created /\ store'[x].of \in Owners /\ OutOfService(x)'
                 /\ store'[x].account \in Status
    PROVE  DownInv'
<1>1. Uncreated' /\ Alone'
  BY DEF DownInv, Uncreated, Created, OutOfService, Alone, SameRequests, Types
<1>2. ASSUME NEW g \in Handlers PROVE Whose(g)' /\ OwnerUp(g)' /\ TakenDown(g)'
  <2>1. Whose(g) /\ OwnerUp(g) /\ TakenDown(g) /\ handler[g].os \subseteq Owners
    BY Fields DEF DownInv
  <2>2. \A x \in Stores : store[x].of \in Owners => store'[x].of = store[x].of
    BY NetworkAssumption DEF Created
  <2>3. Whose(g)'
    BY <2>1, <2>2 DEF Whose, SameRequests
  <2>4. OwnerUp(g)'
    <3> SUFFICES ASSUME handler[g].do \in {"go_online", "duty_on"}
                           \/ (handler[g].do = "toggle" /\ handler[g].to = "active")
                 PROVE  OwnerUp(g)'
      BY DEF OwnerUp, SameRequests
    <3>1. handler[g].s \in Stores /\ store[handler[g].s].of \in Owners
      BY <2>1 DEF Whose, ToOneStore
    <3> QED BY <2>1, <2>2, <3>1 DEF OwnerUp, SameRequests
  <2>5. TakenDown(g)'
    BY <2>1, <2>2 DEF TakenDown, SameRequests, OutOfService
  <2> QED BY <2>3, <2>4, <2>5
<1>3. OwnerDownStoresDown'
  BY DEF DownInv, OwnerDownStoresDown, At, StoresOf, OutOfService, SameRequests,
         Types, StoreType, Down
<1> QED BY <1>1, <1>2, <1>3 DEF DownInv

(* The effect of each action. *)

\* The first step of each request, one lemma per action.
\* An owner signs in.
LEMMA OwnerSignsInStarts ==
    ASSUME Types, DownInv, NEW h \in Handlers, NEW o \in Owners, OwnerSignsIn(h, o)
    PROVE  /\ Starts(h, "owner_write", {o}, None, "active", {})
           /\ UNCHANGED <<owner, store, stage, placed, crashes>>
<1> DEFINE r == Request("owner_write", None, "active")
<1>1. Begin(h, {o}, r)
  BY DEF OwnerSignsIn
<1>2. /\ r \in Requests /\ r.do = "owner_write" /\ r.s = None /\ r.to = "active"
      /\ r.left = {} /\ r.late = {}
  BY RequestFields DEF Dos, Status
<1>3. {o} \in SUBSET Owners
  BY DEF OwnerSignsIn
<1>4. UNCHANGED <<owner, store, stage, placed, crashes>>
  BY DEF OwnerSignsIn
<1> HIDE DEF r
<1> QED BY <1>1, <1>2, <1>3, <1>4, Begun

\* An administrator sets his status.
LEMMA OwnerStatusReadsStarts ==
    ASSUME Types, DownInv, NEW h \in Handlers, NEW o \in Owners, NEW to \in Status,
           OwnerStatusReads(h, o, to)
    PROVE  /\ Starts(h, IF to \in Down THEN "owner_count" ELSE "owner_write", {o},
                None, to, {})
           /\ UNCHANGED <<owner, store, stage, placed, crashes>>
<1> DEFINE r == Request(IF to \in Down THEN "owner_count" ELSE "owner_write", None, to)
<1>1. Begin(h, {o}, r)
  BY DEF OwnerStatusReads
<1>2. /\ r \in Requests /\
           r.do = (IF to \in Down THEN "owner_count" ELSE "owner_write") /\
             r.s = None /\ r.to = to
      /\ r.left = {} /\ r.late = {}
  BY RequestFields DEF Dos, Status
<1>3. {o} \in SUBSET Owners
  BY DEF OwnerStatusReads
<1>4. UNCHANGED <<owner, store, stage, placed, crashes>>
  BY DEF OwnerStatusReads
<1> HIDE DEF r
<1> QED BY <1>1, <1>2, <1>3, <1>4, Begun

\* An administrator enters a store for him.
LEMMA AdminReadsOwnerStarts ==
    ASSUME Types, DownInv, NEW h \in Handlers, NEW o \in Owners, NEW s \in Stores,
           AdminReadsOwner(h, o, s)
    PROVE  /\ Starts(h, "create", {o}, s, "pending", {})
           /\ UNCHANGED <<owner, store, stage, placed, crashes>>
<1> DEFINE r == Request("create", s, "pending")
<1>1. Begin(h, {o}, r)
  BY DEF AdminReadsOwner
<1>2. /\ r \in Requests /\ r.do = "create" /\ r.s = s /\ r.to = "pending"
      /\ r.left = {} /\ r.late = {}
  BY RequestFields DEF Dos, Status
<1>3. {o} \in SUBSET Owners
  BY DEF AdminReadsOwner
<1>4. UNCHANGED <<owner, store, stage, placed, crashes>>
  BY DEF AdminReadsOwner
<1> HIDE DEF r
<1> QED BY <1>1, <1>2, <1>3, <1>4, Begun

\* A store signs in.
LEMMA StoreSignsInStarts ==
    ASSUME Types, DownInv, NEW h \in Handlers, NEW s \in Stores, StoreSignsIn(h, s)
    PROVE  /\ Starts(h, "sign_in", {store[s].of}, s, "none", {})
           /\ UNCHANGED <<owner, store, stage, placed, crashes>>
<1> DEFINE r == Request("sign_in", s, "none")
<1>1. Begin(h, {store[s].of}, r)
  BY DEF StoreSignsIn
<1>2. /\ r \in Requests /\ r.do = "sign_in" /\ r.s = s /\ r.to = "none"
      /\ r.left = {} /\ r.late = {}
  BY RequestFields DEF Dos, Status
<1>3. {store[s].of} \in SUBSET Owners
  BY Owned DEF Created, StoreSignsIn
<1>4. UNCHANGED <<owner, store, stage, placed, crashes>>
  BY DEF StoreSignsIn
<1> HIDE DEF r
<1> QED BY <1>1, <1>2, <1>3, <1>4, Begun

\* The owner switches a store,
LEMMA OwnerGoesOnlineStarts ==
    ASSUME Types, DownInv, NEW h \in Handlers, NEW s \in Stores, OwnerGoesOnline(h, s)
    PROVE  /\ Starts(h, IF store[s].online THEN "go_offline" ELSE "go_online",
                {store[s].of}, s, "none", {})
           /\ UNCHANGED <<owner, store, stage, placed, crashes>>
<1> DEFINE r == Request(IF store[s].online THEN "go_offline" ELSE "go_online", s, "none")
<1>1. Begin(h, {store[s].of}, r)
  BY DEF OwnerGoesOnline
<1>2. /\ r \in Requests /\
           r.do = (IF store[s].online THEN "go_offline" ELSE "go_online") /\ r.s = s /\
             r.to = "none"
      /\ r.left = {} /\ r.late = {}
  BY RequestFields DEF Dos, Status
<1>3. {store[s].of} \in SUBSET Owners
  BY Owned DEF Created, OwnerGoesOnline
<1>4. UNCHANGED <<owner, store, stage, placed, crashes>>
  BY DEF OwnerGoesOnline
<1> HIDE DEF r
<1> QED BY <1>1, <1>2, <1>3, <1>4, Begun

\* ... the store itself,
LEMMA StoreGoesOnlineStarts ==
    ASSUME Types, DownInv, NEW h \in Handlers, NEW s \in Stores, StoreGoesOnline(h, s)
    PROVE  /\ Starts(h, IF store[s].online THEN "go_offline" ELSE "go_online",
                {store[s].of}, s, "none", {})
           /\ UNCHANGED <<owner, store, stage, placed, crashes>>
<1> DEFINE r == Request(IF store[s].online THEN "go_offline" ELSE "go_online", s, "none")
<1>1. Begin(h, {store[s].of}, r)
  BY DEF StoreGoesOnline
<1>2. /\ r \in Requests /\
           r.do = (IF store[s].online THEN "go_offline" ELSE "go_online") /\ r.s = s /\
             r.to = "none"
      /\ r.left = {} /\ r.late = {}
  BY RequestFields DEF Dos, Status
<1>3. {store[s].of} \in SUBSET Owners
  BY Owned DEF Created, StoreGoesOnline
<1>4. UNCHANGED <<owner, store, stage, placed, crashes>>
  BY DEF StoreGoesOnline
<1> HIDE DEF r
<1> QED BY <1>1, <1>2, <1>3, <1>4, Begun

\* ... or an administrator.
LEMMA AdminReadsDutyStarts ==
    ASSUME Types, DownInv, NEW h \in Handlers, NEW s \in Stores, AdminReadsDuty(h, s)
    PROVE  /\ Starts(h, IF store[s].online THEN "duty_off" ELSE "duty_on",
                {store[s].of}, s, "none", {})
           /\ UNCHANGED <<owner, store, stage, placed, crashes>>
<1> DEFINE r == Request(IF store[s].online THEN "duty_off" ELSE "duty_on", s, "none")
<1>1. Begin(h, {store[s].of}, r)
  BY DEF AdminReadsDuty
<1>2. /\ r \in Requests /\
           r.do = (IF store[s].online THEN "duty_off" ELSE "duty_on") /\ r.s = s /\
             r.to = "none"
      /\ r.left = {} /\ r.late = {}
  BY RequestFields DEF Dos, Status
<1>3. {store[s].of} \in SUBSET Owners
  BY Owned DEF Created, AdminReadsDuty
<1>4. UNCHANGED <<owner, store, stage, placed, crashes>>
  BY DEF AdminReadsDuty
<1> HIDE DEF r
<1> QED BY <1>1, <1>2, <1>3, <1>4, Begun

\* An administrator sets the status of a store.
LEMMA ToggleReadsStarts ==
    ASSUME Types, DownInv, NEW h \in Handlers, NEW s \in Stores, NEW to \in Status,
           ToggleReads(h, s, to)
    PROVE  /\ Starts(h, "toggle", {store[s].of}, s, to, {})
           /\ UNCHANGED <<owner, store, stage, placed, crashes>>
<1> DEFINE r == Request("toggle", s, to)
<1>1. Begin(h, {store[s].of}, r)
  BY DEF ToggleReads
<1>2. /\ r \in Requests /\ r.do = "toggle" /\ r.s = s /\ r.to = to
      /\ r.left = {} /\ r.late = {}
  BY RequestFields DEF Dos, Status
<1>3. {store[s].of} \in SUBSET Owners
  BY Owned DEF Created, ToggleReads
<1>4. UNCHANGED <<owner, store, stage, placed, crashes>>
  BY DEF ToggleReads
<1> HIDE DEF r
<1> QED BY <1>1, <1>2, <1>3, <1>4, Begun

\* The owner gives a store up.
LEMMA OwnerReadsStoreStarts ==
    ASSUME Types, DownInv, NEW h \in Handlers, NEW s \in Stores, OwnerReadsStore(h, s)
    PROVE  /\ Starts(h, "delete", {store[s].of}, s, "pending", {})
           /\ UNCHANGED <<owner, store, stage, placed, crashes>>
<1> DEFINE r == Request("delete", s, "pending")
<1>1. Begin(h, {store[s].of}, r)
  BY DEF OwnerReadsStore
<1>2. /\ r \in Requests /\ r.do = "delete" /\ r.s = s /\ r.to = "pending"
      /\ r.left = {} /\ r.late = {}
  BY RequestFields DEF Dos, Status
<1>3. {store[s].of} \in SUBSET Owners
  BY Owned DEF Created, OwnerReadsStore
<1>4. UNCHANGED <<owner, store, stage, placed, crashes>>
  BY DEF OwnerReadsStore
<1> HIDE DEF r
<1> QED BY <1>1, <1>2, <1>3, <1>4, Begun

\* Owners are deactivated in bulk,
LEMMA BulkOwnersReadStarts ==
    ASSUME Types, DownInv, NEW h \in Handlers, NEW P \in SUBSET Owners, BulkOwnersRead(h, P)
    PROVE  /\ \E O \in SUBSET Owners, S \in SUBSET Stores :
                 /\ \A x \in Stores : x \in S <=> store[x].of \in O
                 /\ ActiveAt(S) = {}
                 /\ Starts(h, "bulk_owners", O, None, "none", S \cup O)
           /\ UNCHANGED <<owner, store, stage, placed, crashes>>
<1> DEFINE O == {o \in P : owner[o] = "active"}
           S == UNION {StoresOf(o) : o \in O}
           left == S \cup O
           r == [Idle EXCEPT !.do = "bulk_owners", !.left = left]
<1>1. O \in SUBSET Owners /\ S \in SUBSET Stores /\
        \A x \in Stores : x \in S <=> store[x].of \in O
  BY DEF StoresOf
<1>2. left \in SUBSET (Stores \cup Owners)
  BY <1>1
<1>3. Begin(h, O, r) /\ ActiveAt(S) = {}
  BY DEF BulkOwnersRead
<1>4. UNCHANGED <<owner, store, stage, placed, crashes>>
  BY DEF BulkOwnersRead
<1> HIDE DEF left
<1>5. /\ r \in Requests /\ r.do = "bulk_owners" /\ r.s = None /\ r.to = "none" /\
           r.left = left
      /\ r.late = {}
  BY <1>2 DEF Idle, Requests, Dos
<1> HIDE DEF r, O, S
<1>6. Starts(h, "bulk_owners", O, None, "none", left)
  BY <1>1, <1>3, <1>5, Begun
<1> QED BY <1>1, <1>3, <1>4, <1>6 DEF left

\* ... or stores.
LEMMA BulkStoresReadStarts ==
    ASSUME Types, DownInv, NEW h \in Handlers, NEW P \in SUBSET Stores, BulkStoresRead(h, P)
    PROVE  /\ \E S \in SUBSET Stores, O \in SUBSET Owners :
                 /\ \A x \in S : store[x].of \in O
                 /\ BlockingAt(S) = {}
                 /\ Starts(h, "bulk_stores", O, None, "none", S)
           /\ UNCHANGED <<owner, store, stage, placed, crashes>>
<1> DEFINE S == {s \in P : store[s].account = "active"}
           O == {store[s].of : s \in S}
           r == [Idle EXCEPT !.do = "bulk_stores", !.left = S]
<1>1. S \in SUBSET Stores /\ S \in SUBSET (Stores \cup Owners) /\
        \A x \in S : store[x].of \in O
  OBVIOUS
<1>2. O \in SUBSET Owners
  BY Owned DEF Created
<1>3. Begin(h, O, r) /\ BlockingAt(S) = {}
  BY DEF BulkStoresRead
<1>4. UNCHANGED <<owner, store, stage, placed, crashes>>
  BY DEF BulkStoresRead
<1> HIDE DEF S
<1>5. /\ r \in Requests /\ r.do = "bulk_stores" /\ r.s = None /\ r.to = "none" /\ r.left = S
      /\ r.late = {}
  BY <1>1 DEF Idle, Requests, Dos
<1> HIDE DEF r, O
<1>6. Starts(h, "bulk_stores", O, None, "none", S)
  BY <1>1, <1>2, <1>3, <1>5, Begun
<1> QED BY <1>1, <1>2, <1>3, <1>4, <1>6

\* What store x becomes; the others are as they were.
Sets(x, of, account, verified, online, count) ==
    /\ store' \in [Stores -> StoreType]
    /\ store'[x].of = of /\ store'[x].account = account /\ store'[x].verified = verified
    /\ store'[x].online = online /\ store'[x].count = count
    /\ \A y \in Stores \ {x} : store'[y] = store[y]

\* What a write to a store makes of it, field by field.
LEMMA StoreWritten ==
    ASSUME Types, NEW x \in Stores, NEW q \in StoreType, store' = [store EXCEPT ![x] = q]
    PROVE  Sets(x, q.of, q.account, q.verified, q.online, q.count)
  BY DEF Types, Sets

\* The effect of each action on the stores, one lemma per action that writes one.
\* One of updateMany's writes.
LEMMA TakesDown ==
    ASSUME Types, NEW x \in Stores, store' = TakeDown(x)
    PROVE  Sets(x, store[x].of, "inactive", store[x].verified, FALSE, store[x].count)
<1> DEFINE q == [store[x] EXCEPT !.account = "inactive", !.online = FALSE]
<1>2. store' = [store EXCEPT ![x] = q]
  BY DEF TakeDown, Types
<1>3. store[x] \in StoreType
  BY DEF Types
<1>1. /\ q \in StoreType
      /\ q.of = store[x].of
      /\ q.account = "inactive"
      /\ q.verified = store[x].verified
      /\ q.online = FALSE
      /\ q.count = store[x].count
  BY <1>3 DEF StoreType, Status
<1> HIDE DEF q
<1> QED BY <1>1, <1>2, StoreWritten

\* The administrator's form.
LEMMA AdminUpdates ==
    ASSUME Types, NEW x \in Stores, NEW verified \in BOOLEAN, AdminUpdatesStore(x, verified)
    PROVE  Sets(x, store[x].of, store[x].account, verified, store[x].online, store[x].count)
<1> DEFINE q == [store[x] EXCEPT !.verified = verified]
<1>2. store' = [store EXCEPT ![x] = q]
  BY DEF AdminUpdatesStore, Types
<1>3. store[x] \in StoreType
  BY DEF Types
<1>1. /\ q \in StoreType
      /\ q.of = store[x].of
      /\ q.account = store[x].account
      /\ q.verified = verified
      /\ q.online = store[x].online
      /\ q.count = store[x].count
  BY <1>3 DEF StoreType, Status
<1> HIDE DEF q
<1> QED BY <1>1, <1>2, StoreWritten

\* The sign-in of a store.
LEMMA SignInSets ==
    ASSUME Types, NEW h \in Handlers, SignInWrites(h), handler[h].s \in Stores
    PROVE  Sets(handler[h].s, store[handler[h].s].of, store[handler[h].s].account,
                TRUE, store[handler[h].s].online, store[handler[h].s].count)
<1> DEFINE q == [store[handler[h].s] EXCEPT !.verified = TRUE]
<1>2. store' = [store EXCEPT ![handler[h].s] = q]
  BY DEF SignInWrites, Types
<1>3. store[handler[h].s] \in StoreType
  BY DEF Types
<1>1. /\ q \in StoreType
      /\ q.of = store[handler[h].s].of
      /\ q.account = store[handler[h].s].account
      /\ q.verified = TRUE
      /\ q.online = store[handler[h].s].online
      /\ q.count = store[handler[h].s].count
  BY <1>3 DEF StoreType, Status
<1> HIDE DEF q
<1> QED BY <1>1, <1>2, StoreWritten

\* The switch of the owner or the store.
LEMMA GoOnlineSets ==
    ASSUME Types, NEW h \in Handlers, GoOnline(h), handler[h].s \in Stores
    PROVE  Sets(handler[h].s, store[handler[h].s].of, store[handler[h].s].account,
                store[handler[h].s].verified, At(h, "go_online"), store[handler[h].s].count)
<1> DEFINE v == At(h, "go_online")
<1>0. v \in BOOLEAN
  BY DEF Types, StoreType, At
<1> DEFINE q == [store[handler[h].s] EXCEPT !.online = v]
<1>2. store' = [store EXCEPT ![handler[h].s] = q]
  BY DEF GoOnline, Types
<1> HIDE DEF v
<1>3. store[handler[h].s] \in StoreType
  BY DEF Types
<1>1. /\ q \in StoreType
      /\ q.of = store[handler[h].s].of
      /\ q.account = store[handler[h].s].account
      /\ q.verified = store[handler[h].s].verified
      /\ q.online = v
      /\ q.count = store[handler[h].s].count
  BY <1>3, <1>0 DEF StoreType, Status
<1> HIDE DEF q
<1> QED BY <1>1, <1>2, StoreWritten DEF v

\* The administrator's switch, if it writes.
LEMMA DutySets ==
    ASSUME Types, NEW h \in Handlers, UpdateStoreOnline(h), store' # store,
           handler[h].s \in Stores
    PROVE  Sets(handler[h].s, store[handler[h].s].of, store[handler[h].s].account,
                store[handler[h].s].verified, At(h, "duty_on"), store[handler[h].s].count)
<1> DEFINE v == At(h, "duty_on")
<1>0. v \in BOOLEAN
  BY DEF Types, StoreType, At
<1> DEFINE q == [store[handler[h].s] EXCEPT !.online = v]
<1>2. store' = [store EXCEPT ![handler[h].s] = q]
  BY DEF UpdateStoreOnline, Types
<1> HIDE DEF v
<1>3. store[handler[h].s] \in StoreType
  BY DEF Types
<1>1. /\ q \in StoreType
      /\ q.of = store[handler[h].s].of
      /\ q.account = store[handler[h].s].account
      /\ q.verified = store[handler[h].s].verified
      /\ q.online = v
      /\ q.count = store[handler[h].s].count
  BY <1>3, <1>0 DEF StoreType, Status
<1> HIDE DEF q
<1> QED BY <1>1, <1>2, StoreWritten DEF v

\* A status is written.
LEMMA ToggleSets ==
    ASSUME Types, NEW h \in Handlers, ToggleStoreStatus(h), handler[h].s \in Stores,
           handler[h].to \in Status
    PROVE  Sets(handler[h].s, store[handler[h].s].of, handler[h].to,
                store[handler[h].s].verified, (store[handler[h].s].online /\
                  handler[h].to = "active"), store[handler[h].s].count)
<1> DEFINE v == store[handler[h].s].online /\ handler[h].to = "active"
<1>0. v \in BOOLEAN
  BY DEF Types, StoreType, At
<1> DEFINE q == [store[handler[h].s] EXCEPT !.account = handler[h].to, !.online = v]
<1>2. store' = [store EXCEPT ![handler[h].s] = q]
  BY DEF ToggleStoreStatus, Types
<1> HIDE DEF v
<1>3. store[handler[h].s] \in StoreType
  BY DEF Types
<1>1. /\ q \in StoreType
      /\ q.of = store[handler[h].s].of
      /\ q.account = handler[h].to
      /\ q.verified = store[handler[h].s].verified
      /\ q.online = v
      /\ q.count = store[handler[h].s].count
  BY <1>3, <1>0 DEF StoreType, Status
<1> HIDE DEF q
<1> QED BY <1>1, <1>2, StoreWritten DEF v

\* A store is given up.
LEMMA DeleteSets ==
    ASSUME Types, NEW h \in Handlers, DeleteStore(h), handler[h].s \in Stores
    PROVE  Sets(handler[h].s, store[handler[h].s].of, "pending", FALSE, FALSE,
                store[handler[h].s].count)
<1> DEFINE q == [store[handler[h].s] EXCEPT !.account = "pending", !.verified = FALSE,
             !.online = FALSE]
<1>2. store' = [store EXCEPT ![handler[h].s] = q]
  BY DEF DeleteStore, Types
<1>3. store[handler[h].s] \in StoreType
  BY DEF Types
<1>1. /\ q \in StoreType
      /\ q.of = store[handler[h].s].of
      /\ q.account = "pending"
      /\ q.verified = FALSE
      /\ q.online = FALSE
      /\ q.count = store[handler[h].s].count
  BY <1>3 DEF StoreType, Status
<1> HIDE DEF q
<1> QED BY <1>1, <1>2, StoreWritten

\* An owner creates a store.
LEMMA OwnerCreates ==
    ASSUME Types, NEW o \in Owners, NEW x \in Stores, OwnerCreatesStore(o, x)
    PROVE  Sets(x, o, "pending", FALSE, FALSE, 0)
<1> DEFINE q == [NoStore EXCEPT !.of = o, !.account = "pending"]
<1>1. /\ q \in StoreType /\ q.of = o /\ q.account = "pending" /\ q.verified = FALSE
      /\ q.online = FALSE /\ q.count = 0
  BY DEF StoreType, Status, NoStore
<1>2. store' = [store EXCEPT ![x] = q]
  BY DEF OwnerCreatesStore
<1> HIDE DEF q
<1> QED BY <1>1, <1>2, StoreWritten

\* An administrator does, unless somebody was faster.
LEMMA AdminCreates ==
    ASSUME Types, NEW h \in Handlers, AdminCreatesStore(h), Whose(h)
    PROVE  /\ handler[h].s \in Stores
           /\ \/ store' = store
              \/ /\ handler[h].s \notin Created
                 /\ \E o \in handler[h].os : Sets(handler[h].s, o, "pending", TRUE,
                      FALSE, 0)
<1> DEFINE o == CHOOSE y \in handler[h].os : TRUE
           q == [NoStore EXCEPT !.of = o, !.account = "pending", !.verified = TRUE]
<1>1. handler[h].s \in Stores /\ handler[h].os # {} /\ handler[h].os \subseteq Owners
  BY Fields DEF AdminCreatesStore, At, Whose
<1>2. o \in handler[h].os /\ o \in Owners
  BY <1>1
<1>3. store' = IF handler[h].s \in Created THEN store ELSE [store EXCEPT ![handler[h].s] = q]
  BY DEF AdminCreatesStore
<1> HIDE DEF o
<1>4. /\ q \in StoreType /\ q.of = o /\ q.account = "pending" /\ q.verified = TRUE
      /\ q.online = FALSE /\ q.count = 0
  BY <1>2 DEF StoreType, Status, NoStore
<1> HIDE DEF q
<1>5. CASE handler[h].s \in Created
  BY <1>1, <1>3, <1>5
<1>6. CASE handler[h].s \notin Created
  <2>1. Sets(handler[h].s, q.of, q.account, q.verified, q.online, q.count)
    BY <1>1, <1>3, <1>4, <1>6, StoreWritten
  <2> QED BY <1>1, <1>2, <1>4, <1>6, <2>1
<1> QED BY <1>5, <1>6

\* Only the count changes.
LEMMA CountSets ==
    ASSUME Types, NEW x \in Stores, NEW n \in Nat, store' = [store EXCEPT ![x].count = n]
    PROVE  Sets(x, store[x].of, store[x].account, store[x].verified, store[x].online, n)
<1> DEFINE q == [store[x] EXCEPT !.count = n]
<1>1. store[x] \in StoreType
  BY DEF Types
<1>2. /\ q \in StoreType /\ q.of = store[x].of /\ q.account = store[x].account
      /\ q.verified = store[x].verified /\ q.online = store[x].online /\ q.count = n
  BY <1>1 DEF StoreType
<1>3. store' = [store EXCEPT ![x] = q]
  BY DEF Types
<1> HIDE DEF q
<1> QED BY <1>2, <1>3, StoreWritten

\* A booking is in a store from its assignment on.
Where == \A b \in Bookings : stage[b] \in AtStores => placed[b] \in Created

\* A booking is assigned to a store,
LEMMA Assigned ==
    ASSUME Types, NEW b \in Bookings, NEW x \in Stores, AssignStore(b, x)
    PROVE  Sets(x, store[x].of, store[x].account, store[x].verified, store[x].online,
                store[x].count + 1)
<1> DEFINE n == store[x].count + 1
<1>1. n \in Nat
  BY DEF Types, StoreType
<1>2. store' = [store EXCEPT ![x].count = n]
  BY DEF AssignStore, Types
<1> HIDE DEF n
<1> QED BY <1>1, <1>2, CountSets DEF n

\* ... stored there,
LEMMA Confirmed ==
    ASSUME Types, Where, NEW b \in Bookings, ConfirmStored(b)
    PROVE  /\ placed[b] \in Stores
           /\ Sets(placed[b], store[placed[b]].of, store[placed[b]].account,
                   store[placed[b]].verified, store[placed[b]].online,
                   store[placed[b]].count + 1)
<1> DEFINE x == placed[b]
           n == store[x].count + 1
<1>1. x \in Stores
  BY DEF Where, ConfirmStored, Goes, AtStores, Created
<1>2. n \in Nat
  BY <1>1 DEF Types, StoreType
<1>3. store' = [store EXCEPT ![x].count = n]
  BY <1>1 DEF ConfirmStored, Types
<1> HIDE DEF n, x
<1>4. Sets(x, store[x].of, store[x].account, store[x].verified, store[x].online, n)
  BY <1>1, <1>2, <1>3, CountSets
<1> QED BY <1>1, <1>4 DEF n, x

\* ... or cancelled.
LEMMA Cancelled ==
    ASSUME Types, Where, NEW b \in Bookings, CancelBooking(b)
    PROVE  /\ stage[b] \in AtStores /\ placed[b] \in Stores
           /\ \E n \in Nat :
                 /\ n = IF store[placed[b]].count > 0 THEN store[placed[b]].count - 1
                        ELSE store[placed[b]].count
                 /\ Sets(placed[b], store[placed[b]].of, store[placed[b]].account,
                         store[placed[b]].verified, store[placed[b]].online, n)
<1> DEFINE x == placed[b]
           n == IF store[x].count > 0 THEN store[x].count - 1 ELSE store[x].count
<1>1. x \in Stores /\ stage[b] \in AtStores
  BY DEF Where, CancelBooking, Created
<1>2. n \in Nat
  BY <1>1 DEF Types, StoreType
<1>3. store' = [store EXCEPT ![x].count = n]
  BY <1>1 DEF CancelBooking, Types
<1> HIDE DEF n, x
<1>4. Sets(x, store[x].of, store[x].account, store[x].verified, store[x].online, n)
  BY <1>1, <1>2, <1>3, CountSets
<1> QED BY <1>1, <1>2, <1>4 DEF n, x

\* The other steps of a booking that is in a store.
Travelled(b) ==
    /\ UNCHANGED <<owner, store, placed, disturbed, crashes>>
    /\ stage[b] \in AtStores
    /\ \E to \in AtStores \cup {"over"} :
          /\ stage' = [stage EXCEPT ![b] = to]
          /\ IF to \in StoreBlocking /\ stage[b] \notin StoreBlocking THEN Arrives(b)
             ELSE UNCHANGED handler

\* They are all of that form.
LEMMA Travel ==
    ASSUME NEW b \in Bookings, Travels(b) PROVE Travelled(b)
<1>1. ASSUME NEW From, NEW To, From \subseteq AtStores, To \subseteq AtStores \cup {"over"},
             Goes(b, From, To), UNCHANGED store
      PROVE  Travelled(b)
  BY <1>1 DEF Goes, Travelled
<1> USE DEF AtStores, StoreBlocking, AwaitingReturn
<1>2. CASE ArriveAtStore(b)
  BY <1>1, <1>2 DEF Travels, ArriveAtStore
<1>3. CASE MarkStored(b)
  BY <1>1, <1>3 DEF Travels, MarkStored
<1>4. CASE RequestReturn(b)
  BY <1>1, <1>4 DEF Travels, RequestReturn
<1>5. CASE ReturnDriverAccepts(b)
  BY <1>1, <1>5 DEF Travels, ReturnDriverAccepts
<1>6. CASE ReturnSearchFails(b)
  BY <1>1, <1>6 DEF Travels, ReturnSearchFails
<1>7. CASE HandOver(b)
  BY <1>1, <1>7 DEF Travels, HandOver
<1>8. CASE Deliver(b)
  BY <1>1, <1>8 DEF Travels, Deliver
<1>9. CASE AssignPickupDriver(b)
  BY <1>1, <1>9 DEF Travels, AssignPickupDriver
<1>10. CASE AssignReturnDriver(b)
  BY <1>1, <1>10 DEF Travels, AssignReturnDriver
<1>11. CASE CriticalCancel(b)
  BY <1>1, <1>11 DEF Travels, CriticalCancel
<1> QED BY <1>2, <1>3, <1>4, <1>5, <1>6, <1>7, <1>8, <1>9, <1>10, <1>11 DEF Travels

\* The count of an owner's bookings ends the request, or lists his stores.
LEMMA CountsOwner ==
    ASSUME Types, NEW h \in Handlers, OwnerStatusCounts(h)
    PROVE  \/ Now(h, "idle", {}, None, "none", {}, {})
           \/ \E S \in SUBSET Stores :
                 /\ \A x \in Stores : x \in S <=> store[x].of \in handler[h].os
                 /\ ActiveAt(S) = {}
                 /\ Now(h, "owner_stores", handler[h].os, handler[h].s, handler[h].to,
                      S, {})
<1> DEFINE S == UNION {StoresOf(o) : o \in handler[h].os}
<1>1. S \in SUBSET Stores /\ \A x \in Stores : x \in S <=> store[x].of \in handler[h].os
  BY DEF StoresOf
<1>2. \/ End(h)
      \/ /\ ActiveAt(S) = {}
         /\ handler' = [handler EXCEPT ![h].do = "owner_stores", ![h].left = S,
              ![h].late = {}]
  BY DEF OwnerStatusCounts
<1> HIDE DEF S
<1>3. CASE End(h)
  BY <1>3, Ended
<1>4. CASE handler' = [handler EXCEPT ![h].do = "owner_stores", ![h].left = S,
             ![h].late = {}]
  <2>1. Now(h, "owner_stores", handler[h].os, handler[h].s, handler[h].to, S, {})
    BY <1>1, <1>4, CountedStores
  <2> QED BY <1>1, <1>2, <1>3, <2>1
<1> QED BY <1>2, <1>3, <1>4

\* The writes of a list of stores, one of them taken down, or the list is done.
Takes(h, x) ==
    /\ Sets(x, store[x].of, "inactive", store[x].verified, FALSE, store[x].count)
    /\ Now(h, handler[h].do, handler[h].os, handler[h].s, handler[h].to,
           handler[h].left \ {x}, handler[h].late)

\* A step along the list of an owner's stores,
LEMMA DeactivatesStores ==
    ASSUME Types, NEW h \in Handlers, DeactivateOwnerStores(h), Whose(h)
    PROVE  /\ handler[h].left \subseteq Stores
           /\ \/ \E x \in handler[h].left : Takes(h, x)
              \/ /\ handler[h].left = {} /\ store' = store
                 /\ Now(h, "owner_write", handler[h].os, handler[h].s, handler[h].to,
                        handler[h].left, handler[h].late)
<1>1. handler[h].left \subseteq Stores
  BY DEF Whose, DeactivateOwnerStores, At
<1>2. ASSUME NEW x \in handler[h].left, store' = TakeDown(x),
             handler' = [handler EXCEPT ![h].left = @ \ {x}]
      PROVE  Takes(h, x)
  BY <1>1, <1>2, TakesDown, Passed DEF Takes
<1>3. CASE handler[h].left = {} /\ Go(h, "owner_write") /\ UNCHANGED store
  BY <1>1, <1>3, Gone DEF Dos
<1> QED BY <1>1, <1>2, <1>3 DEF DeactivateOwnerStores

\* ... of stores,
LEMMA BulkTakesStores ==
    ASSUME Types, NEW h \in Handlers, BulkStoresWrite(h), Whose(h)
    PROVE  /\ handler[h].left \subseteq Stores
           /\ \/ \E x \in handler[h].left : Takes(h, x)
              \/ store' = store /\ Now(h, "idle", {}, None, "none", {}, {})
<1>1. handler[h].left \subseteq Stores
  BY DEF Whose, BulkStoresWrite, At
<1>2. ASSUME NEW x \in handler[h].left, store' = TakeDown(x),
             handler' = [handler EXCEPT ![h].left = @ \ {x}]
      PROVE  Takes(h, x)
  BY <1>1, <1>2, TakesDown, Passed DEF Takes
<1>3. CASE End(h) /\ UNCHANGED store
  BY <1>1, <1>3, Ended
<1> QED BY <1>1, <1>2, <1>3 DEF BulkStoresWrite

\* ... or of owners and their stores.
LEMMA BulkTakesOwners ==
    ASSUME Types, NEW h \in Handlers, BulkOwnersWrite(h)
    PROVE  \/ \E x \in handler[h].left \cap Stores : Takes(h, x) /\ owner' = owner
           \/ \E x \in handler[h].left \cap Owners :
                 /\ owner' = [owner EXCEPT ![x] = "inactive"] /\ store' = store
                 /\ Now(h, handler[h].do, handler[h].os, handler[h].s, handler[h].to,
                        handler[h].left \ {x}, handler[h].late)
           \/ /\ handler[h].left = {} /\ store' = store /\ owner' = owner
              /\ Now(h, "idle", {}, None, "none", {}, {})
<1>1. handler[h].left \subseteq Stores \cup Owners
  BY Fields
<1>2. ASSUME NEW x \in handler[h].left \cap Stores, store' = TakeDown(x),
             handler' = [handler EXCEPT ![h].left = @ \ {x}]
      PROVE  Takes(h, x)
  BY <1>2, TakesDown, Passed DEF Takes
<1>3. ASSUME NEW x \in handler[h].left, handler' = [handler EXCEPT ![h].left = @ \ {x}]
      PROVE  Now(h, handler[h].do, handler[h].os, handler[h].s, handler[h].to,
                 handler[h].left \ {x}, handler[h].late)
  BY <1>3, Passed
<1>4. CASE handler[h].left = {} /\ End(h) /\ UNCHANGED <<owner, store>>
  BY <1>4, Ended
<1>5. ASSUME NEW x \in handler[h].left, handler' = [handler EXCEPT ![h].left = @ \ {x}],
             IF x \in Owners THEN owner' = [owner EXCEPT ![x] = "inactive"] /\
               UNCHANGED store
             ELSE store' = TakeDown(x) /\ UNCHANGED owner
      PROVE  \/ \E y \in handler[h].left \cap Stores : Takes(h, y) /\ owner' = owner
             \/ \E y \in handler[h].left \cap Owners :
                 /\ owner' = [owner EXCEPT ![y] = "inactive"] /\ store' = store
                 /\ Now(h, handler[h].do, handler[h].os, handler[h].s, handler[h].to,
                        handler[h].left \ {y}, handler[h].late)
  BY <1>1, <1>2, <1>3, <1>5
<1> QED BY <1>4, <1>5 DEF BulkOwnersWrite

\* Every request that is about to take stores out hears of a booking that arrives.
LEMMA HearsOf ==
    ASSUME Types, NEW b \in Bookings, Arrives(b)
    PROVE  /\ handler' \in [Handlers -> Requests] /\ SameRequests
           /\ \A h \in Handlers : handler[h].late \subseteq handler'[h].late
           /\ \A h \in Handlers : TakesOut(h) => b \in handler'[h].late
<1>1. ASSUME NEW h \in Handlers
      PROVE  /\ handler[h] \in Requests
             /\ [handler[h] EXCEPT !.late = @ \cup {b}] \in Requests
             /\ [handler[h] EXCEPT !.late = @ \cup {b}].do = handler[h].do
             /\ [handler[h] EXCEPT !.late = @ \cup {b}].os = handler[h].os
             /\ [handler[h] EXCEPT !.late = @ \cup {b}].s = handler[h].s
             /\ [handler[h] EXCEPT !.late = @ \cup {b}].to = handler[h].to
             /\ [handler[h] EXCEPT !.late = @ \cup {b}].left = handler[h].left
             /\ [handler[h] EXCEPT !.late = @ \cup {b}].late = handler[h].late \cup {b}
  BY <1>1, Fields DEF Requests
<1>2. \A h \in Handlers :
         handler'[h] = IF TakesOut(h) THEN [handler[h] EXCEPT !.late = @ \cup {b}]
                       ELSE handler[h]
  BY DEF Arrives
<1>3. handler' \in [Handlers -> Requests]
  BY <1>1 DEF Arrives
<1>4. SameRequests
  <2> SUFFICES ASSUME NEW h \in Handlers
               PROVE  /\ handler'[h].do = handler[h].do /\ handler'[h].os = handler[h].os
                      /\ handler'[h].s = handler[h].s /\ handler'[h].to = handler[h].to
                      /\ handler'[h].left = handler[h].left
                      /\ handler[h] = Idle => handler'[h] = Idle
    BY DEF SameRequests
  <2>1. CASE TakesOut(h)
    BY <1>1, <1>2, <2>1, IdleFields DEF TakesOut, At
  <2>2. CASE ~TakesOut(h)
    BY <1>2, <2>2
  <2> QED BY <2>1, <2>2
<1>5. \A h \in Handlers : /\ handler[h].late \subseteq handler'[h].late
                          /\ TakesOut(h) => b \in handler'[h].late
  BY <1>1, <1>2
<1> QED BY <1>3, <1>4, <1>5

\* What a booking that travels leaves to the requests.
LEMMA TravelHeard ==
    ASSUME Types, NEW b \in Bookings, Travelled(b)
    PROVE  /\ handler' \in [Handlers -> Requests] /\ SameRequests
           /\ stage' \in [Bookings -> Stages]
           /\ \A h \in Handlers : handler[h].late \subseteq handler'[h].late
           /\ \A c \in Bookings : c # b => stage'[c] = stage[c]
           /\ stage'[b] \in StoreBlocking =>
                 \/ stage[b] \in StoreBlocking
                 \/ \A h \in Handlers : TakesOut(h) => b \in handler'[h].late
<1>1. PICK to \in AtStores \cup {"over"} :
         /\ stage' = [stage EXCEPT ![b] = to]
         /\ IF to \in StoreBlocking /\ stage[b] \notin StoreBlocking THEN Arrives(b)
            ELSE UNCHANGED handler
  BY DEF Travelled
<1>2. stage' \in [Bookings -> Stages] /\ stage'[b] = to
      /\ \A c \in Bookings : c # b => stage'[c] = stage[c]
  BY <1>1 DEF Types, Stages
<1>3. CASE UNCHANGED handler /\ ~(to \in StoreBlocking /\ stage[b] \notin StoreBlocking)
  BY <1>2, <1>3 DEF SameRequests, Types
<1>4. CASE Arrives(b)
  BY <1>2, <1>4, HearsOf
<1> QED BY <1>1, <1>2, <1>3, <1>4

\* The same of luggage that is stored.
LEMMA ConfirmHeard ==
    ASSUME Types, NEW b \in Bookings, ConfirmStored(b)
    PROVE  /\ handler' \in [Handlers -> Requests] /\ SameRequests
           /\ stage' \in [Bookings -> Stages] /\ stage[b] \in AtStores
           /\ \A h \in Handlers : handler[h].late \subseteq handler'[h].late
           /\ \A c \in Bookings : c # b => stage'[c] = stage[c]
           /\ \A h \in Handlers : TakesOut(h) => b \in handler'[h].late
<1>1. Arrives(b) /\ stage' = [stage EXCEPT ![b] = "stored"] /\ stage[b] = "at_store"
  BY DEF ConfirmStored, Goes, StoreBlocking
<1> QED BY <1>1, HearsOf DEF Types, Stages, AtStores, StoreBlocking

\* Every action keeps the types.
LEMMA TypeStep == Types /\ DownInv /\ Where /\ [Next]_vars => Types'
<1> SUFFICES ASSUME Types, DownInv, Where, [Next]_vars PROVE Types'
  OBVIOUS
<1>1. ASSUME NEW o \in Owners, NewOwner(o) PROVE Types'
  BY <1>1 DEF Types, NewOwner, Status
<1>2. ASSUME NEW o \in Owners, NEW s \in Stores, OwnerCreatesStore(o, s) PROVE Types'
  BY <1>2, OwnerCreates DEF Types, OwnerCreatesStore, Sets
<1>3. ASSUME NEW h \in Handlers, NEW o \in Owners, OwnerSignsIn(h, o) PROVE Types'
  BY <1>3, OwnerSignsInStarts DEF Types, Starts, Now
<1>4. ASSUME NEW h \in Handlers, NEW o \in Owners, NEW to \in Status,
             OwnerStatusReads(h, o, to)
      PROVE  Types'
  BY <1>4, OwnerStatusReadsStarts DEF Types, Starts, Now
<1>5. ASSUME NEW h \in Handlers, NEW o \in Owners, NEW s \in Stores,
             AdminReadsOwner(h, o, s)
      PROVE  Types'
  BY <1>5, AdminReadsOwnerStarts DEF Types, Starts, Now
<1>6. ASSUME NEW h \in Handlers, NEW s \in Stores, StoreSignsIn(h, s) PROVE Types'
  BY <1>6, StoreSignsInStarts DEF Types, Starts, Now
<1>7. ASSUME NEW h \in Handlers, NEW s \in Stores, OwnerGoesOnline(h, s) PROVE Types'
  BY <1>7, OwnerGoesOnlineStarts DEF Types, Starts, Now
<1>8. ASSUME NEW h \in Handlers, NEW s \in Stores, StoreGoesOnline(h, s) PROVE Types'
  BY <1>8, StoreGoesOnlineStarts DEF Types, Starts, Now
<1>9. ASSUME NEW h \in Handlers, NEW s \in Stores, AdminReadsDuty(h, s) PROVE Types'
  BY <1>9, AdminReadsDutyStarts DEF Types, Starts, Now
<1>10. ASSUME NEW h \in Handlers, NEW s \in Stores, NEW to \in Status,
              ToggleReads(h, s, to)
       PROVE  Types'
  BY <1>10, ToggleReadsStarts DEF Types, Starts, Now
<1>11. ASSUME NEW h \in Handlers, NEW s \in Stores, OwnerReadsStore(h, s) PROVE Types'
  BY <1>11, OwnerReadsStoreStarts DEF Types, Starts, Now
<1>12. ASSUME NEW h \in Handlers, NEW P \in SUBSET Owners, BulkOwnersRead(h, P)
       PROVE  Types'
  BY <1>12, BulkOwnersReadStarts DEF Types, Starts, Now
<1>13. ASSUME NEW h \in Handlers, NEW P \in SUBSET Stores, BulkStoresRead(h, P)
       PROVE  Types'
  BY <1>13, BulkStoresReadStarts DEF Types, Starts, Now
<1>14. ASSUME NEW s \in Stores, NEW verified \in BOOLEAN, AdminUpdatesStore(s, verified)
       PROVE  Types'
  BY <1>14, AdminUpdates DEF Types, AdminUpdatesStore, Sets
<1>15. ASSUME NEW b \in Bookings, ConfirmStored(b) PROVE Types'
  BY <1>15, Confirmed, ConfirmHeard DEF Types, ConfirmStored, Goes, Sets
<1>16. ASSUME NEW b \in Bookings, CancelBooking(b) PROVE Types'
  BY <1>16, Cancelled DEF Types, CancelBooking, Sets, Stages
<1>17. ASSUME NEW b \in Bookings, Travels(b) PROVE Types'
  BY <1>17, Travel, TravelHeard DEF Types, Travelled
<1>18. ASSUME NEW b \in Bookings, NEW s \in Stores, AssignStore(b, s) PROVE Types'
  BY <1>18, HearsOf, Assigned DEF Types, AssignStore, Sets, Stages, AtStores, StoreBlocking
<1>19. ASSUME NEW h \in Handlers, OwnerStatusCounts(h) PROVE Types'
  BY <1>19, CountsOwner DEF Types, OwnerStatusCounts, Now
<1>20. ASSUME NEW h \in Handlers, DeactivateOwnerStores(h) PROVE Types'
  BY <1>20, DeactivatesStores
     DEF DownInv, Types, DeactivateOwnerStores, Now, Takes, Sets
<1>21. ASSUME NEW h \in Handlers, WriteOwner(h) PROVE Types'
  BY <1>21, Ended, Fields DEF Types, WriteOwner, Now
<1>22. ASSUME NEW h \in Handlers, BulkOwnersWrite(h) PROVE Types'
  BY <1>22, BulkTakesOwners DEF Types, BulkOwnersWrite, Now, Takes, Sets, Status
<1>23. ASSUME NEW h \in Handlers, AdminCreatesStore(h) PROVE Types'
  BY <1>23, AdminCreates, Ended DEF DownInv, Types, AdminCreatesStore, Now, Sets
<1>24. ASSUME NEW h \in Handlers, SignInWrites(h) PROVE Types'
  <2>1. handler[h].s \in Stores
    BY <1>24 DEF DownInv, Whose, SignInWrites, At, ToOneStore
  <2> QED BY <1>24, <2>1, SignInSets, Ended DEF Types, SignInWrites, Now, Sets
<1>25. ASSUME NEW h \in Handlers, GoOnline(h) PROVE Types'
  <2>1. handler[h].s \in Stores
    BY <1>25 DEF DownInv, Whose, GoOnline, At, ToOneStore
  <2> QED BY <1>25, <2>1, GoOnlineSets, Ended DEF Types, GoOnline, Now, Sets
<1>26. ASSUME NEW h \in Handlers, UpdateStoreOnline(h) PROVE Types'
  <2>1. handler[h].s \in Stores
    BY <1>26 DEF DownInv, Whose, UpdateStoreOnline, ToOneStore
  <2>2. store' \in [Stores -> StoreType]
    BY <1>26, <2>1, DutySets DEF Sets, Types
  <2> QED BY <1>26, <2>2, Ended DEF Types, UpdateStoreOnline, Now
<1>27. ASSUME NEW h \in Handlers, ToggleStoreStatus(h) PROVE Types'
  <2>1. handler[h].s \in Stores /\ handler[h].to \in Status
    BY <1>27 DEF DownInv, Whose, ToggleStoreStatus, At, ToOneStore
  <2> QED BY <1>27, <2>1, ToggleSets, Ended DEF Types, ToggleStoreStatus, Now, Sets
<1>28. ASSUME NEW h \in Handlers, BulkStoresWrite(h) PROVE Types'
  BY <1>28, BulkTakesStores DEF DownInv, Types, BulkStoresWrite, Now, Takes, Sets
<1>29. ASSUME NEW h \in Handlers, DeleteStore(h) PROVE Types'
  <2>1. handler[h].s \in Stores
    BY <1>29 DEF DownInv, Whose, DeleteStore, At, ToOneStore
  <2> QED BY <1>29, <2>1, DeleteSets, Ended DEF Types, DeleteStore, Now, Sets
<1>30. ASSUME NEW h \in Handlers, Crash(h) PROVE Types'
  <2>1. /\ crashes' \in Nat /\ disturbed' \subseteq Owners
        /\ UNCHANGED <<owner, store, stage, placed>> /\ End(h)
    BY <1>30, Fields DEF Types, Crash
  <2> QED BY <2>1, Ended DEF Types, Now
<1>31. CASE UNCHANGED vars
  BY <1>31 DEF vars, Types
<1> QED BY <1>1, <1>2, <1>3, <1>4, <1>5, <1>6, <1>7, <1>8, <1>9, <1>10, <1>11,
           <1>12, <1>13, <1>14, <1>15, <1>16, <1>17, <1>18,
           <1>19, <1>20, <1>21, <1>22, <1>23, <1>24, <1>25, <1>26, <1>27, <1>28,
           <1>29, <1>30, <1>31
           DEF Next, Step, Status

(* Requests that go on or end. *)

\* An undisturbed owner who is down, and whose request is no bulk request, has
\* his stores out of service.
LEMMA StandsBelow ==
    ASSUME Types, DownInv, NEW h \in Handlers, handler[h].do # "bulk_owners",
           NEW x \in Stores,
           store[x].of \in handler[h].os \ disturbed, owner[store[x].of] \in Down
    PROVE  OutOfService(x)
<1> SUFFICES ASSUME ~OutOfService(x) PROVE FALSE
  OBVIOUS
<1>1. store[x].of \in Owners
  BY Fields
<1>2. PICK g \in Handlers : handler[g].do = "bulk_owners" /\ x \in handler[g].left
  BY <1>1 DEF DownInv, OwnerDownStoresDown, StoresOf, OutOfService, At
<1>3. store[x].of \in handler[g].os /\ g # h
  BY <1>2 DEF DownInv, Whose
<1> QED BY <1>3 DEF DownInv, Alone

\* A request ends.
LEMMA EndKeeps ==
    ASSUME Types, Types', DownInv, NEW h \in Handlers,
           Now(h, "idle", {}, None, "none", {}, {}), disturbed \subseteq disturbed',
             Touches(h),
           \/ \A x \in Stores : store'[x].of \in handler[h].os \ disturbed'
                                  /\ owner'[store'[x].of] \in Down => OutOfService(x)'
           \/ /\ UNCHANGED <<owner, store>>
              /\ handler[h].do = "bulk_owners" => handler[h].os \subseteq disturbed'
    PROVE  DownInv'
<1>1. handler'[h] = Idle
  BY DEF Now, Idle, Requests
<1>2. Whose(h)' /\ OwnerUp(h)' /\ TakenDown(h)'
  BY <1>1 DEF Now, Whose, ToOneStore, OwnerUp, TakenDown
<1>3. \A x \in Stores : store'[x].of \in handler[h].os \ disturbed'
                           /\ owner'[store'[x].of] \in Down => OutOfService(x)'
  BY StandsBelow DEF OutOfService
<1> QED BY <1>2, <1>3, StepKeeps

\* A request writes one store and ends.  It leaves an owner who is down and
\* undisturbed with a store out of service.
LEMMA OneWritten ==
    ASSUME Types, Types', DownInv, NEW h \in Handlers, handler[h].do \in ToOneStore,
           handler[h].s \in Stores, store[handler[h].s].of \in handler[h].os,
           Now(h, "idle", {}, None, "none", {}, {}), UNCHANGED <<owner, disturbed>>,
           store'[handler[h].s].of = store[handler[h].s].of,
           store'[handler[h].s].account \in {store[handler[h].s].account} \cup Status,
           \A x \in Stores : x # handler[h].s => store'[x] = store[x],
           \/ store'[handler[h].s].account # "active" /\ ~store'[handler[h].s].online
           \/ /\ store'[handler[h].s].account = "active"
                => store[handler[h].s].account = "active"
              /\ store'[handler[h].s].online => store[handler[h].s].online
           \/ store[handler[h].s].of \in disturbed
           \/ owner[store[handler[h].s].of] \notin Down
    PROVE  DownInv'
<1> DEFINE s == handler[h].s
<1>1. \A x \in Stores : store'[x].of = store[x].of
  OBVIOUS
<1>2. \A x \in Stores : x # s => store'[x] = store[x]
  OBVIOUS
<1>3. Touches(h)
  BY <1>1, <1>2 DEF Touches, Created
<1>4. ASSUME NEW x \in Stores, store'[x].of \in handler[h].os \ disturbed',
             owner'[store'[x].of] \in Down
      PROVE  OutOfService(x)'
  <2>1. OutOfService(x)
    BY <1>1, <1>4, StandsBelow DEF ToOneStore
  <2>2. CASE x # s
    BY <1>2, <2>1, <2>2 DEF OutOfService
  <2>3. CASE x = s
    BY <1>1, <1>4, <2>1, <2>3 DEF OutOfService
  <2> QED BY <2>2, <2>3
<1> QED BY <1>3, <1>4, EndKeeps

\* A request takes down one of its stores.
LEMMA TakesKeeps ==
    ASSUME Types, Types', DownInv, NEW h \in Handlers,
           handler[h].do \in {"owner_stores", "bulk_owners", "bulk_stores"},
           NEW x \in handler[h].left, x \in Stores, Takes(h, x), UNCHANGED <<owner,
             disturbed>>
    PROVE  DownInv'
<1>1. Whose(h) /\ OwnerUp(h) /\ TakenDown(h) /\ store[x].of \in handler[h].os
  BY DEF DownInv, Whose
<1>2. \A y \in Stores : y # x => store'[y] = store[y]
  BY DEF Takes, Sets
<1>3. store'[x].of = store[x].of /\ OutOfService(x)'
  BY DEF Takes, Sets, OutOfService
<1>4. Touches(h)
  BY <1>1, <1>2, <1>3 DEF Touches, Created, Takes, Sets, Status
<1>5. Whose(h)'
  BY <1>1, <1>2, <1>3 DEF Takes, Now, Whose, ToOneStore
<1>6. OwnerUp(h)'
  BY DEF Takes, Now, OwnerUp
<1>7. TakenDown(h)'
  BY <1>1, <1>2, <1>3 DEF Takes, Now, TakenDown, OutOfService
<1>8. ASSUME NEW y \in Stores, store'[y].of \in handler[h].os \ disturbed',
             owner'[store'[y].of] \in Down
      PROVE  OutOfService(y)' \/ (handler[h].do = "bulk_owners" /\
               y \in handler[h].left \ {x})
  <2>1. CASE y = x
    BY <1>3, <2>1
  <2>2. CASE y # x
    <3>1. store[y].of \in handler[h].os \ disturbed /\ owner[store[y].of] \in Down
      BY <1>2, <1>8, <2>2
    <3>2. OutOfService(y) \/ (handler[h].do = "bulk_owners" /\ y \in handler[h].left)
      BY <1>1, <3>1, StandsBelow DEF TakenDown
    <3> QED BY <1>2, <2>2, <3>2 DEF OutOfService
  <2> QED BY <2>1, <2>2
<1> QED BY <1>4, <1>5, <1>6, <1>7, <1>8, StepKeeps DEF Takes

\* Every action keeps DownInv.
LEMMA DownStep == Types /\ Types' /\ DownInv /\ Where /\ [Next]_vars => DownInv'
<1> SUFFICES ASSUME Types, Types', DownInv, Where, [Next]_vars PROVE DownInv'
  OBVIOUS
<1>1. ASSUME NEW o \in Owners, NewOwner(o) PROVE DownInv'
  BY <1>1, PlainKeeps DEF NewOwner, SameRequests, Types, Down
<1>2. ASSUME NEW o \in Owners, NEW s \in Stores, OwnerCreatesStore(o, s) PROVE DownInv'
  <2>1. Sets(s, o, "pending", FALSE, FALSE, 0) /\ s \notin Created
    BY <1>2, OwnerCreates DEF OwnerCreatesStore
  <2>2. store'[s].of = o /\ store'[s].account \in Status /\ OutOfService(s)'
    BY <2>1 DEF Sets, OutOfService, Status
  <2>3. \A x \in Stores : x # s => store'[x] = store[x]
    BY <2>1 DEF Sets
  <2>4. SameRequests /\ UNCHANGED <<owner, disturbed>>
    BY <1>2 DEF OwnerCreatesStore, SameRequests
  <2> QED BY <2>1, <2>2, <2>3, <2>4, PlainKeeps
<1>3. ASSUME NEW h \in Handlers, NEW o \in Owners, OwnerSignsIn(h, o) PROVE DownInv'
  <2>1. /\ Starts(h, "owner_write", {o}, None, "active", {})
        /\ UNCHANGED <<owner, store>>
    BY <1>3, OwnerSignsInStarts
  <2> QED BY <1>3, <2>1, StartKeeps DEF ToOneStore, Down
<1>4. ASSUME NEW h \in Handlers, NEW o \in Owners, NEW to \in Status,
             OwnerStatusReads(h, o, to)
      PROVE  DownInv'
  <2>1. /\ Starts(h, IF to \in Down THEN "owner_count" ELSE "owner_write", {o}, None,
             to, {})
        /\ UNCHANGED <<owner, store>>
    BY <1>4, OwnerStatusReadsStarts
  <2> QED BY <1>4, <2>1, StartKeeps DEF ToOneStore
<1>5. ASSUME NEW h \in Handlers, NEW o \in Owners, NEW s \in Stores,
             AdminReadsOwner(h, o, s)
      PROVE  DownInv'
  <2>1. /\ Starts(h, "create", {o}, s, "pending", {})
        /\ UNCHANGED <<owner, store>>
    BY <1>5, AdminReadsOwnerStarts
  <2> QED BY <1>5, <2>1, StartKeeps DEF ToOneStore
<1>6. ASSUME NEW h \in Handlers, NEW s \in Stores, StoreSignsIn(h, s) PROVE DownInv'
  <2>1. /\ Starts(h, "sign_in", {store[s].of}, s, "none", {})
        /\ UNCHANGED <<owner, store>>
    BY <1>6, StoreSignsInStarts
  <2> QED BY <1>6, <2>1, StartKeeps DEF ToOneStore
<1>7. ASSUME NEW h \in Handlers, NEW s \in Stores, OwnerGoesOnline(h, s) PROVE DownInv'
  <2>1. ASSUME ~store[s].online PROVE store[s].of \in disturbed' \/ owner[store[s].of] \notin Down
    <3>1. store[s].account = "active" /\ store[s].of \in Owners
      BY <1>7, Owned DEF OwnerGoesOnline, Fit, DownInv, Uncreated, Status
    <3>2. SUFFICES ASSUME owner[store[s].of] \in Down, store[s].of \notin disturbed
                   PROVE  store[s].of \in disturbed'
      BY <1>7, OwnerGoesOnlineStarts DEF Starts
    <3>3. PICK g \in Handlers : handler[g].do = "bulk_owners" /\ s \in handler[g].left
      BY <3>1, <3>2 DEF DownInv, OwnerDownStoresDown, StoresOf, At
    <3>4. store[s].of \in handler[g].os
      BY <3>3 DEF DownInv, Whose
    <3>5. g # h
      BY <1>7, OwnerGoesOnlineStarts, <3>3, IdleFields DEF Starts
    <3>6. \A f \in Handlers \ {h} : handler[f].os \cap {store[s].of} \subseteq disturbed'
      BY <1>7, OwnerGoesOnlineStarts DEF Starts
    <3> QED BY <3>4, <3>5, <3>6
  <2>2. CASE store[s].online
    <3>1. Starts(h, "go_offline", {store[s].of}, s, "none", {}) /\ UNCHANGED <<owner,
            store>>
      BY <1>7, <2>2, OwnerGoesOnlineStarts
    <3> QED BY <3>1, StartKeeps DEF ToOneStore
  <2>3. CASE ~store[s].online
    <3>1. Starts(h, "go_online", {store[s].of}, s, "none", {}) /\ UNCHANGED <<owner, store>>
      BY <1>7, <2>3, OwnerGoesOnlineStarts
    <3> QED BY <2>1, <2>3, <3>1, StartKeeps DEF ToOneStore
  <2> QED BY <2>2, <2>3
<1>8. ASSUME NEW h \in Handlers, NEW s \in Stores, StoreGoesOnline(h, s) PROVE DownInv'
  <2>1. ASSUME ~store[s].online PROVE store[s].of \in disturbed' \/ owner[store[s].of] \notin Down
    <3>1. store[s].account = "active" /\ store[s].of \in Owners
      BY <1>8, Owned DEF StoreGoesOnline, Fit, DownInv, Uncreated, Status
    <3>2. SUFFICES ASSUME owner[store[s].of] \in Down, store[s].of \notin disturbed
                   PROVE  store[s].of \in disturbed'
      BY <1>8, StoreGoesOnlineStarts DEF Starts
    <3>3. PICK g \in Handlers : handler[g].do = "bulk_owners" /\ s \in handler[g].left
      BY <3>1, <3>2 DEF DownInv, OwnerDownStoresDown, StoresOf, At
    <3>4. store[s].of \in handler[g].os
      BY <3>3 DEF DownInv, Whose
    <3>5. g # h
      BY <1>8, StoreGoesOnlineStarts, <3>3, IdleFields DEF Starts
    <3>6. \A f \in Handlers \ {h} : handler[f].os \cap {store[s].of} \subseteq disturbed'
      BY <1>8, StoreGoesOnlineStarts DEF Starts
    <3> QED BY <3>4, <3>5, <3>6
  <2>2. CASE store[s].online
    <3>1. Starts(h, "go_offline", {store[s].of}, s, "none", {}) /\ UNCHANGED <<owner,
            store>>
      BY <1>8, <2>2, StoreGoesOnlineStarts
    <3> QED BY <3>1, StartKeeps DEF ToOneStore
  <2>3. CASE ~store[s].online
    <3>1. Starts(h, "go_online", {store[s].of}, s, "none", {}) /\ UNCHANGED <<owner, store>>
      BY <1>8, <2>3, StoreGoesOnlineStarts
    <3> QED BY <2>1, <2>3, <3>1, StartKeeps DEF ToOneStore
  <2> QED BY <2>2, <2>3
<1>9. ASSUME NEW h \in Handlers, NEW s \in Stores, AdminReadsDuty(h, s) PROVE DownInv'
  <2>1. owner[store[s].of] \notin Down
    BY <1>9 DEF AdminReadsDuty, Down
  <2>2. CASE store[s].online
    <3>1. Starts(h, "duty_off", {store[s].of}, s, "none", {}) /\ UNCHANGED <<owner, store>>
      BY <1>9, <2>2, AdminReadsDutyStarts
    <3> QED BY <3>1, StartKeeps DEF ToOneStore
  <2>3. CASE ~store[s].online
    <3>1. Starts(h, "duty_on", {store[s].of}, s, "none", {}) /\ UNCHANGED <<owner, store>>
      BY <1>9, <2>3, AdminReadsDutyStarts
    <3> QED BY <2>1, <3>1, StartKeeps DEF ToOneStore
  <2> QED BY <2>2, <2>3
<1>10. ASSUME NEW h \in Handlers, NEW s \in Stores, NEW to \in Status,
              ToggleReads(h, s, to)
       PROVE  DownInv'
  <2>1. /\ Starts(h, "toggle", {store[s].of}, s, to, {})
        /\ UNCHANGED <<owner, store>>
    BY <1>10, ToggleReadsStarts
  <2> QED BY <1>10, <2>1, StartKeeps DEF ToOneStore, ToggleReads, MayToggle, Down
<1>11. ASSUME NEW h \in Handlers, NEW s \in Stores, OwnerReadsStore(h, s) PROVE DownInv'
  <2>1. /\ Starts(h, "delete", {store[s].of}, s, "pending", {})
        /\ UNCHANGED <<owner, store>>
    BY <1>11, OwnerReadsStoreStarts
  <2> QED BY <1>11, <2>1, StartKeeps DEF ToOneStore
<1>12. ASSUME NEW h \in Handlers, NEW P \in SUBSET Owners, BulkOwnersRead(h, P)
       PROVE  DownInv'
  <2>1. PICK O \in SUBSET Owners, S \in SUBSET Stores :
           /\ \A x \in Stores : x \in S <=> store[x].of \in O
           /\ Starts(h, "bulk_owners", O, None, "none", S \cup O)
    BY <1>12, BulkOwnersReadStarts
  <2>2. UNCHANGED <<owner, store>>
    BY <1>12, BulkOwnersReadStarts
  <2>3. /\ \A x \in (S \cup O) \cap Stores : store[x].of \in O
        /\ (S \cup O) \cap Owners \subseteq O
        /\ \A x \in Stores : store[x].of \in O => x \in S \cup O
    BY <2>1, NetworkAssumption
  <2> QED BY <2>1, <2>2, <2>3, StartKeeps DEF ToOneStore
<1>13. ASSUME NEW h \in Handlers, NEW P \in SUBSET Stores, BulkStoresRead(h, P)
       PROVE  DownInv'
  <2>1. PICK S \in SUBSET Stores, O \in SUBSET Owners :
           /\ \A x \in S : store[x].of \in O
           /\ Starts(h, "bulk_stores", O, None, "none", S)
    BY <1>13, BulkStoresReadStarts
  <2>2. UNCHANGED <<owner, store>>
    BY <1>13, BulkStoresReadStarts
  <2> QED BY <2>1, <2>2, StartKeeps DEF ToOneStore
<1>14. ASSUME NEW s \in Stores, NEW verified \in BOOLEAN, AdminUpdatesStore(s, verified)
       PROVE  DownInv'
  BY <1>14, AdminUpdates, PlainKeeps DEF AdminUpdatesStore, SameRequests, Sets
<1>15. ASSUME NEW b \in Bookings, ConfirmStored(b) PROVE DownInv'
  BY <1>15, Confirmed, ConfirmHeard, PlainKeeps DEF ConfirmStored, Goes, Sets
<1>16. ASSUME NEW b \in Bookings, CancelBooking(b) PROVE DownInv'
  BY <1>16, Cancelled, PlainKeeps DEF CancelBooking, SameRequests, Sets
<1>17. ASSUME NEW b \in Bookings, Travels(b) PROVE DownInv'
  BY <1>17, Travel, TravelHeard, PlainKeeps DEF Travelled
<1>18. ASSUME NEW b \in Bookings, NEW s \in Stores, AssignStore(b, s) PROVE DownInv'
  BY <1>18, HearsOf, Assigned, PlainKeeps DEF AssignStore, Sets
<1>19. ASSUME NEW h \in Handlers, OwnerStatusCounts(h) PROVE DownInv'
  <2>1. Whose(h) /\ OwnerUp(h) /\ TakenDown(h) /\ handler[h].os \subseteq Owners
    BY Fields DEF DownInv
  <2>2. UNCHANGED <<owner, store, disturbed>> /\ handler[h].do = "owner_count"
    BY <1>19 DEF OwnerStatusCounts, At
  <2>3. CASE Now(h, "idle", {}, None, "none", {}, {})
    BY <2>1, <2>2, <2>3, EndKeeps DEF Touches
  <2>4. ASSUME NEW S \in SUBSET Stores,
               \A x \in Stores : x \in S <=> store[x].of \in handler[h].os,
               Now(h, "owner_stores", handler[h].os, handler[h].s, handler[h].to, S, {})
        PROVE  DownInv'
    <3>1. Whose(h)' /\ OwnerUp(h)' /\ TakenDown(h)'
      BY <2>2, <2>4 DEF Now, Whose, ToOneStore, OwnerUp, TakenDown
    <3>2. \A x \in Stores : store[x].of \in handler[h].os \ disturbed /\
            owner[store[x].of] \in Down
                                => OutOfService(x)
      BY <2>1, <2>2, StandsBelow
    <3>3. Touches(h)
      BY <2>2 DEF Touches
    <3> QED BY <2>2, <2>4, <3>1, <3>2, <3>3, StepKeeps DEF OutOfService
  <2> QED BY <1>19, <2>3, <2>4, CountsOwner
<1>20. ASSUME NEW h \in Handlers, DeactivateOwnerStores(h) PROVE DownInv'
  <2>1. Whose(h) /\ OwnerUp(h) /\ TakenDown(h) /\ handler[h].os \subseteq Owners
    BY Fields DEF DownInv
  <2>2. UNCHANGED <<owner, disturbed>> /\ handler[h].do = "owner_stores"
    BY <1>20 DEF DeactivateOwnerStores, At
  <2>3. ASSUME NEW x \in handler[h].left, x \in Stores, Takes(h, x) PROVE DownInv'
    BY <2>1, <2>2, <2>3, TakesKeeps
  <2>4. ASSUME handler[h].left = {}, store' = store, Now(h, "owner_write",
               handler[h].os, handler[h].s, handler[h].to,
             handler[h].left, handler[h].late)
        PROVE  DownInv'
    <3>1. Whose(h)' /\ OwnerUp(h)' /\ TakenDown(h)'
      BY <2>1, <2>2, <2>4 DEF Now, Whose, ToOneStore, OwnerUp, TakenDown, OutOfService
    <3>2. \A x \in Stores : store[x].of \in handler[h].os \ disturbed => OutOfService(x)
      BY <2>1, <2>2, <2>4 DEF TakenDown
    <3>3. Touches(h)
      BY <2>2, <2>4 DEF Touches
    <3> QED BY <2>2, <2>4, <3>1, <3>2, <3>3, StepKeeps DEF OutOfService
  <2> QED BY <1>20, <2>1, <2>3, <2>4, DeactivatesStores
<1>21. ASSUME NEW h \in Handlers, WriteOwner(h) PROVE DownInv'
  <2>1. Whose(h) /\ OwnerUp(h) /\ TakenDown(h) /\ handler[h].os \subseteq Owners
    BY Fields DEF DownInv
  <2>3. Now(h, "idle", {}, None, "none", {}, {})
    BY <1>21, Ended DEF WriteOwner
  <2>4. UNCHANGED <<store, disturbed>> /\ handler[h].do = "owner_write"
    BY <1>21 DEF WriteOwner, At
  <2>5. \A o \in Owners : owner'[o] = IF o \in handler[h].os THEN handler[h].to ELSE owner[o]
    BY <1>21 DEF WriteOwner
  <2>6. Touches(h)
    BY <2>4, <2>5 DEF Touches
  <2>7. \A x \in Stores :
           store'[x].of \in handler[h].os \ disturbed' /\
             owner'[store'[x].of] \in Down => OutOfService(x)'
    BY <2>1, <2>4, <2>5 DEF TakenDown, OutOfService
  <2> QED BY <2>3, <2>4, <2>6, <2>7, EndKeeps
<1>22. ASSUME NEW h \in Handlers, BulkOwnersWrite(h) PROVE DownInv'
  <2>1. Whose(h) /\ OwnerUp(h) /\ TakenDown(h) /\ handler[h].os \subseteq Owners
    BY Fields DEF DownInv
  <2>2. UNCHANGED disturbed /\ handler[h].do = "bulk_owners"
    BY <1>22 DEF BulkOwnersWrite, At
  <2>3. ASSUME NEW x \in handler[h].left \cap Stores, Takes(h, x),
               owner' = owner PROVE DownInv'
    BY <2>1, <2>2, <2>3, TakesKeeps
  <2>4. ASSUME NEW x \in handler[h].left \cap Owners,
               owner' = [owner EXCEPT ![x] = "inactive"], store' = store,
               Now(h, handler[h].do, handler[h].os, handler[h].s, handler[h].to,
                   handler[h].left \ {x}, handler[h].late)
        PROVE  DownInv'
    <3>1. x \in handler[h].os /\ x \notin Stores
      BY <2>1, <2>2, <2>4, NetworkAssumption DEF Whose
    <3>2. Whose(h)' /\ OwnerUp(h)' /\ TakenDown(h)'
      BY <2>1, <2>2, <2>4, <3>1
         DEF Now, Whose, ToOneStore, OwnerUp, TakenDown, OutOfService
    <3>3. \A y \in Stores : store[y].of \in handler[h].os \ disturbed
                                => OutOfService(y) \/ y \in handler[h].left \ {x}
      BY <2>1, <2>2, <3>1 DEF TakenDown
    <3>4. Touches(h)
      BY <2>2, <2>4, <3>1 DEF Touches, Types
    <3> QED BY <2>2, <2>4, <3>2, <3>3, <3>4, StepKeeps DEF OutOfService
  <2>5. ASSUME handler[h].left = {}, store' = store, owner' = owner, Now(h, "idle", {},
               None, "none", {}, {})
        PROVE  DownInv'
    <3>1. \A x \in Stores : store[x].of \in handler[h].os \ disturbed => OutOfService(x)
      BY <2>1, <2>2, <2>5 DEF TakenDown
    <3> QED BY <2>2, <2>5, <3>1, EndKeeps DEF Touches, OutOfService
  <2> QED BY <1>22, <2>3, <2>4, <2>5, BulkTakesOwners
<1>23. ASSUME NEW h \in Handlers, AdminCreatesStore(h) PROVE DownInv'
  <2>1. Whose(h) /\ OwnerUp(h) /\ TakenDown(h) /\ handler[h].os \subseteq Owners
    BY Fields DEF DownInv
  <2>3. Now(h, "idle", {}, None, "none", {}, {})
    BY <1>23, Ended DEF AdminCreatesStore
  <2>4. UNCHANGED <<owner, disturbed>> /\ handler[h].do = "create"
    BY <1>23 DEF AdminCreatesStore, At
  <2>5. CASE store' = store
    BY <2>1, <2>3, <2>4, <2>5, EndKeeps DEF Touches
  <2>6. ASSUME NEW o \in handler[h].os, handler[h].s \notin Created,
               Sets(handler[h].s, o, "pending", TRUE, FALSE, 0), handler[h].s \in Stores
        PROVE  DownInv'
    <3>1. /\ store'[handler[h].s].account = "pending" /\ ~store'[handler[h].s].online
          /\ store'[handler[h].s].of = o /\ o \in Owners
      BY <2>1, <2>6 DEF Sets
    <3>2. \A x \in Stores : x # handler[h].s => store'[x] = store[x]
      BY <2>6 DEF Sets
    <3>3. Touches(h)
      BY <2>4, <2>6, <3>1, <3>2 DEF Touches, Created, OutOfService, Status
    <3>4. ASSUME NEW x \in Stores, store'[x].of \in handler[h].os \ disturbed',
                 owner'[store'[x].of] \in Down
          PROVE  OutOfService(x)'
      <4>1. CASE x = handler[h].s
        BY <3>1, <4>1 DEF OutOfService
      <4>2. CASE x # handler[h].s
        BY <2>1, <2>3, <2>4, <3>2, <3>4, <4>2, StandsBelow DEF OutOfService
      <4> QED BY <4>1, <4>2
    <3> QED BY <2>3, <2>4, <3>3, <3>4, EndKeeps
  <2> QED BY <1>23, <2>1, <2>5, <2>6, AdminCreates
<1>24. ASSUME NEW h \in Handlers, SignInWrites(h) PROVE DownInv'
  <2>1. Whose(h) /\ OwnerUp(h) /\ TakenDown(h) /\ handler[h].os \subseteq Owners
    BY Fields DEF DownInv
  <2>2. handler[h].s \in Stores /\ store[handler[h].s].of \in handler[h].os
    BY <1>24, <2>1 DEF Whose, SignInWrites, At, ToOneStore
  <2>3. Now(h, "idle", {}, None, "none", {}, {})
    BY <1>24, Ended DEF SignInWrites
  <2>4. UNCHANGED <<owner, disturbed>>
    BY <1>24 DEF SignInWrites
  <2>5. Sets(handler[h].s, store[handler[h].s].of, store[handler[h].s].account, TRUE,
             store[handler[h].s].online,
             store[handler[h].s].count)
    BY <1>24, <2>2, SignInSets
  <2>6. handler[h].do \in ToOneStore
    BY <1>24 DEF SignInWrites, ToOneStore, At
  <2>7. /\ store'[handler[h].s].of = store[handler[h].s].of
        /\ \A x \in Stores : x # handler[h].s => store'[x] = store[x]
        /\ store'[handler[h].s].account = store[handler[h].s].account
        /\ store'[handler[h].s].online = store[handler[h].s].online
    BY <2>5 DEF Sets
  <2> QED BY <1>24, <2>1, <2>2, <2>3, <2>4, <2>6, <2>7, OneWritten
             DEF OwnerUp, At, SignInWrites, Status
<1>25. ASSUME NEW h \in Handlers, GoOnline(h) PROVE DownInv'
  <2>1. Whose(h) /\ OwnerUp(h) /\ TakenDown(h) /\ handler[h].os \subseteq Owners
    BY Fields DEF DownInv
  <2>2. handler[h].s \in Stores /\ store[handler[h].s].of \in handler[h].os
    BY <1>25, <2>1 DEF Whose, GoOnline, At, ToOneStore
  <2>3. Now(h, "idle", {}, None, "none", {}, {})
    BY <1>25, Ended DEF GoOnline
  <2>4. UNCHANGED <<owner, disturbed>>
    BY <1>25 DEF GoOnline
  <2>5. Sets(handler[h].s, store[handler[h].s].of, store[handler[h].s].account,
             store[handler[h].s].verified, At(h, "go_online"),
             store[handler[h].s].count)
    BY <1>25, <2>2, GoOnlineSets
  <2>6. handler[h].do \in ToOneStore
    BY <1>25 DEF GoOnline, ToOneStore, At
  <2>7. /\ store'[handler[h].s].of = store[handler[h].s].of
        /\ \A x \in Stores : x # handler[h].s => store'[x] = store[x]
        /\ store'[handler[h].s].account = store[handler[h].s].account
        /\ store'[handler[h].s].online <=> At(h, "go_online")
    BY <2>5 DEF Sets
  <2> QED BY <1>25, <2>1, <2>2, <2>3, <2>4, <2>6, <2>7, OneWritten
             DEF OwnerUp, At, GoOnline, Status
<1>26. ASSUME NEW h \in Handlers, UpdateStoreOnline(h) PROVE DownInv'
  <2>1. Whose(h) /\ OwnerUp(h) /\ TakenDown(h) /\ handler[h].os \subseteq Owners
    BY Fields DEF DownInv
  <2>2. handler[h].s \in Stores /\ store[handler[h].s].of \in handler[h].os
    BY <1>26, <2>1 DEF Whose, UpdateStoreOnline, At, ToOneStore
  <2>3. Now(h, "idle", {}, None, "none", {}, {})
    BY <1>26, Ended DEF UpdateStoreOnline
  <2>4. UNCHANGED <<owner, disturbed>>
    BY <1>26 DEF UpdateStoreOnline
  <2>5. CASE store' = store
    <3>1. handler[h].do # "bulk_owners"
      BY <1>26 DEF UpdateStoreOnline
    <3> QED BY <2>1, <2>3, <2>4, <2>5, <3>1, EndKeeps DEF Touches
  <2>6. ASSUME store' # store PROVE DownInv'
    <3>1. Sets(handler[h].s, store[handler[h].s].of, store[handler[h].s].account,
               store[handler[h].s].verified, At(h, "duty_on"), store[handler[h].s].count)
      BY <1>26, <2>2, <2>6, DutySets
    <3>3. handler[h].do \in ToOneStore
      BY <1>26 DEF UpdateStoreOnline, ToOneStore
    <3>4. /\ store'[handler[h].s].of = store[handler[h].s].of
          /\ \A x \in Stores : x # handler[h].s => store'[x] = store[x]
          /\ store'[handler[h].s].account = store[handler[h].s].account
          /\ store'[handler[h].s].online <=> At(h, "duty_on")
      BY <3>1 DEF Sets
    <3>5. At(h, "duty_on") => \/ store[handler[h].s].of \in disturbed
                             \/ owner[store[handler[h].s].of] \notin Down
      BY <2>1 DEF OwnerUp, At
    <3> QED BY <2>2, <2>3, <2>4, <3>3, <3>4, <3>5, OneWritten
  <2> QED BY <2>5, <2>6
<1>27. ASSUME NEW h \in Handlers, ToggleStoreStatus(h) PROVE DownInv'
  <2>1. Whose(h) /\ OwnerUp(h) /\ TakenDown(h) /\ handler[h].os \subseteq Owners
    BY Fields DEF DownInv
  <2>2. handler[h].s \in Stores /\ store[handler[h].s].of \in handler[h].os /\
          handler[h].to \in Status
    BY <1>27, <2>1 DEF Whose, ToggleStoreStatus, At, ToOneStore
  <2>3. Now(h, "idle", {}, None, "none", {}, {})
    BY <1>27, Ended DEF ToggleStoreStatus
  <2>4. UNCHANGED <<owner, disturbed>>
    BY <1>27 DEF ToggleStoreStatus
  <2>5. Sets(handler[h].s, store[handler[h].s].of, handler[h].to,
             store[handler[h].s].verified,
             (store[handler[h].s].online /\ handler[h].to = "active"),
             store[handler[h].s].count)
    BY <1>27, <2>2, ToggleSets
  <2>6. handler[h].do \in ToOneStore
    BY <1>27 DEF ToggleStoreStatus, ToOneStore, At
  <2>7. /\ store'[handler[h].s].of = store[handler[h].s].of
        /\ \A x \in Stores : x # handler[h].s => store'[x] = store[x]
        /\ store'[handler[h].s].account = handler[h].to
        /\ store'[handler[h].s].online => store[handler[h].s].online
    BY <2>5 DEF Sets
  <2> QED BY <1>27, <2>1, <2>2, <2>3, <2>4, <2>6, <2>7, OneWritten
             DEF OwnerUp, At, ToggleStoreStatus, Status
<1>28. ASSUME NEW h \in Handlers, BulkStoresWrite(h) PROVE DownInv'
  <2>1. Whose(h) /\ OwnerUp(h) /\ TakenDown(h) /\ handler[h].os \subseteq Owners
    BY Fields DEF DownInv
  <2>2. UNCHANGED <<owner, disturbed>> /\ handler[h].do = "bulk_stores"
    BY <1>28 DEF BulkStoresWrite, At
  <2>3. ASSUME NEW x \in handler[h].left, x \in Stores, Takes(h, x) PROVE DownInv'
    BY <2>1, <2>2, <2>3, TakesKeeps
  <2>4. CASE store' = store /\ Now(h, "idle", {}, None, "none", {}, {})
    BY <2>1, <2>2, <2>4, EndKeeps DEF Touches
  <2> QED BY <1>28, <2>1, <2>3, <2>4, BulkTakesStores
<1>29. ASSUME NEW h \in Handlers, DeleteStore(h) PROVE DownInv'
  <2>1. Whose(h) /\ OwnerUp(h) /\ TakenDown(h) /\ handler[h].os \subseteq Owners
    BY Fields DEF DownInv
  <2>2. handler[h].s \in Stores /\ store[handler[h].s].of \in handler[h].os
    BY <1>29, <2>1 DEF Whose, DeleteStore, At, ToOneStore
  <2>3. Now(h, "idle", {}, None, "none", {}, {})
    BY <1>29, Ended DEF DeleteStore
  <2>4. UNCHANGED <<owner, disturbed>>
    BY <1>29 DEF DeleteStore
  <2>5. Sets(handler[h].s, store[handler[h].s].of, "pending", FALSE, FALSE,
             store[handler[h].s].count)
    BY <1>29, <2>2, DeleteSets
  <2>6. handler[h].do \in ToOneStore
    BY <1>29 DEF DeleteStore, ToOneStore, At
  <2>7. /\ store'[handler[h].s].of = store[handler[h].s].of
        /\ \A x \in Stores : x # handler[h].s => store'[x] = store[x]
        /\ store'[handler[h].s].account = "pending" /\ ~store'[handler[h].s].online
    BY <2>5 DEF Sets
  <2> QED BY <1>29, <2>1, <2>2, <2>3, <2>4, <2>6, <2>7, OneWritten
             DEF OwnerUp, At, DeleteStore, Status
<1>30. ASSUME NEW h \in Handlers, Crash(h) PROVE DownInv'
  <2>1. Whose(h) /\ OwnerUp(h) /\ TakenDown(h) /\ handler[h].os \subseteq Owners
    BY Fields DEF DownInv
  <2>3. Now(h, "idle", {}, None, "none", {}, {})
    BY <1>30, Ended DEF Crash
  <2>4. disturbed \subseteq disturbed' /\ (handler[h].do = "bulk_owners"
          => handler[h].os \subseteq disturbed')
    BY <1>30, <2>1 DEF Crash, At
  <2>5. UNCHANGED <<owner, store>>
    BY <1>30 DEF Crash
  <2> QED BY <2>1, <2>3, <2>4, <2>5, EndKeeps DEF Touches
<1>31. CASE UNCHANGED vars
  BY <1>31
     DEF vars, DownInv, Uncreated, Created, OutOfService, Alone,
         OwnerDownStoresDown, StoresOf, At, Whose, OwnerUp, TakenDown
<1> QED BY <1>1, <1>2, <1>3, <1>4, <1>5, <1>6, <1>7, <1>8, <1>9, <1>10, <1>11,
           <1>12, <1>13, <1>14, <1>15, <1>16, <1>17, <1>18,
           <1>19, <1>20, <1>21, <1>22, <1>23, <1>24, <1>25, <1>26, <1>27, <1>28,
           <1>29, <1>30, <1>31
           DEF Next, Step, Status

\* A request leaves a store to its owner, and its count.
LEMMA OfStays ==
    ASSUME Types, DownInv, NEW h \in Handlers, Step(h), NEW x \in Created
    PROVE  store'[x].of = store[x].of /\ store'[x].count = store[x].count
<1> USE DEF Created
<1>1. Whose(h)
  BY DEF DownInv
<1>2. CASE OwnerStatusCounts(h) \/ WriteOwner(h)
  BY <1>2 DEF OwnerStatusCounts, WriteOwner
<1>3. CASE DeactivateOwnerStores(h)
  BY <1>1, <1>3, DeactivatesStores DEF Takes, Sets
<1>4. CASE BulkStoresWrite(h)
  BY <1>1, <1>4, BulkTakesStores DEF Takes, Sets
<1>5. CASE BulkOwnersWrite(h)
  BY <1>1, <1>5, BulkTakesOwners DEF Takes, Sets
<1>6. CASE AdminCreatesStore(h)
  BY <1>1, <1>6, AdminCreates DEF Sets
<1>7. handler[h].do \in ToOneStore => handler[h].s \in Stores
  BY <1>1 DEF Whose
<1>8. CASE SignInWrites(h)
  BY <1>7, <1>8, SignInSets DEF Sets, SignInWrites, At, ToOneStore
<1>9. CASE GoOnline(h)
  BY <1>7, <1>9, GoOnlineSets DEF Sets, GoOnline, ToOneStore
<1>10. CASE UpdateStoreOnline(h)
  <2>1. handler[h].s \in Stores
    BY <1>7, <1>10 DEF UpdateStoreOnline, ToOneStore
  <2>2. CASE store' # store
    BY <1>10, <2>1, <2>2, DutySets DEF Sets
  <2> QED BY <2>2
<1>11. CASE ToggleStoreStatus(h)
  BY <1>1, <1>7, <1>11, ToggleSets DEF Sets, ToggleStoreStatus, At, ToOneStore, Whose
<1>12. CASE DeleteStore(h)
  BY <1>7, <1>12, DeleteSets DEF Sets, DeleteStore, At, ToOneStore
<1> QED BY <1>2, <1>3, <1>4, <1>5, <1>6, <1>8, <1>9, <1>10, <1>11, <1>12 DEF Step

\* Every action keeps a booking where it is.
LEMMA WhereStep == Types /\ DownInv /\ Where /\ [Next]_vars => Where'
<1> SUFFICES ASSUME Types, DownInv, Where, [Next]_vars PROVE Where'
  OBVIOUS
<1>1. ASSUME NEW o \in Owners, NewOwner(o) PROVE Where'
  BY <1>1 DEF Where, Created, NewOwner
<1>2. ASSUME NEW o \in Owners, NEW s \in Stores, OwnerCreatesStore(o, s) PROVE Where'
  <2>1. Sets(s, o, "pending", FALSE, FALSE, 0)
    BY <1>2, OwnerCreates
  <2>2. store'[s].of = o /\ \A x \in Stores : x # s => store'[x] = store[x]
    BY <2>1 DEF Sets
  <2>3. \A x \in Created : x \in Created'
    BY <2>2, NetworkAssumption DEF Created
  <2>4. UNCHANGED <<stage, placed>>
    BY <1>2 DEF OwnerCreatesStore
  <2> QED BY <2>3, <2>4 DEF Where
<1>3. ASSUME NEW h \in Handlers, NEW o \in Owners, OwnerSignsIn(h, o) PROVE Where'
  BY <1>3, OwnerSignsInStarts DEF Where, Created
<1>4. ASSUME NEW h \in Handlers, NEW o \in Owners, NEW to \in Status,
             OwnerStatusReads(h, o, to)
      PROVE  Where'
  BY <1>4, OwnerStatusReadsStarts DEF Where, Created
<1>5. ASSUME NEW h \in Handlers, NEW o \in Owners, NEW s \in Stores,
             AdminReadsOwner(h, o, s)
      PROVE  Where'
  BY <1>5, AdminReadsOwnerStarts DEF Where, Created
<1>6. ASSUME NEW h \in Handlers, NEW s \in Stores, StoreSignsIn(h, s) PROVE Where'
  BY <1>6, StoreSignsInStarts DEF Where, Created
<1>7. ASSUME NEW h \in Handlers, NEW s \in Stores, OwnerGoesOnline(h, s) PROVE Where'
  BY <1>7, OwnerGoesOnlineStarts DEF Where, Created
<1>8. ASSUME NEW h \in Handlers, NEW s \in Stores, StoreGoesOnline(h, s) PROVE Where'
  BY <1>8, StoreGoesOnlineStarts DEF Where, Created
<1>9. ASSUME NEW h \in Handlers, NEW s \in Stores, AdminReadsDuty(h, s) PROVE Where'
  BY <1>9, AdminReadsDutyStarts DEF Where, Created
<1>10. ASSUME NEW h \in Handlers, NEW s \in Stores, NEW to \in Status,
              ToggleReads(h, s, to)
       PROVE  Where'
  BY <1>10, ToggleReadsStarts DEF Where, Created
<1>11. ASSUME NEW h \in Handlers, NEW s \in Stores, OwnerReadsStore(h, s) PROVE Where'
  BY <1>11, OwnerReadsStoreStarts DEF Where, Created
<1>12. ASSUME NEW h \in Handlers, NEW P \in SUBSET Owners, BulkOwnersRead(h, P)
       PROVE  Where'
  BY <1>12, BulkOwnersReadStarts DEF Where, Created
<1>13. ASSUME NEW h \in Handlers, NEW P \in SUBSET Stores, BulkStoresRead(h, P)
       PROVE  Where'
  BY <1>13, BulkStoresReadStarts DEF Where, Created
<1>14. ASSUME NEW s \in Stores, NEW verified \in BOOLEAN, AdminUpdatesStore(s, verified)
       PROVE  Where'
  BY <1>14, AdminUpdates DEF Where, Created, AdminUpdatesStore, Sets
<1>15. ASSUME NEW b \in Bookings, ConfirmStored(b) PROVE Where'
  <2>1. \A x \in Stores : store'[x].of = store[x].of
    BY <1>15, Confirmed DEF Sets
  <2>2. placed' = placed
    BY <1>15 DEF ConfirmStored, Goes
  <2>3. \A c \in Bookings : stage'[c] \in AtStores => stage[c] \in AtStores
    BY <1>15, ConfirmHeard
  <2> QED BY <2>1, <2>2, <2>3 DEF Where, Created
<1>16. ASSUME NEW b \in Bookings, CancelBooking(b) PROVE Where'
  BY <1>16, Cancelled DEF Where, Created, CancelBooking, Sets, Types
<1>17. ASSUME NEW b \in Bookings, Travels(b) PROVE Where'
  BY <1>17, Travel, TravelHeard DEF Where, Created, Travelled
<1>18. ASSUME NEW b \in Bookings, NEW s \in Stores, AssignStore(b, s) PROVE Where'
  <2>1. s \in Created
    BY <1>18, Owned DEF AssignStore, Available
  <2> QED BY <1>18, <2>1, Assigned
             DEF Where, Created, AssignStore, Sets, Types, StoreBlocking, AtStores
<1>19. ASSUME NEW h \in Handlers, OwnerStatusCounts(h) PROVE Where'
  BY <1>19 DEF Where, Created, OwnerStatusCounts
<1>20. ASSUME NEW h \in Handlers, DeactivateOwnerStores(h) PROVE Where'
  <2>1. UNCHANGED <<stage, placed>>
    BY <1>20 DEF DeactivateOwnerStores
  <2>2. \A x \in Created : store'[x].of = store[x].of
    BY <1>20, OfStays DEF Step
  <2> QED BY <2>1, <2>2 DEF Where, Created
<1>21. ASSUME NEW h \in Handlers, WriteOwner(h) PROVE Where'
  BY <1>21 DEF Where, Created, WriteOwner
<1>22. ASSUME NEW h \in Handlers, BulkOwnersWrite(h) PROVE Where'
  <2>1. UNCHANGED <<stage, placed>>
    BY <1>22 DEF BulkOwnersWrite
  <2>2. \A x \in Created : store'[x].of = store[x].of
    BY <1>22, OfStays DEF Step
  <2> QED BY <2>1, <2>2 DEF Where, Created
<1>23. ASSUME NEW h \in Handlers, AdminCreatesStore(h) PROVE Where'
  <2>1. UNCHANGED <<stage, placed>>
    BY <1>23 DEF AdminCreatesStore
  <2>2. \A x \in Created : store'[x].of = store[x].of
    BY <1>23, OfStays DEF Step
  <2> QED BY <2>1, <2>2 DEF Where, Created
<1>24. ASSUME NEW h \in Handlers, SignInWrites(h) PROVE Where'
  <2>1. UNCHANGED <<stage, placed>>
    BY <1>24 DEF SignInWrites
  <2>2. \A x \in Created : store'[x].of = store[x].of
    BY <1>24, OfStays DEF Step
  <2> QED BY <2>1, <2>2 DEF Where, Created
<1>25. ASSUME NEW h \in Handlers, GoOnline(h) PROVE Where'
  <2>1. UNCHANGED <<stage, placed>>
    BY <1>25 DEF GoOnline
  <2>2. \A x \in Created : store'[x].of = store[x].of
    BY <1>25, OfStays DEF Step
  <2> QED BY <2>1, <2>2 DEF Where, Created
<1>26. ASSUME NEW h \in Handlers, UpdateStoreOnline(h) PROVE Where'
  <2>1. UNCHANGED <<stage, placed>>
    BY <1>26 DEF UpdateStoreOnline
  <2>2. \A x \in Created : store'[x].of = store[x].of
    BY <1>26, OfStays DEF Step
  <2> QED BY <2>1, <2>2 DEF Where, Created
<1>27. ASSUME NEW h \in Handlers, ToggleStoreStatus(h) PROVE Where'
  <2>1. UNCHANGED <<stage, placed>>
    BY <1>27 DEF ToggleStoreStatus
  <2>2. \A x \in Created : store'[x].of = store[x].of
    BY <1>27, OfStays DEF Step
  <2> QED BY <2>1, <2>2 DEF Where, Created
<1>28. ASSUME NEW h \in Handlers, BulkStoresWrite(h) PROVE Where'
  <2>1. UNCHANGED <<stage, placed>>
    BY <1>28 DEF BulkStoresWrite
  <2>2. \A x \in Created : store'[x].of = store[x].of
    BY <1>28, OfStays DEF Step
  <2> QED BY <2>1, <2>2 DEF Where, Created
<1>29. ASSUME NEW h \in Handlers, DeleteStore(h) PROVE Where'
  <2>1. UNCHANGED <<stage, placed>>
    BY <1>29 DEF DeleteStore
  <2>2. \A x \in Created : store'[x].of = store[x].of
    BY <1>29, OfStays DEF Step
  <2> QED BY <2>1, <2>2 DEF Where, Created
<1>30. ASSUME NEW h \in Handlers, Crash(h) PROVE Where'
  BY <1>30 DEF Where, Created, Crash
<1>31. CASE UNCHANGED vars
  BY <1>31 DEF vars, Where, Created
<1> QED BY <1>1, <1>2, <1>3, <1>4, <1>5, <1>6, <1>7, <1>8, <1>9, <1>10, <1>11,
           <1>12, <1>13, <1>14, <1>15, <1>16, <1>17, <1>18,
           <1>19, <1>20, <1>21, <1>22, <1>23, <1>24, <1>25, <1>26, <1>27, <1>28,
           <1>29, <1>30, <1>31
           DEF Next, Step, Status

------------------------------------------------------------------------------
(* What a request has counted. *)

\* A request that will take stores out of service knows, or was told, of the
\* luggage that stands in its way.
Seen(h) ==
    /\ handler[h].do \in {"owner_stores", "bulk_owners", "bulk_stores"} =>
          BlockingAt(handler[h].left) \subseteq handler[h].late
    /\ handler[h].do = "delete" \/ (handler[h].do = "toggle" /\ handler[h].to # "active") =>
          BlockingAt({handler[h].s}) \subseteq handler[h].late

\* The bookings a store's count owes.
Held(s) == {b \in Bookings : placed[b] = s /\ stage[b] \in AtStores}

\* The count is at least what is held.
Owes == \A s \in Stores : IsFiniteSet(Held(s)) /\ Cardinality(Held(s)) <= store[s].count

\* What keeps luggage from being stranded behind the back of a count.
SeenInv == Owes /\ \A h \in Handlers : Seen(h)

\* The inductive invariant of the module.
NetworkInv == Types /\ DownInv /\ Where /\ SeenInv

\* Nothing is held by a store that was not created, or whose count is zero.
LEMMA NothingHeld ==
    ASSUME Types, Where, Owes, NEW s \in Stores, s \notin Created \/ store[s].count = 0
    PROVE  Held(s) = {} /\ BlockingAt({s}) = {}
<1>1. CASE s \notin Created
  BY <1>1 DEF Held, Where, BlockingAt, AtStores
<1>2. CASE store[s].count = 0
  <2>1. IsFiniteSet(Held(s)) /\ Cardinality(Held(s)) <= 0
    BY <1>2 DEF Owes
  <2>2. Held(s) = {}
    BY <2>1, FS_EmptySet, FS_CardinalityType
  <2> QED BY <2>2 DEF Held, BlockingAt, AtStores
<1> QED BY <1>1, <1>2

\* A request starts or goes on, and its bookings stay.
LEMMA SeenGoesOn ==
    ASSUME Types, \A g \in Handlers : Seen(g), NEW h \in Handlers, NEW do, NEW O,
           NEW s, NEW to,
           NEW left, NEW late, Now(h, do, O, s, to, left, late), UNCHANGED <<stage,
             placed>>,
           do \in {"owner_stores", "bulk_owners", "bulk_stores"}
             => BlockingAt(left) \subseteq late,
           do = "delete" \/ (do = "toggle" /\ to # "active")
             => BlockingAt({s}) \subseteq late
    PROVE  \A g \in Handlers : Seen(g)'
<1>1. Seen(h)'
  BY DEF Now, Seen, BlockingAt
<1>2. ASSUME NEW g \in Handlers, g # h PROVE Seen(g)'
  <2>1. handler'[g] = handler[g] /\ Seen(g)
    BY <1>2 DEF Now
  <2> QED BY <2>1 DEF Seen, BlockingAt
<1> QED BY <1>1, <1>2

\* Every request hears of a booking that begins to block a store.
LEMMA SeenHears ==
    ASSUME Types, \A g \in Handlers : Seen(g), SameRequests,
           \A h \in Handlers : handler[h].late \subseteq handler'[h].late,
           \A b \in Bookings : stage'[b] \in StoreBlocking =>
              \/ stage[b] \in StoreBlocking /\ placed'[b] = placed[b]
              \/ \A h \in Handlers : TakesOut(h) => b \in handler'[h].late
    PROVE  \A g \in Handlers : Seen(g)'
<1> SUFFICES ASSUME NEW g \in Handlers PROVE Seen(g)'
  OBVIOUS
<1>1. Seen(g) /\ handler'[g].do = handler[g].do /\ handler'[g].s = handler[g].s
      /\ handler'[g].to = handler[g].to /\ handler'[g].left = handler[g].left
  BY DEF SameRequests
<1>2. CASE ~TakesOut(g)
  BY <1>1, <1>2 DEF Seen, TakesOut, At
<1>3. ASSUME NEW X, BlockingAt(X) \subseteq handler[g].late, TakesOut(g)
      PROVE  {b \in Bookings : placed'[b] \in X /\
               stage'[b] \in StoreBlocking} \subseteq handler'[g].late
  BY <1>3 DEF BlockingAt
<1>4. CASE TakesOut(g)
  BY <1>1, <1>3, <1>4 DEF Seen, BlockingAt
<1> QED BY <1>2, <1>4

\* What is held grows only with the count.
LEMMA OwesLess ==
    ASSUME Types, Types', Owes, \A s \in Stores : Held(s)' \subseteq Held(s),
           \A s \in Stores : store[s].count <= store'[s].count \/ Held(s)' = {}
    PROVE  Owes'
<1> SUFFICES ASSUME NEW s \in Stores
             PROVE  IsFiniteSet(Held(s)') /\ Cardinality(Held(s)') <= store'[s].count
  BY DEF Owes
<1>1. IsFiniteSet(Held(s)') /\ Cardinality(Held(s)') <= Cardinality(Held(s))
  BY FS_Subset DEF Owes
<1>2. Cardinality(Held(s)') \in Nat /\ Cardinality(Held(s)) \in Nat
  BY <1>1, FS_CardinalityType DEF Owes
<1>3. store[s].count \in Nat /\ store'[s].count \in Nat
  BY DEF Types, StoreType
<1>4. CASE store[s].count <= store'[s].count
  BY <1>1, <1>2, <1>3, <1>4 DEF Owes
<1>5. CASE Held(s)' = {}
  BY <1>1, <1>3, <1>5, FS_EmptySet
<1> QED BY <1>4, <1>5

\* Requests do not touch the count of a store that there is.
LEMMA OwesAsMuch ==
    ASSUME Types, Types', Where, Owes, UNCHANGED <<stage, placed>>,
           \A s \in Created : store'[s].count = store[s].count
    PROVE  Owes'
<1>1. \A s \in Stores : Held(s)' = Held(s)
  BY DEF Held
<1>2. \A s \in Stores \ Created : Held(s)' = {}
  BY <1>1, NothingHeld
<1>3. \A s \in Created : store[s].count <= store'[s].count
  BY DEF Created, Types, StoreType
<1> QED BY <1>1, <1>2, <1>3, OwesLess

\* A booking leaves a store, and its count goes down by one at most.
LEMMA OwesOneLess ==
    ASSUME Types, Types', Owes, NEW s \in Stores, NEW b \in Held(s),
           Held(s)' \subseteq Held(s) \ {b},
           \A x \in Stores : x # s => Held(x)' \subseteq Held(x) /\ store'[x] = store[x],
           store'[s].count = IF store[s].count > 0 THEN store[s].count - 1 ELSE store[s].count
    PROVE  Owes'
<1> SUFFICES ASSUME NEW x \in Stores
             PROVE  IsFiniteSet(Held(x)') /\ Cardinality(Held(x)') <= store'[x].count
  BY DEF Owes
<1>1. /\ IsFiniteSet(Held(x)) /\ Cardinality(Held(x)) <= store[x].count
      /\ Cardinality(Held(x)) \in Nat /\ store[x].count \in Nat
  BY FS_CardinalityType DEF Owes, Types, StoreType
<1>2. CASE x # s
  <2>1. IsFiniteSet(Held(x)') /\ Cardinality(Held(x)') <= Cardinality(Held(x))
    BY <1>1, <1>2, FS_Subset
  <2> QED BY <1>1, <1>2, <2>1, FS_CardinalityType
<1>3. CASE x = s
  <2> DEFINE H == Held(s) \ {b}
  <2>1. IsFiniteSet(H) /\ Cardinality(H) = Cardinality(Held(s)) - 1
    BY <1>1, <1>3, FS_RemoveElement
  <2>2. IsFiniteSet(Held(s)') /\ Cardinality(Held(s)') <= Cardinality(H)
    BY <2>1, FS_Subset
  <2>3. Cardinality(H) \in Nat /\ Cardinality(Held(s)') \in Nat
    BY <2>1, <2>2, FS_CardinalityType
  <2> QED BY <1>1, <1>3, <2>1, <2>2, <2>3
<1> QED BY <1>2, <1>3

\* A booking comes to a store, and its count goes up by one.
LEMMA OwesOneMore ==
    ASSUME Types, Types', Owes, NEW s \in Stores, NEW b \in Bookings,
           Held(s)' \subseteq Held(s) \cup {b},
           \A x \in Stores : x # s => Held(x)' \subseteq Held(x) /\ store'[x] = store[x],
           store'[s].count = store[s].count + 1
    PROVE  Owes'
<1> SUFFICES ASSUME NEW x \in Stores
             PROVE  IsFiniteSet(Held(x)') /\ Cardinality(Held(x)') <= store'[x].count
  BY DEF Owes
<1>1. /\ IsFiniteSet(Held(x)) /\ Cardinality(Held(x)) <= store[x].count
      /\ Cardinality(Held(x)) \in Nat /\ store[x].count \in Nat
  BY FS_CardinalityType DEF Owes, Types, StoreType
<1>2. CASE x # s
  <2>1. IsFiniteSet(Held(x)') /\ Cardinality(Held(x)') <= Cardinality(Held(x))
    BY <1>1, <1>2, FS_Subset
  <2> QED BY <1>1, <1>2, <2>1, FS_CardinalityType
<1>3. CASE x = s
  <2> DEFINE H == Held(s) \cup {b}
             n == Cardinality(Held(s))
  <2>1. IsFiniteSet(H) /\ Cardinality(H) <= n + 1
    <3>1. IsFiniteSet(Held(s)) /\ n \in Nat
      BY <1>1, <1>3
    <3>2. IsFiniteSet(H) /\ Cardinality(H) = IF b \in Held(s) THEN n ELSE n + 1
      BY <3>1, FS_AddElement, Zenon
    <3> HIDE DEF H, n
    <3> QED BY <3>1, <3>2
  <2>2. IsFiniteSet(Held(s)') /\ Cardinality(Held(s)') <= Cardinality(H)
    BY <2>1, FS_Subset
  <2>3. Cardinality(H) \in Nat /\ Cardinality(Held(s)') \in Nat
    BY <2>1, <2>2, FS_CardinalityType
  <2> QED BY <1>1, <1>3, <2>1, <2>2, <2>3
<1> QED BY <1>2, <1>3

\* Every action keeps the counts of the stores.
LEMMA OwesStep == Types /\ Types' /\ DownInv /\ Where /\ Owes /\ [Next]_vars => Owes'
<1> SUFFICES ASSUME Types, Types', DownInv, Where, Owes, [Next]_vars PROVE Owes'
  OBVIOUS
<1>1. ASSUME NEW o \in Owners, NewOwner(o) PROVE Owes'
  BY <1>1 DEF Owes, Held, NewOwner
<1>2. ASSUME NEW o \in Owners, NEW s \in Stores, OwnerCreatesStore(o, s) PROVE Owes'
  <2>1. Sets(s, o, "pending", FALSE, FALSE, 0)
    BY <1>2, OwnerCreates
  <2>2. s \notin Created /\ UNCHANGED <<stage, placed>>
    BY <1>2 DEF OwnerCreatesStore
  <2>3. \A x \in Created : store'[x].count = store[x].count
    BY <2>1, <2>2 DEF Sets, Created
  <2> QED BY <2>2, <2>3, OwesAsMuch
<1>3. ASSUME NEW h \in Handlers, NEW o \in Owners, OwnerSignsIn(h, o) PROVE Owes'
  <2>1. UNCHANGED <<store, stage, placed>>
    BY <1>3, OwnerSignsInStarts
  <2> QED BY <2>1 DEF Owes, Held
<1>4. ASSUME NEW h \in Handlers, NEW o \in Owners, NEW to \in Status,
             OwnerStatusReads(h, o, to)
      PROVE  Owes'
  <2>1. UNCHANGED <<store, stage, placed>>
    BY <1>4, OwnerStatusReadsStarts
  <2> QED BY <2>1 DEF Owes, Held
<1>5. ASSUME NEW h \in Handlers, NEW o \in Owners, NEW s \in Stores,
             AdminReadsOwner(h, o, s)
      PROVE  Owes'
  <2>1. UNCHANGED <<store, stage, placed>>
    BY <1>5, AdminReadsOwnerStarts
  <2> QED BY <2>1 DEF Owes, Held
<1>6. ASSUME NEW h \in Handlers, NEW s \in Stores, StoreSignsIn(h, s) PROVE Owes'
  <2>1. UNCHANGED <<store, stage, placed>>
    BY <1>6, StoreSignsInStarts
  <2> QED BY <2>1 DEF Owes, Held
<1>7. ASSUME NEW h \in Handlers, NEW s \in Stores, OwnerGoesOnline(h, s) PROVE Owes'
  <2>1. UNCHANGED <<store, stage, placed>>
    BY <1>7, OwnerGoesOnlineStarts
  <2> QED BY <2>1 DEF Owes, Held
<1>8. ASSUME NEW h \in Handlers, NEW s \in Stores, StoreGoesOnline(h, s) PROVE Owes'
  <2>1. UNCHANGED <<store, stage, placed>>
    BY <1>8, StoreGoesOnlineStarts
  <2> QED BY <2>1 DEF Owes, Held
<1>9. ASSUME NEW h \in Handlers, NEW s \in Stores, AdminReadsDuty(h, s) PROVE Owes'
  <2>1. UNCHANGED <<store, stage, placed>>
    BY <1>9, AdminReadsDutyStarts
  <2> QED BY <2>1 DEF Owes, Held
<1>10. ASSUME NEW h \in Handlers, NEW s \in Stores, NEW to \in Status,
              ToggleReads(h, s, to)
       PROVE  Owes'
  <2>1. UNCHANGED <<store, stage, placed>>
    BY <1>10, ToggleReadsStarts
  <2> QED BY <2>1 DEF Owes, Held
<1>11. ASSUME NEW h \in Handlers, NEW s \in Stores, OwnerReadsStore(h, s) PROVE Owes'
  <2>1. UNCHANGED <<store, stage, placed>>
    BY <1>11, OwnerReadsStoreStarts
  <2> QED BY <2>1 DEF Owes, Held
<1>12. ASSUME NEW h \in Handlers, NEW P \in SUBSET Owners, BulkOwnersRead(h, P)
       PROVE  Owes'
  <2>1. UNCHANGED <<store, stage, placed>>
    BY <1>12, BulkOwnersReadStarts
  <2> QED BY <2>1 DEF Owes, Held
<1>13. ASSUME NEW h \in Handlers, NEW P \in SUBSET Stores, BulkStoresRead(h, P)
       PROVE  Owes'
  <2>1. UNCHANGED <<store, stage, placed>>
    BY <1>13, BulkStoresReadStarts
  <2> QED BY <2>1 DEF Owes, Held
<1>14. ASSUME NEW s \in Stores, NEW verified \in BOOLEAN, AdminUpdatesStore(s, verified)
       PROVE  Owes'
  <2>1. \A x \in Created : store'[x].count = store[x].count
    BY <1>14, AdminUpdates DEF Sets, Created
  <2>2. UNCHANGED <<stage, placed>>
    BY <1>14 DEF AdminUpdatesStore
  <2> QED BY <2>1, <2>2, OwesAsMuch
<1>15. ASSUME NEW b \in Bookings, ConfirmStored(b) PROVE Owes'
  <2>1. /\ placed[b] \in Stores
        /\ store'[placed[b]].count = store[placed[b]].count + 1
        /\ \A s \in Stores : s # placed[b] => store'[s] = store[s]
    BY <1>15, Confirmed DEF Sets
  <2>2. \A s \in Stores : Held(s)' \subseteq Held(s)
    BY <1>15, ConfirmHeard DEF ConfirmStored, Goes, Held
  <2>3. \A s \in Stores : store[s].count <= store'[s].count
    BY <2>1 DEF Types, StoreType
  <2> QED BY <2>2, <2>3, OwesLess
<1>16. ASSUME NEW b \in Bookings, CancelBooking(b) PROVE Owes'
  <2>1. PICK s \in Stores :
           /\ s = placed[b] /\ stage[b] \in AtStores
           /\ store'[s].count = IF store[s].count > 0 THEN store[s].count - 1
                               ELSE store[s].count
           /\ \A x \in Stores : x # s => store'[x] = store[x]
    BY <1>16, Cancelled DEF Sets
  <2>2. \A c \in Bookings : c # b => stage'[c] = stage[c]
    BY <1>16 DEF CancelBooking, Types
  <2>3. stage'[b] \notin AtStores /\ placed' = placed
    BY <1>16 DEF CancelBooking, Types, AtStores, StoreBlocking
  <2>4. \A x \in Stores : Held(x)' \subseteq Held(x)
    BY <2>2, <2>3 DEF Held
  <2>5. Held(s)' \subseteq Held(s) \ {b} /\ b \in Held(s)
    BY <2>1, <2>2, <2>3 DEF Held
  <2> QED BY <2>1, <2>4, <2>5, OwesOneLess
<1>17. ASSUME NEW b \in Bookings, Travels(b) PROVE Owes'
  <2>1. UNCHANGED <<store, placed>> /\ stage[b] \in AtStores
    BY <1>17, Travel DEF Travelled
  <2>2. \A s \in Stores : Held(s)' \subseteq Held(s)
    BY <1>17, <2>1, Travel, TravelHeard DEF Held
  <2>3. \A s \in Stores : store[s].count <= store'[s].count
    BY <2>1 DEF Types, StoreType
  <2> QED BY <2>2, <2>3, OwesLess
<1>18. ASSUME NEW b \in Bookings, NEW s \in Stores, AssignStore(b, s) PROVE Owes'
  <2>1. /\ store'[s].count = store[s].count + 1
        /\ \A x \in Stores : x # s => store'[x] = store[x]
    BY <1>18, Assigned DEF Sets
  <2>2. \A x \in Stores : x # s => Held(x)' \subseteq Held(x)
    BY <1>18 DEF AssignStore, Held, Types
  <2>3. Held(s)' \subseteq Held(s) \cup {b}
    BY <1>18 DEF AssignStore, Held, Types
  <2> QED BY <2>1, <2>2, <2>3, OwesOneMore
<1>19. ASSUME NEW h \in Handlers, OwnerStatusCounts(h) PROVE Owes'
  BY <1>19 DEF Owes, Held, OwnerStatusCounts
<1>20. ASSUME NEW h \in Handlers, DeactivateOwnerStores(h) PROVE Owes'
  <2>1. UNCHANGED <<stage, placed>>
    BY <1>20 DEF DeactivateOwnerStores
  <2>2. \A x \in Created : store'[x].count = store[x].count
    BY <1>20, OfStays DEF Step
  <2> QED BY <2>1, <2>2, OwesAsMuch
<1>21. ASSUME NEW h \in Handlers, WriteOwner(h) PROVE Owes'
  BY <1>21 DEF Owes, Held, WriteOwner
<1>22. ASSUME NEW h \in Handlers, BulkOwnersWrite(h) PROVE Owes'
  <2>1. UNCHANGED <<stage, placed>>
    BY <1>22 DEF BulkOwnersWrite
  <2>2. \A x \in Created : store'[x].count = store[x].count
    BY <1>22, OfStays DEF Step
  <2> QED BY <2>1, <2>2, OwesAsMuch
<1>23. ASSUME NEW h \in Handlers, AdminCreatesStore(h) PROVE Owes'
  <2>1. UNCHANGED <<stage, placed>>
    BY <1>23 DEF AdminCreatesStore
  <2>2. \A x \in Created : store'[x].count = store[x].count
    BY <1>23, OfStays DEF Step
  <2> QED BY <2>1, <2>2, OwesAsMuch
<1>24. ASSUME NEW h \in Handlers, SignInWrites(h) PROVE Owes'
  <2>1. UNCHANGED <<stage, placed>>
    BY <1>24 DEF SignInWrites
  <2>2. \A x \in Created : store'[x].count = store[x].count
    BY <1>24, OfStays DEF Step
  <2> QED BY <2>1, <2>2, OwesAsMuch
<1>25. ASSUME NEW h \in Handlers, GoOnline(h) PROVE Owes'
  <2>1. UNCHANGED <<stage, placed>>
    BY <1>25 DEF GoOnline
  <2>2. \A x \in Created : store'[x].count = store[x].count
    BY <1>25, OfStays DEF Step
  <2> QED BY <2>1, <2>2, OwesAsMuch
<1>26. ASSUME NEW h \in Handlers, UpdateStoreOnline(h) PROVE Owes'
  <2>1. UNCHANGED <<stage, placed>>
    BY <1>26 DEF UpdateStoreOnline
  <2>2. \A x \in Created : store'[x].count = store[x].count
    BY <1>26, OfStays DEF Step
  <2> QED BY <2>1, <2>2, OwesAsMuch
<1>27. ASSUME NEW h \in Handlers, ToggleStoreStatus(h) PROVE Owes'
  <2>1. UNCHANGED <<stage, placed>>
    BY <1>27 DEF ToggleStoreStatus
  <2>2. \A x \in Created : store'[x].count = store[x].count
    BY <1>27, OfStays DEF Step
  <2> QED BY <2>1, <2>2, OwesAsMuch
<1>28. ASSUME NEW h \in Handlers, BulkStoresWrite(h) PROVE Owes'
  <2>1. UNCHANGED <<stage, placed>>
    BY <1>28 DEF BulkStoresWrite
  <2>2. \A x \in Created : store'[x].count = store[x].count
    BY <1>28, OfStays DEF Step
  <2> QED BY <2>1, <2>2, OwesAsMuch
<1>29. ASSUME NEW h \in Handlers, DeleteStore(h) PROVE Owes'
  <2>1. UNCHANGED <<stage, placed>>
    BY <1>29 DEF DeleteStore
  <2>2. \A x \in Created : store'[x].count = store[x].count
    BY <1>29, OfStays DEF Step
  <2> QED BY <2>1, <2>2, OwesAsMuch
<1>30. ASSUME NEW h \in Handlers, Crash(h) PROVE Owes'
  BY <1>30 DEF Owes, Held, Crash
<1>31. CASE UNCHANGED vars
  BY <1>31 DEF vars, Owes, Held
<1> QED BY <1>1, <1>2, <1>3, <1>4, <1>5, <1>6, <1>7, <1>8, <1>9, <1>10, <1>11,
           <1>12, <1>13, <1>14, <1>15, <1>16, <1>17, <1>18,
           <1>19, <1>20, <1>21, <1>22, <1>23, <1>24, <1>25, <1>26, <1>27, <1>28,
           <1>29, <1>30, <1>31
           DEF Next, Step, Status

\* Every action keeps what the requests have seen.
LEMMA SeenStep ==
    Types /\ Types' /\ DownInv /\ Where /\ Owes /\ (\A g \in Handlers : Seen(g)) /\
      [Next]_vars
    => \A g \in Handlers : Seen(g)'
<1> SUFFICES ASSUME Types, Types', DownInv, Where, Owes, (\A g \in Handlers : Seen(g)),
                    [Next]_vars PROVE \A g \in Handlers : Seen(g)'
  OBVIOUS
<1>1. ASSUME NEW o \in Owners, NewOwner(o) PROVE \A g \in Handlers : Seen(g)'
  BY <1>1 DEF NewOwner, Seen, BlockingAt
<1>2. ASSUME NEW o \in Owners, NEW s \in Stores, OwnerCreatesStore(o, s)
      PROVE  \A g \in Handlers : Seen(g)'
  BY <1>2 DEF OwnerCreatesStore, Seen, BlockingAt
<1>3. ASSUME NEW h \in Handlers, NEW o \in Owners, OwnerSignsIn(h, o)
      PROVE  \A g \in Handlers : Seen(g)'
  <2>1. Starts(h, "owner_write", {o}, None, "active", {}) /\ UNCHANGED <<stage, placed>>
    BY <1>3, OwnerSignsInStarts
  <2> QED BY <2>1, SeenGoesOn DEF Starts
<1>4. ASSUME NEW h \in Handlers, NEW o \in Owners, NEW to \in Status,
             OwnerStatusReads(h, o, to)
      PROVE  \A g \in Handlers : Seen(g)'
  <2>1. Starts(h, IF to \in Down THEN "owner_count" ELSE "owner_write", {o}, None, to,
          {}) /\ UNCHANGED <<stage, placed>>
    BY <1>4, OwnerStatusReadsStarts
  <2> QED BY <2>1, SeenGoesOn DEF Starts
<1>5. ASSUME NEW h \in Handlers, NEW o \in Owners, NEW s \in Stores,
             AdminReadsOwner(h, o, s)
      PROVE  \A g \in Handlers : Seen(g)'
  <2>1. Starts(h, "create", {o}, s, "pending", {}) /\ UNCHANGED <<stage, placed>>
    BY <1>5, AdminReadsOwnerStarts
  <2> QED BY <2>1, SeenGoesOn DEF Starts
<1>6. ASSUME NEW h \in Handlers, NEW s \in Stores, StoreSignsIn(h, s)
      PROVE  \A g \in Handlers : Seen(g)'
  <2>1. Starts(h, "sign_in", {store[s].of}, s, "none", {}) /\ UNCHANGED <<stage, placed>>
    BY <1>6, StoreSignsInStarts
  <2> QED BY <2>1, SeenGoesOn DEF Starts
<1>7. ASSUME NEW h \in Handlers, NEW s \in Stores, OwnerGoesOnline(h, s)
      PROVE  \A g \in Handlers : Seen(g)'
  <2>1. Starts(h, IF store[s].online THEN "go_offline" ELSE "go_online", {store[s].of},
          s, "none", {}) /\ UNCHANGED <<stage, placed>>
    BY <1>7, OwnerGoesOnlineStarts
  <2> QED BY <2>1, SeenGoesOn DEF Starts
<1>8. ASSUME NEW h \in Handlers, NEW s \in Stores, StoreGoesOnline(h, s)
      PROVE  \A g \in Handlers : Seen(g)'
  <2>1. Starts(h, IF store[s].online THEN "go_offline" ELSE "go_online", {store[s].of},
          s, "none", {}) /\ UNCHANGED <<stage, placed>>
    BY <1>8, StoreGoesOnlineStarts
  <2> QED BY <2>1, SeenGoesOn DEF Starts
<1>9. ASSUME NEW h \in Handlers, NEW s \in Stores, AdminReadsDuty(h, s)
      PROVE  \A g \in Handlers : Seen(g)'
  <2>1. Starts(h, IF store[s].online THEN "duty_off" ELSE "duty_on", {store[s].of}, s,
          "none", {}) /\ UNCHANGED <<stage, placed>>
    BY <1>9, AdminReadsDutyStarts
  <2> QED BY <2>1, SeenGoesOn DEF Starts
<1>10. ASSUME NEW h \in Handlers, NEW s \in Stores, NEW to \in Status,
              ToggleReads(h, s, to)
       PROVE  \A g \in Handlers : Seen(g)'
  <2>1. Starts(h, "toggle", {store[s].of}, s, to, {}) /\ UNCHANGED <<stage, placed>>
    BY <1>10, ToggleReadsStarts
  <2>2. to # "active" => BlockingAt({s}) = {}
    BY <1>10 DEF ToggleReads, MayToggle
  <2> QED BY <2>1, <2>2, SeenGoesOn DEF Starts
<1>11. ASSUME NEW h \in Handlers, NEW s \in Stores, OwnerReadsStore(h, s)
       PROVE  \A g \in Handlers : Seen(g)'
  <2>1. Starts(h, "delete", {store[s].of}, s, "pending", {}) /\ UNCHANGED <<stage, placed>>
    BY <1>11, OwnerReadsStoreStarts
  <2>2. BlockingAt({s}) = {}
    BY <1>11, NothingHeld DEF OwnerReadsStore
  <2> QED BY <2>1, <2>2, SeenGoesOn DEF Starts
<1>12. ASSUME NEW h \in Handlers, NEW P \in SUBSET Owners, BulkOwnersRead(h, P)
       PROVE  \A g \in Handlers : Seen(g)'
  <2>1. PICK O \in SUBSET Owners, S \in SUBSET Stores :
           ActiveAt(S) = {} /\ Starts(h, "bulk_owners", O, None, "none", S \cup O)
    BY <1>12, BulkOwnersReadStarts
  <2>2. UNCHANGED <<stage, placed>>
    BY <1>12, BulkOwnersReadStarts
  <2>3. BlockingAt(S \cup O) = {}
    BY <2>1, NetworkAssumption DEF ActiveAt, BlockingAt, AtStores, Types
  <2> QED BY <2>1, <2>2, <2>3, SeenGoesOn DEF Starts
<1>13. ASSUME NEW h \in Handlers, NEW P \in SUBSET Stores, BulkStoresRead(h, P)
       PROVE  \A g \in Handlers : Seen(g)'
  <2>1. PICK S \in SUBSET Stores, O \in SUBSET Owners :
           BlockingAt(S) = {} /\ Starts(h, "bulk_stores", O, None, "none", S)
    BY <1>13, BulkStoresReadStarts
  <2>2. UNCHANGED <<stage, placed>>
    BY <1>13, BulkStoresReadStarts
  <2> QED BY <2>1, <2>2, SeenGoesOn DEF Starts
<1>14. ASSUME NEW s \in Stores, NEW verified \in BOOLEAN, AdminUpdatesStore(s, verified)
       PROVE  \A g \in Handlers : Seen(g)'
  BY <1>14 DEF AdminUpdatesStore, Seen, BlockingAt
<1>15. ASSUME NEW b \in Bookings, ConfirmStored(b) PROVE \A g \in Handlers : Seen(g)'
  <2>1. placed' = placed
    BY <1>15 DEF ConfirmStored, Goes
  <2> QED BY <1>15, <2>1, ConfirmHeard, SeenHears
<1>16. ASSUME NEW b \in Bookings, CancelBooking(b) PROVE \A g \in Handlers : Seen(g)'
  <2>1. SameRequests /\ UNCHANGED handler
    BY <1>16 DEF CancelBooking, SameRequests
  <2>2. \A c \in Bookings : stage'[c] \in StoreBlocking =>
           stage[c] \in StoreBlocking /\ placed'[c] = placed[c]
    BY <1>16 DEF CancelBooking, StoreBlocking, Types
  <2> QED BY <2>1, <2>2, SeenHears
<1>17. ASSUME NEW b \in Bookings, Travels(b) PROVE \A g \in Handlers : Seen(g)'
  <2>1. placed' = placed
    BY <1>17, Travel DEF Travelled
  <2> QED BY <1>17, <2>1, Travel, TravelHeard, SeenHears
<1>18. ASSUME NEW b \in Bookings, NEW s \in Stores, AssignStore(b, s)
       PROVE  \A g \in Handlers : Seen(g)'
  <2>1. \A c \in Bookings : c # b => stage'[c] = stage[c] /\ placed'[c] = placed[c]
    BY <1>18 DEF AssignStore, Types
  <2> QED BY <1>18, <2>1, HearsOf, SeenHears DEF AssignStore
<1>19. ASSUME NEW h \in Handlers, OwnerStatusCounts(h)
       PROVE  \A g \in Handlers : Seen(g)'
  <2>1. UNCHANGED <<stage, placed>>
    BY <1>19 DEF OwnerStatusCounts
  <2>2. ASSUME NEW S \in SUBSET Stores, ActiveAt(S) = {},
               Now(h, "owner_stores", handler[h].os, handler[h].s, handler[h].to, S, {})
        PROVE  \A g \in Handlers : Seen(g)'
    <3>1. BlockingAt(S) = {}
      BY <2>2 DEF ActiveAt, BlockingAt, AtStores
    <3> QED BY <2>1, <2>2, <3>1, SeenGoesOn
  <2>3. ASSUME Now(h, "idle", {}, None, "none", {}, {}) PROVE \A g \in Handlers : Seen(g)'
    BY <2>1, <2>3, SeenGoesOn
  <2> QED BY <1>19, <2>2, <2>3, CountsOwner
<1>20. ASSUME NEW h \in Handlers, DeactivateOwnerStores(h)
       PROVE  \A g \in Handlers : Seen(g)'
  <2>1. Whose(h) /\ Seen(h)
    BY DEF DownInv
  <2>2. handler[h].do = "owner_stores" /\ UNCHANGED <<stage, placed>>
    BY <1>20 DEF DeactivateOwnerStores, At
  <2>3. ASSUME NEW x \in handler[h].left,
               Now(h, handler[h].do, handler[h].os, handler[h].s, handler[h].to,
            handler[h].left \ {x}, handler[h].late)
        PROVE  \A g \in Handlers : Seen(g)'
    <3>1. BlockingAt(handler[h].left \ {x}) \subseteq handler[h].late
      BY <2>1, <2>2 DEF Seen, BlockingAt
    <3> QED BY <2>2, <2>3, <3>1, SeenGoesOn
  <2>4. ASSUME Now(h, "owner_write", handler[h].os, handler[h].s, handler[h].to,
                   handler[h].left, handler[h].late)
        PROVE \A g \in Handlers : Seen(g)'
    BY <2>2, <2>4, SeenGoesOn
  <2> QED BY <1>20, <2>3, <2>4, DeactivatesStores, <2>1 DEF Takes
<1>21. ASSUME NEW h \in Handlers, WriteOwner(h) PROVE \A g \in Handlers : Seen(g)'
  <2>1. Now(h, "idle", {}, None, "none", {}, {}) /\ UNCHANGED <<stage, placed>>
    BY <1>21, Ended DEF WriteOwner
  <2> QED BY <2>1, SeenGoesOn
<1>22. ASSUME NEW h \in Handlers, BulkOwnersWrite(h) PROVE \A g \in Handlers : Seen(g)'
  <2>1. Whose(h) /\ Seen(h)
    BY DEF DownInv
  <2>2. handler[h].do = "bulk_owners" /\ UNCHANGED <<stage, placed>>
    BY <1>22 DEF BulkOwnersWrite, At
  <2>3. ASSUME NEW x \in handler[h].left,
               Now(h, handler[h].do, handler[h].os, handler[h].s, handler[h].to,
            handler[h].left \ {x}, handler[h].late)
        PROVE  \A g \in Handlers : Seen(g)'
    <3>1. BlockingAt(handler[h].left \ {x}) \subseteq handler[h].late
      BY <2>1, <2>2 DEF Seen, BlockingAt
    <3> QED BY <2>2, <2>3, <3>1, SeenGoesOn
  <2>4. ASSUME Now(h, "idle", {}, None, "none", {}, {}) PROVE \A g \in Handlers : Seen(g)'
    BY <2>2, <2>4, SeenGoesOn
  <2> QED BY <1>22, <2>3, <2>4, BulkTakesOwners DEF Takes
<1>23. ASSUME NEW h \in Handlers, AdminCreatesStore(h)
       PROVE  \A g \in Handlers : Seen(g)'
  <2>1. Now(h, "idle", {}, None, "none", {}, {}) /\ UNCHANGED <<stage, placed>>
    BY <1>23, Ended DEF AdminCreatesStore
  <2> QED BY <2>1, SeenGoesOn
<1>24. ASSUME NEW h \in Handlers, SignInWrites(h) PROVE \A g \in Handlers : Seen(g)'
  <2>1. Now(h, "idle", {}, None, "none", {}, {}) /\ UNCHANGED <<stage, placed>>
    BY <1>24, Ended DEF SignInWrites
  <2> QED BY <2>1, SeenGoesOn
<1>25. ASSUME NEW h \in Handlers, GoOnline(h) PROVE \A g \in Handlers : Seen(g)'
  <2>1. Now(h, "idle", {}, None, "none", {}, {}) /\ UNCHANGED <<stage, placed>>
    BY <1>25, Ended DEF GoOnline
  <2> QED BY <2>1, SeenGoesOn
<1>26. ASSUME NEW h \in Handlers, UpdateStoreOnline(h)
       PROVE  \A g \in Handlers : Seen(g)'
  <2>1. Now(h, "idle", {}, None, "none", {}, {}) /\ UNCHANGED <<stage, placed>>
    BY <1>26, Ended DEF UpdateStoreOnline
  <2> QED BY <2>1, SeenGoesOn
<1>27. ASSUME NEW h \in Handlers, ToggleStoreStatus(h)
       PROVE  \A g \in Handlers : Seen(g)'
  <2>1. Now(h, "idle", {}, None, "none", {}, {}) /\ UNCHANGED <<stage, placed>>
    BY <1>27, Ended DEF ToggleStoreStatus
  <2> QED BY <2>1, SeenGoesOn
<1>28. ASSUME NEW h \in Handlers, BulkStoresWrite(h) PROVE \A g \in Handlers : Seen(g)'
  <2>1. Whose(h) /\ Seen(h)
    BY DEF DownInv
  <2>2. handler[h].do = "bulk_stores" /\ UNCHANGED <<stage, placed>>
    BY <1>28 DEF BulkStoresWrite, At
  <2>3. ASSUME NEW x \in handler[h].left,
               Now(h, handler[h].do, handler[h].os, handler[h].s, handler[h].to,
            handler[h].left \ {x}, handler[h].late)
        PROVE  \A g \in Handlers : Seen(g)'
    <3>1. BlockingAt(handler[h].left \ {x}) \subseteq handler[h].late
      BY <2>1, <2>2 DEF Seen, BlockingAt
    <3> QED BY <2>2, <2>3, <3>1, SeenGoesOn
  <2>4. ASSUME Now(h, "idle", {}, None, "none", {}, {}) PROVE \A g \in Handlers : Seen(g)'
    BY <2>2, <2>4, SeenGoesOn
  <2> QED BY <1>28, <2>3, <2>4, BulkTakesStores, <2>1 DEF Takes
<1>29. ASSUME NEW h \in Handlers, DeleteStore(h) PROVE \A g \in Handlers : Seen(g)'
  <2>1. Now(h, "idle", {}, None, "none", {}, {}) /\ UNCHANGED <<stage, placed>>
    BY <1>29, Ended DEF DeleteStore
  <2> QED BY <2>1, SeenGoesOn
<1>30. ASSUME NEW h \in Handlers, Crash(h) PROVE \A g \in Handlers : Seen(g)'
  <2>1. Now(h, "idle", {}, None, "none", {}, {}) /\ UNCHANGED <<stage, placed>>
    BY <1>30, Ended DEF Crash
  <2> QED BY <2>1, SeenGoesOn
<1>31. CASE UNCHANGED vars
  BY <1>31 DEF vars, Seen, BlockingAt
<1> QED BY <1>1, <1>2, <1>3, <1>4, <1>5, <1>6, <1>7, <1>8, <1>9, <1>10, <1>11,
           <1>12, <1>13, <1>14, <1>15, <1>16, <1>17, <1>18,
           <1>19, <1>20, <1>21, <1>22, <1>23, <1>24, <1>25, <1>26, <1>27, <1>28,
           <1>29, <1>30, <1>31
           DEF Next, Step, Status

\* What StrandsOnlyLateArrivals says of one step.
Strands ==
    \A s \in Stores : \A b \in BlockingAt({s}) :
        store[s].account = "active" /\ store'[s].account # "active"
            => \E h \in Handlers : handler'[h] # handler[h] /\ b \in handler[h].late

\* A store of a list is taken down.
LEMMA TakesStrands ==
    ASSUME NEW h \in Handlers, Seen(h), NEW x \in handler[h].left, x \in Stores,
           Takes(h, x),
           handler[h].do \in {"owner_stores", "bulk_owners", "bulk_stores"}
    PROVE  Strands
<1>1. handler'[h].left # handler[h].left
  BY DEF Takes, Now
<1>2. \A y \in Stores : y # x => store'[y] = store[y]
  BY DEF Takes, Sets
<1>3. BlockingAt({x}) \subseteq handler[h].late
  BY DEF Seen, BlockingAt
<1> QED BY <1>1, <1>2, <1>3 DEF Strands

\* No action strands luggage that was there to be counted.
LEMMA StrandsStep ==
    Types /\ DownInv /\ Where /\ (\A g \in Handlers : Seen(g)) /\ [Next]_vars => Strands
<1> SUFFICES ASSUME Types, DownInv, Where, (\A g \in Handlers : Seen(g)),
                    [Next]_vars PROVE Strands
  OBVIOUS
<1>1. ASSUME NEW o \in Owners, NewOwner(o) PROVE Strands
  BY <1>1 DEF Strands, NewOwner
<1>2. ASSUME NEW o \in Owners, NEW s \in Stores, OwnerCreatesStore(o, s) PROVE Strands
  <2>1. Sets(s, o, "pending", FALSE, FALSE, 0)
    BY <1>2, OwnerCreates
  <2>2. store[s].account # "active" /\ \A x \in Stores : x # s => store'[x] = store[x]
    BY <1>2, <2>1, Owned DEF OwnerCreatesStore, Sets
  <2> QED BY <2>2 DEF Strands
<1>3. ASSUME NEW h \in Handlers, NEW o \in Owners, OwnerSignsIn(h, o) PROVE Strands
  <2>1. UNCHANGED store
    BY <1>3, OwnerSignsInStarts
  <2> QED BY <2>1 DEF Strands
<1>4. ASSUME NEW h \in Handlers, NEW o \in Owners, NEW to \in Status,
             OwnerStatusReads(h, o, to)
      PROVE  Strands
  <2>1. UNCHANGED store
    BY <1>4, OwnerStatusReadsStarts
  <2> QED BY <2>1 DEF Strands
<1>5. ASSUME NEW h \in Handlers, NEW o \in Owners, NEW s \in Stores,
             AdminReadsOwner(h, o, s)
      PROVE  Strands
  <2>1. UNCHANGED store
    BY <1>5, AdminReadsOwnerStarts
  <2> QED BY <2>1 DEF Strands
<1>6. ASSUME NEW h \in Handlers, NEW s \in Stores, StoreSignsIn(h, s) PROVE Strands
  <2>1. UNCHANGED store
    BY <1>6, StoreSignsInStarts
  <2> QED BY <2>1 DEF Strands
<1>7. ASSUME NEW h \in Handlers, NEW s \in Stores, OwnerGoesOnline(h, s) PROVE Strands
  <2>1. UNCHANGED store
    BY <1>7, OwnerGoesOnlineStarts
  <2> QED BY <2>1 DEF Strands
<1>8. ASSUME NEW h \in Handlers, NEW s \in Stores, StoreGoesOnline(h, s) PROVE Strands
  <2>1. UNCHANGED store
    BY <1>8, StoreGoesOnlineStarts
  <2> QED BY <2>1 DEF Strands
<1>9. ASSUME NEW h \in Handlers, NEW s \in Stores, AdminReadsDuty(h, s) PROVE Strands
  <2>1. UNCHANGED store
    BY <1>9, AdminReadsDutyStarts
  <2> QED BY <2>1 DEF Strands
<1>10. ASSUME NEW h \in Handlers, NEW s \in Stores, NEW to \in Status,
              ToggleReads(h, s, to)
       PROVE  Strands
  <2>1. UNCHANGED store
    BY <1>10, ToggleReadsStarts
  <2> QED BY <2>1 DEF Strands
<1>11. ASSUME NEW h \in Handlers, NEW s \in Stores, OwnerReadsStore(h, s) PROVE Strands
  <2>1. UNCHANGED store
    BY <1>11, OwnerReadsStoreStarts
  <2> QED BY <2>1 DEF Strands
<1>12. ASSUME NEW h \in Handlers, NEW P \in SUBSET Owners, BulkOwnersRead(h, P)
       PROVE  Strands
  <2>1. UNCHANGED store
    BY <1>12, BulkOwnersReadStarts
  <2> QED BY <2>1 DEF Strands
<1>13. ASSUME NEW h \in Handlers, NEW P \in SUBSET Stores, BulkStoresRead(h, P)
       PROVE  Strands
  <2>1. UNCHANGED store
    BY <1>13, BulkStoresReadStarts
  <2> QED BY <2>1 DEF Strands
<1>14. ASSUME NEW s \in Stores, NEW verified \in BOOLEAN, AdminUpdatesStore(s, verified)
       PROVE  Strands
  <2>1. \A x \in Stores : store'[x].account = store[x].account
    BY <1>14, AdminUpdates DEF Sets
  <2> QED BY <2>1 DEF Strands
<1>15. ASSUME NEW b \in Bookings, ConfirmStored(b) PROVE Strands
  <2>1. \A x \in Stores : store'[x].account = store[x].account
    BY <1>15, Confirmed DEF Sets
  <2> QED BY <2>1 DEF Strands
<1>16. ASSUME NEW b \in Bookings, CancelBooking(b) PROVE Strands
  <2>1. \A x \in Stores : store'[x].account = store[x].account
    BY <1>16, Cancelled DEF Sets
  <2> QED BY <2>1 DEF Strands
<1>17. ASSUME NEW b \in Bookings, Travels(b) PROVE Strands
  BY <1>17, Travel DEF Strands, Travelled
<1>18. ASSUME NEW b \in Bookings, NEW s \in Stores, AssignStore(b, s) PROVE Strands
  <2>1. \A x \in Stores : store'[x].account = store[x].account
    BY <1>18, Assigned DEF Sets
  <2> QED BY <2>1 DEF Strands
<1>19. ASSUME NEW h \in Handlers, OwnerStatusCounts(h) PROVE Strands
  BY <1>19 DEF Strands, OwnerStatusCounts
<1>20. ASSUME NEW h \in Handlers, DeactivateOwnerStores(h) PROVE Strands
  <2>1. Whose(h) /\ Seen(h) /\ handler[h].do = "owner_stores"
    BY <1>20 DEF DownInv, DeactivateOwnerStores, At
  <2>2. ASSUME NEW x \in handler[h].left, x \in Stores, Takes(h, x) PROVE Strands
    BY <2>1, <2>2, TakesStrands
  <2>3. CASE UNCHANGED store
    BY <2>3 DEF Strands
  <2> QED BY <1>20, <2>1, <2>2, <2>3, DeactivatesStores, <2>1
<1>21. ASSUME NEW h \in Handlers, WriteOwner(h) PROVE Strands
  BY <1>21 DEF Strands, WriteOwner
<1>22. ASSUME NEW h \in Handlers, BulkOwnersWrite(h) PROVE Strands
  <2>1. Whose(h) /\ Seen(h) /\ handler[h].do = "bulk_owners"
    BY <1>22 DEF DownInv, BulkOwnersWrite, At
  <2>2. ASSUME NEW x \in handler[h].left, x \in Stores, Takes(h, x) PROVE Strands
    BY <2>1, <2>2, TakesStrands
  <2>3. CASE UNCHANGED store
    BY <2>3 DEF Strands
  <2> QED BY <1>22, <2>1, <2>2, <2>3, BulkTakesOwners
<1>23. ASSUME NEW h \in Handlers, AdminCreatesStore(h) PROVE Strands
  <2>1. Whose(h)
    BY DEF DownInv
  <2>2. CASE store' = store
    BY <2>2 DEF Strands
  <2>3. ASSUME handler[h].s \notin Created, NEW o, Sets(handler[h].s, o, "pending",
               TRUE, FALSE, 0)
        PROVE  Strands
    <3>1. /\ store[handler[h].s].account # "active"
          /\ \A x \in Stores : x # handler[h].s => store'[x] = store[x]
      BY <1>23, <2>1, <2>3, AdminCreates, Owned DEF Sets
    <3> QED BY <3>1 DEF Strands
  <2> QED BY <1>23, <2>1, <2>2, <2>3, AdminCreates
<1>24. ASSUME NEW h \in Handlers, SignInWrites(h) PROVE Strands
  <2>1. handler[h].s \in Stores
    BY <1>24 DEF SignInWrites, DownInv, Whose, At, ToOneStore
  <2>2. \A x \in Stores : store'[x].account = store[x].account
    BY <1>24, <2>1, SignInSets DEF Sets
  <2> QED BY <2>2 DEF Strands
<1>25. ASSUME NEW h \in Handlers, GoOnline(h) PROVE Strands
  <2>1. handler[h].s \in Stores
    BY <1>25 DEF GoOnline, DownInv, Whose, At, ToOneStore
  <2>2. \A x \in Stores : store'[x].account = store[x].account
    BY <1>25, <2>1, GoOnlineSets DEF Sets
  <2> QED BY <2>2 DEF Strands
<1>26. ASSUME NEW h \in Handlers, UpdateStoreOnline(h) PROVE Strands
  <2>1. handler[h].s \in Stores
    BY <1>26 DEF UpdateStoreOnline, DownInv, Whose, ToOneStore
  <2>2. CASE store' = store
    BY <2>2 DEF Strands
  <2>3. CASE store' # store
    <3>1. \A x \in Stores : store'[x].account = store[x].account
      BY <1>26, <2>1, <2>3, DutySets DEF Sets
    <3> QED BY <3>1 DEF Strands
  <2> QED BY <2>2, <2>3
<1>27. ASSUME NEW h \in Handlers, ToggleStoreStatus(h) PROVE Strands
  <2>1. handler[h].s \in Stores /\ handler[h].do = "toggle" /\
          handler[h].to \in Status /\ Seen(h)
    BY <1>27 DEF ToggleStoreStatus, DownInv, Whose, At, ToOneStore
  <2>2. (\A x \in Stores : x # handler[h].s => store'[x] = store[x]) /\
          store'[handler[h].s].account = handler[h].to
    BY <1>27, <2>1, ToggleSets DEF Sets
  <2>3. handler'[h].do = "idle"
    BY <1>27, Ended DEF ToggleStoreStatus, Now
  <2> SUFFICES ASSUME NEW s \in Stores, NEW b \in BlockingAt({s}),
                      store[s].account = "active", store'[s].account # "active"
               PROVE  handler'[h] # handler[h] /\ b \in handler[h].late
    BY DEF Strands
  <2>4. s = handler[h].s
    BY <2>2
  <2> QED BY <2>1, <2>2, <2>3, <2>4 DEF Seen
<1>28. ASSUME NEW h \in Handlers, BulkStoresWrite(h) PROVE Strands
  <2>1. Whose(h) /\ Seen(h) /\ handler[h].do = "bulk_stores"
    BY <1>28 DEF DownInv, BulkStoresWrite, At
  <2>2. ASSUME NEW x \in handler[h].left, x \in Stores, Takes(h, x) PROVE Strands
    BY <2>1, <2>2, TakesStrands
  <2>3. CASE UNCHANGED store
    BY <2>3 DEF Strands
  <2> QED BY <1>28, <2>1, <2>2, <2>3, BulkTakesStores, <2>1
<1>29. ASSUME NEW h \in Handlers, DeleteStore(h) PROVE Strands
  <2>1. handler[h].s \in Stores /\ handler[h].do = "delete" /\ Seen(h)
    BY <1>29 DEF DeleteStore, DownInv, Whose, At, ToOneStore
  <2>2. (\A x \in Stores : x # handler[h].s => store'[x] = store[x])
    BY <1>29, <2>1, DeleteSets DEF Sets
  <2>3. handler'[h].do = "idle"
    BY <1>29, Ended DEF DeleteStore, Now
  <2> SUFFICES ASSUME NEW s \in Stores, NEW b \in BlockingAt({s}),
                      store[s].account = "active", store'[s].account # "active"
               PROVE  handler'[h] # handler[h] /\ b \in handler[h].late
    BY DEF Strands
  <2>4. s = handler[h].s
    BY <2>2
  <2> QED BY <2>1, <2>2, <2>3, <2>4 DEF Seen
<1>30. ASSUME NEW h \in Handlers, Crash(h) PROVE Strands
  BY <1>30 DEF Strands, Crash
<1>31. CASE UNCHANGED vars
  BY <1>31 DEF vars, Strands
<1> QED BY <1>1, <1>2, <1>3, <1>4, <1>5, <1>6, <1>7, <1>8, <1>9, <1>10, <1>11,
           <1>12, <1>13, <1>14, <1>15, <1>16, <1>17, <1>18,
           <1>19, <1>20, <1>21, <1>22, <1>23, <1>24, <1>25, <1>26, <1>27, <1>28,
           <1>29, <1>30, <1>31
           DEF Next, Step, Status

\* The invariant holds in the beginning.
LEMMA InitEstablishes == Init => NetworkInv
<1> SUFFICES ASSUME Init PROVE NetworkInv
  OBVIOUS
<1>1. NoStore \in StoreType
  BY DEF NoStore, StoreType
<1>2. \A h \in Handlers : handler[h] = Idle
  BY DEF Init
<1>3. Types
  BY <1>1, IdleFields, NetworkAssumption DEF Types, Init, Stages
<1>4. \A s \in Stores : store[s].of = None /\ store[s].account = "none" /\ ~store[s].online
  BY DEF Init, NoStore
<1>5. Uncreated /\ Alone
  BY <1>2, <1>4, IdleFields DEF Uncreated, Created, OutOfService, Alone
<1>6. OwnerDownStoresDown
  BY DEF OwnerDownStoresDown, Init, Down
<1>7. \A h \in Handlers : Whose(h) /\ OwnerUp(h) /\ TakenDown(h)
  BY <1>2, IdleFields DEF Whose, OwnerUp, TakenDown, ToOneStore
<1>8. Where
  BY DEF Where, Init, AtStores, StoreBlocking
<1>9. \A h \in Handlers : Seen(h)
  BY <1>2, IdleFields DEF Seen
<1>10. Owes
  <2>1. \A s \in Stores : Held(s) = {} /\ store[s].count = 0
    BY NetworkAssumption DEF Init, Held, NoStore, AtStores, StoreBlocking
  <2> QED BY <2>1, FS_EmptySet DEF Owes
<1> QED BY <1>3, <1>5, <1>6, <1>7, <1>8, <1>9, <1>10 DEF NetworkInv, DownInv, SeenInv

\* Every step keeps it.
LEMMA StepPreserves == NetworkInv /\ [Next]_vars => NetworkInv'
<1> SUFFICES ASSUME NetworkInv, [Next]_vars PROVE NetworkInv'
  OBVIOUS
<1>1. Types /\ DownInv /\ Where /\ Owes /\ \A h \in Handlers : Seen(h)
  BY DEF NetworkInv, SeenInv
<1>2. Types'
  BY <1>1, TypeStep
<1>3. DownInv' /\ Where' /\ Owes' /\ \A h \in Handlers : Seen(h)'
  BY <1>1, <1>2, DownStep, WhereStep, OwesStep, SeenStep
<1> QED BY <1>2, <1>3 DEF NetworkInv, SeenInv

\* The invariant of the network is inductive: types, the stores of deactivated
\* owners, the places of bookings, the counts of stores, and what requests have seen.
THEOREM NetworkInvariant == Spec => []NetworkInv
<1>1. Init => NetworkInv
  BY InitEstablishes
<1>2. NetworkInv /\ [Next]_vars => NetworkInv'
  BY StepPreserves
<1> QED BY <1>1, <1>2, PTL DEF Spec

\* Type correctness: owners, stores, bookings and requests keep their shapes.
THEOREM TypeCorrect == Spec => []TypeOK
<1>1. NetworkInv => TypeOK
  BY DEF NetworkInv, Types, StoreType, Requests, TypeOK
<1> QED BY <1>1, NetworkInvariant, PTL

\* The stores of a deactivated owner are out of service, as long as the requests
\* about him came one after the other, for any number of stores, of requests about
\* others, and of requests that end between two of their steps.
THEOREM StoresGoWithTheirOwner == Spec => []OwnerDownStoresDown
<1>1. NetworkInv => OwnerDownStoresDown
  BY DEF NetworkInv, DownInv
<1> QED BY <1>1, NetworkInvariant, PTL

\* Whatever overlaps, no store is deactivated over luggage that the count of the
\* request could have seen.
THEOREM OnlyLateArrivalsStranded == Spec => StrandsOnlyLateArrivals
<1>1. NetworkInv /\ [Next]_vars => [Strands]_vars
  BY StrandsStep DEF NetworkInv, SeenInv
<1>2. NetworkInv /\ [Next]_vars =>
        [\A s \in Stores : \A b \in BlockingAt({s}) :
          store[s].account = "active" /\ store'[s].account # "active"
              => \E h \in Handlers : handler'[h] # handler[h] /\ b \in handler[h].late]_vars
  BY <1>1 DEF Strands
<1> QED BY <1>2, NetworkInvariant, PTL DEF Spec, StrandsOnlyLateArrivals

==============================================================================
