------------------------- MODULE SupportDesk_proofs -------------------------
(* The limit of open tickets, the cache of tickets and closed tickets, however   *)
(* requests interleave and break off.                                            *)
(*                                                                               *)
(* The limit is checked two awaits before the ticket is saved, so the limit      *)
(* alone is no invariant of the steps: Room says that a request that counted     *)
(* still has room for one ticket, as long as no other request of the same        *)
(* requester has begun in between (Alone).  The cache needs in the same way that *)
(* a request which read a ticket still knows its messages (Reads), and a closed  *)
(* ticket that a request which writes to a ticket found it open (Writes).        *)
EXTENDS SupportDesk, FiniteSetTheorems, TLAPS

\* What a request does next.
Dos == {"idle", "check", "create", "save", "invalidate", "cache", "cancel_find",
        "cancel_create", "cancel_flag"}

\* The kinds of chat.
Chats == {"TICKET", "BOT_CHAT", "LIVE_CHAT"}

\* A request.
Requests == [do : Dos, r : Requesters \cup {None}, t : Tickets \cup {None},
             about : Requesters \cup Admins \cup {Booking, None}, chat : Chats,
             asks : BOOLEAN, to : TicketStatus \cup {"same"},
             agent : Admins \cup {None, "same"}, live : BOOLEAN, bot : Nat]

\* A ticket.
TicketType == [by : Requesters \cup {None}, user : Users \cup {None},
               booking : {Booking, None}, chat : Chats, live : BOOLEAN,
               status : TicketStatus \cup {"none"}, agent : Admins \cup {None},
               mine : [Requesters -> Nat], msgs : Nat]

\* TypeOK, and what a request does next.
Types ==
    /\ ticket \in [Tickets -> TicketType]
    /\ flagged \in BOOLEAN
    /\ cached \in [Requesters -> [Tickets -> [there : BOOLEAN, mine : Nat]]]
    /\ handler \in [Handlers -> Requests]
    /\ disturbed \subseteq Tickets \cup Requesters /\ beyond \subseteq Tickets
    /\ acts \in 0..MaxActs /\ crashes \in 0..MaxCrash

\* A document that is not there has no fields.
Blank == \A t \in Tickets : ticket[t].status = "none" => ticket[t] = NoTicket

\* The open tickets of a requester that the limit is about.
Within(r) == OpenOf(r) \ beyond

\* What a request is about is there,
About(k) ==
    /\ k.t # None => ticket[k.t].status # "none"
    /\ k.do \in {"check", "create"} =>
          k.r \in Requesters /\ k.t = None /\ k.about \in {Booking, None}
    /\ k.do \in {"save", "invalidate", "cache"} => k.t # None
    /\ k.do \in {"invalidate", "cache", "cancel_find", "cancel_create", "cancel_flag"} =>
          k.r \in Requesters
    /\ k.do = "save" /\ k.about \in Requesters => k.about = k.r

\* ... one that counted a requester's tickets still has room for another,
Room(k) ==
    k.do \in {"check", "create"} /\ k.r \notin disturbed => Cardinality(Within(k.r)) < MaxOpen

\* ... a requester's message goes to a ticket that is open,
Writes(k) ==
    k.do = "save" /\ k.r \in Requesters /\ k.t \notin disturbed => ticket[k.t].status \in OpenStatuses

\* ... and what was read of a ticket is what it is.
Reads(k) ==
    k.do = "cache" /\ k.t \notin disturbed => k.bot = ticket[k.t].mine[k.r]

\* All that, of one request that knows k.
Fit(k) == About(k) /\ Room(k) /\ Writes(k) /\ Reads(k)

\* The form that keeps a request known by name, apart from the handler it is in.
Fits == \A h \in Handlers, k \in Requests : handler[h] = k => Fit(k)

\* Two requests overlap only about what is disturbed.
Alone ==
    \A g \in Handlers, h \in Handlers : g # h =>
       /\ handler[g].t = handler[h].t /\ handler[h].t # None => handler[h].t \in disturbed
       /\ handler[g].t = None /\ handler[h].t = None /\ handler[g].r = handler[h].r
             /\ handler[h].r # None => handler[h].r \in disturbed

\* A cached ticket is there, and has all messages of the requester or is about to go.
Fresher(r, t) ==
    cached[r][t].there =>
       /\ ticket[t].status # "none"
       /\ cached[r][t].mine = ticket[t].mine[r] \/ t \in disturbed
             \/ \E h \in Handlers : At(h, "invalidate") /\ handler[h].r = r /\ handler[h].t = t

\* All caches are like that.
CacheInv == \A r \in Requesters, t \in Tickets : Fresher(r, t)

\* The inductive invariant of the module.
DeskInv == Types /\ Blank /\ OpenLimitHolds /\ Fits /\ Alone /\ CacheInv

\* The fields of a request.
LEMMA Fields ==
    ASSUME Types, NEW h \in Handlers
    PROVE  /\ handler[h] \in Requests /\ handler[h].do \in Dos
           /\ handler[h].r \in Requesters \cup {None} /\ handler[h].t \in Tickets \cup {None}
           /\ handler[h].about \in Requesters \cup Admins \cup {Booking, None}
           /\ handler[h].chat \in Chats /\ handler[h].asks \in BOOLEAN
           /\ handler[h].to \in TicketStatus \cup {"same"}
           /\ handler[h].agent \in Admins \cup {None, "same"}
           /\ handler[h].live \in BOOLEAN /\ handler[h].bot \in Nat
  BY DEF Types, Requests

\* ... of a ticket,
LEMMA TicketFields ==
    ASSUME Types, NEW t \in Tickets
    PROVE  /\ ticket[t] \in TicketType
           /\ ticket[t].by \in Requesters \cup {None} /\ ticket[t].user \in Users \cup {None}
           /\ ticket[t].chat \in Chats /\ ticket[t].live \in BOOLEAN
           /\ ticket[t].status \in TicketStatus \cup {"none"}
           /\ ticket[t].agent \in Admins \cup {None}
           /\ ticket[t].mine \in [Requesters -> Nat] /\ ticket[t].msgs \in Nat
  BY DEF Types, TicketType

\* ... and of no request.
LEMMA IdleFields ==
    /\ Idle \in Requests /\ Idle.do = "idle" /\ Idle.r = None /\ Idle.t = None
    /\ Fit(Idle)
<1>1. Idle \in Requests /\ Idle.do = "idle" /\ Idle.r = None /\ Idle.t = None
  BY DEF Idle, Requests, Dos, Chats
<1>2. Fit(Idle)
  BY <1>1 DEF Fit, About, Room, Writes, Reads
<1> QED BY <1>1, <1>2

\* ... and of a ticket nobody has opened.
LEMMA NoTicketFields ==
    /\ NoTicket \in TicketType /\ NoTicket.status = "none" /\ NoTicket.by = None
    /\ NoTicket.user = None
<1> DEFINE zero == [r \in Requesters |-> 0]
<1>1. zero \in [Requesters -> Nat]
  OBVIOUS
<1>2. NoTicket = [by |-> None, user |-> None, booking |-> None, chat |-> "TICKET",
                  live |-> FALSE, status |-> "none", agent |-> None, mine |-> zero, msgs |-> 0]
  BY DEF NoTicket
<1> HIDE DEF zero
<1> QED BY <1>1, <1>2 DEF TicketType, Chats

\* Nobody is None.
LEMMA Nobody == None \notin Requesters /\ None \notin Tickets
  BY DeskAssumption DEF Requesters

\* The sets of open tickets are finite, and get no larger with fewer members.
LEMMA Finite ==
    ASSUME NEW r
    PROVE  IsFiniteSet(Within(r)) /\ Cardinality(Within(r)) \in Nat
<1>1. Within(r) \subseteq Tickets
  BY DEF Within, OpenOf, TicketsOf
<1>2. IsFiniteSet(Within(r))
  BY <1>1, DeskAssumption, FS_Subset
<1> QED BY <1>2, FS_CardinalityType

\* ... after a step as well,
LEMMA FiniteNext ==
    ASSUME NEW r
    PROVE  IsFiniteSet(Within(r)') /\ Cardinality(Within(r)') \in Nat
<1> DEFINE W == Within(r)'
<1>1. W \subseteq Tickets
  BY DEF Within, OpenOf, TicketsOf
<1> HIDE DEF W
<1>2. IsFiniteSet(W)
  BY <1>1, DeskAssumption, FS_Subset
<1>3. Cardinality(W) \in Nat
  BY <1>2, FS_CardinalityType
<1> QED BY <1>2, <1>3 DEF W

\* ... fewer tickets count for less,
LEMMA Fewer ==
    ASSUME NEW r, Within(r)' \subseteq Within(r)
    PROVE  Cardinality(Within(r)') <= Cardinality(Within(r))
  BY Finite, FS_Subset

\* ... and one more ticket for one.
LEMMA OneMore ==
    ASSUME NEW r, NEW t, Within(r)' \subseteq Within(r) \cup {t}
    PROVE  Cardinality(Within(r)') <= Cardinality(Within(r)) + 1
<1> DEFINE W == Within(r)'
           V == Within(r) \cup {t}
<1> HIDE DEF W
<1>1. IsFiniteSet(V) /\ Cardinality(V) <= Cardinality(Within(r)) + 1
  BY Finite, FS_AddElement
<1>2. W \subseteq V
  BY DEF W
<1> HIDE DEF V
<1>3. Cardinality(W) <= Cardinality(V)
  BY <1>1, <1>2, FS_Subset
<1>4. Cardinality(W) \in Nat /\ Cardinality(V) \in Nat /\ Cardinality(Within(r)) \in Nat
  BY <1>1, Finite, FiniteNext, FS_CardinalityType DEF W
<1>5. Cardinality(W) <= Cardinality(Within(r)) + 1
  BY <1>1, <1>3, <1>4
<1> QED BY <1>5 DEF W

\* Request h goes on with k; the others are as they were.
Hands(h, k) ==
    /\ handler' \in [Handlers -> Requests] /\ handler'[h] = k
    /\ \A g \in Handlers \ {h} : handler'[g] = handler[g]

\* One request is written, the others are as they were.
LEMMA Written ==
    ASSUME Types, NEW h \in Handlers, NEW k \in Requests, handler' = [handler EXCEPT ![h] = k]
    PROVE  Hands(h, k)
  BY DEF Types, Hands

\* A request does something else,
Redo(h, do) == [handler[h] EXCEPT !.do = do]

\* ... which keeps what it knows,
LEMMA Goes ==
    ASSUME Types, NEW h \in Handlers, NEW do \in Dos, Go(h, do)
    PROVE  /\ Hands(h, Redo(h, do)) /\ Redo(h, do) \in Requests
           /\ Redo(h, do).do = do
           /\ Redo(h, do).r = handler[h].r /\ Redo(h, do).t = handler[h].t
           /\ Redo(h, do).about = handler[h].about /\ Redo(h, do).bot = handler[h].bot
<1>1. /\ Redo(h, do) \in Requests
      /\ Redo(h, do).do = do
      /\ Redo(h, do).r = handler[h].r /\ Redo(h, do).t = handler[h].t
      /\ Redo(h, do).about = handler[h].about /\ Redo(h, do).bot = handler[h].bot
  BY Fields DEF Redo, Requests
<1>2. handler' = [handler EXCEPT ![h] = Redo(h, do)]
  BY DEF Go, Redo, Types
<1> QED BY <1>1, <1>2, Written

\* ... or ends.
LEMMA Ends ==
    ASSUME Types, NEW h \in Handlers, End(h)
    PROVE  Hands(h, Idle)
  BY Written, IdleFields DEF End

(* The invariant, step by step. *)

\* What fits a request still does where tickets stay.
LEMMA StillFit ==
    ASSUME NEW k, Fit(k), UNCHANGED <<ticket, beyond>>, disturbed \subseteq disturbed'
    PROVE  Fit(k)'
<1>1. Within(k.r)' = Within(k.r)
  BY DEF Within, OpenOf, TicketsOf
<1>2. Room(k)'
  BY <1>1 DEF Fit, Room
<1>3. About(k)' /\ Writes(k)' /\ Reads(k)'
  BY DEF Fit, About, Writes, Reads
<1> QED BY <1>2, <1>3 DEF Fit

\* The limit holds where tickets stay.
LEMMA StillWithin ==
    ASSUME OpenLimitHolds, UNCHANGED <<ticket, beyond>>
    PROVE  OpenLimitHolds'
  BY DEF OpenLimitHolds, OpenOf, TicketsOf

\* Requests fit where one of them goes on.
LEMMA AllFit ==
    ASSUME Types, NEW h \in Handlers, NEW k \in Requests, Hands(h, k), Fit(k)',
           \A g \in Handlers \ {h} : \A l \in Requests : handler[g] = l => Fit(l)'
    PROVE  Fits'
  BY DEF Fits, Hands

\* Requests still overlap only about what is disturbed.
LEMMA StillAlone ==
    ASSUME Types, Alone, NEW h \in Handlers, NEW k \in Requests, Hands(h, k),
           disturbed \subseteq disturbed',
           \/ k.r = None /\ k.t = None
           \/ k.r = handler[h].r /\ k.t = handler[h].t
    PROVE  Alone'
  BY DEF Alone, Hands

\* ... and caches are as they were.
LEMMA StillFresh ==
    ASSUME Types, CacheInv, NEW h \in Handlers, NEW k \in Requests, Hands(h, k),
           UNCHANGED <<ticket, cached>>, disturbed \subseteq disturbed',
           handler[h].do # "invalidate"
    PROVE  CacheInv'
<1> SUFFICES ASSUME NEW r \in Requesters, NEW t \in Tickets PROVE Fresher(r, t)'
  BY DEF CacheInv
<1>1. Fresher(r, t)
  BY DEF CacheInv
<1>2. ASSUME NEW g \in Handlers, At(g, "invalidate"), handler[g].r = r, handler[g].t = t
      PROVE  At(g, "invalidate")' /\ handler'[g].r = r /\ handler'[g].t = t
  BY <1>2 DEF At, Hands
<1> QED BY <1>1, <1>2 DEF Fresher

\* A request begins.
LEMMA Beginning ==
    ASSUME DeskInv, NEW h \in Handlers, NEW x \in Tickets \cup Requesters, NEW k \in Requests,
           Begin(h, x, k), UNCHANGED <<ticket, flagged, cached, beyond, crashes>>,
           Fit(k), k.t = x \/ (k.t = None /\ k.r = x)
    PROVE  DeskInv'
<1> USE DEF DeskInv
<1>1. /\ Hands(h, k) /\ handler[h].do = "idle" /\ disturbed \subseteq disturbed'
      /\ disturbed' \subseteq disturbed \cup {x}
      /\ \A g \in Handlers : Touches(g, x) => x \in disturbed'
  BY Written, IdleFields DEF Begin
<1>2. Types'
  BY <1>1, DeskAssumption DEF Types, Hands, Begin
<1>3. Blank' /\ OpenLimitHolds'
  BY StillWithin DEF Blank
<1>4. Fits'
  BY <1>1, StillFit, AllFit DEF Fits
<1>5. Alone'
  <2>1. x # None
    BY Nobody
  <2>2. ASSUME NEW g \in Handlers \ {h}
        PROVE  /\ handler[g].t = k.t /\ k.t # None => k.t \in disturbed'
               /\ handler[g].t = None /\ k.t = None /\ handler[g].r = k.r /\ k.r # None
                     => k.r \in disturbed'
    BY <1>1, <2>1 DEF Touches
  <2> QED BY <1>1, <2>2 DEF Alone, Hands
<1>6. CacheInv'
  BY <1>1, StillFresh
<1> QED BY <1>2, <1>3, <1>4, <1>5, <1>6

\* A request that has not changed anything goes on.
LEMMA Passing ==
    ASSUME DeskInv, NEW h \in Handlers, NEW k \in Requests, Hands(h, k), Fit(k),
           handler[h].do # "invalidate", flagged' \in BOOLEAN,
           UNCHANGED <<ticket, cached, disturbed, beyond, acts, crashes>>,
           \/ k.r = None /\ k.t = None
           \/ k.r = handler[h].r /\ k.t = handler[h].t
    PROVE  DeskInv'
<1> USE DEF DeskInv
<1>1. Types'
  BY DEF Types, Hands
<1>2. Blank' /\ OpenLimitHolds'
  BY StillWithin DEF Blank
<1>3. Fits'
  BY StillFit, AllFit DEF Fits
<1>4. Alone' /\ CacheInv'
  BY StillAlone, StillFresh
<1> QED BY <1>1, <1>2, <1>3, <1>4

\* A ticket is opened: either beyond the limit, or by a request that counted.
LEMMA Opening ==
    ASSUME DeskInv, NEW h \in Handlers, NEW k \in Requests, Hands(h, k),
           NEW t \in Tickets, ticket[t].status = "none",
           NEW new \in TicketType, new.status = "open", ticket' = [ticket EXCEPT ![t] = new],
           flagged' \in BOOLEAN, UNCHANGED <<cached, disturbed, acts, crashes>>,
           beyond' = beyond \/ beyond' = beyond \cup {t},
           \A r \in Requesters : (new.by = r \/ new.user = r) /\ t \notin beyond' =>
              handler[h].do = "create" /\ handler[h].r = r /\ r \notin disturbed,
           handler[h].do # "invalidate", Fit(k)',
           \/ k.r = None /\ k.t = None
           \/ k.r = handler[h].r /\ k.t = handler[h].t
           \/ k.t = t
    PROVE  DeskInv'
<1> USE DEF DeskInv
<1>1. Types'
  BY DEF Types, Hands
<1>2. /\ ticket'[t] = new /\ \A u \in Tickets \ {t} : ticket'[u] = ticket[u]
      /\ t \in beyond' => beyond' = beyond \cup {t}
      /\ beyond \subseteq beyond'
  BY DEF Types
<1>3. Blank'
  <2>1. ASSUME NEW u \in Tickets, ticket'[u].status = "none" PROVE ticket'[u] = NoTicket
    BY <1>2, <2>1 DEF Blank
  <2> QED BY <2>1 DEF Blank
<1>4. ASSUME NEW r
      PROVE  /\ Within(r)' \subseteq Within(r) \cup {t}
             /\ t \in beyond' \/ (new.by # r /\ new.user # r) => Within(r)' \subseteq Within(r)
  BY <1>2 DEF Within, OpenOf, TicketsOf
<1>5. ASSUME NEW g \in Handlers
      PROVE  handler[g].t # t /\ Fit(handler[g])
  <2>1. handler[g] \in Requests /\ Fit(handler[g])
    BY Fields DEF Fits
  <2> QED BY <2>1, Nobody DEF Fit, About
<1>6. OpenLimitHolds'
  <2> SUFFICES ASSUME NEW r \in Requesters PROVE Cardinality(Within(r)') <= MaxOpen
    BY DEF OpenLimitHolds, Within
  <2>1. Cardinality(Within(r)) <= MaxOpen
    BY DEF OpenLimitHolds, Within
  <2>2. /\ Cardinality(Within(r)) \in Nat /\ Cardinality(Within(r)') \in Nat
        /\ MaxOpen \in Nat
    BY Finite, FiniteNext, DeskAssumption
  <2>3. CASE Within(r)' \subseteq Within(r)
    BY <2>1, <2>2, <2>3, Fewer
  <2>4. CASE ~(Within(r)' \subseteq Within(r))
    <3>1. handler[h].do = "create" /\ handler[h].r = r /\ r \notin disturbed
      BY <1>4, <2>4
    <3>2. Cardinality(Within(r)) < MaxOpen
      BY <1>5, <3>1 DEF Fit, Room
    <3>3. Cardinality(Within(r)') <= Cardinality(Within(r)) + 1
      BY <1>4, OneMore
    <3> QED BY <2>2, <3>2, <3>3
  <2> QED BY <2>3, <2>4
<1>7. ASSUME NEW g \in Handlers \ {h}, NEW l \in Requests, handler[g] = l PROVE Fit(l)'
  <2>1. Fit(l) /\ l.t # t /\ l.t \in Tickets \cup {None} /\ l.r \in Requesters \cup {None}
    BY <1>5, <1>7, Fields
  <2>2. About(l)' /\ Writes(l)' /\ Reads(l)'
    BY <1>2, <2>1 DEF Fit, About, Writes, Reads
  <2>3. Room(l)'
    <3> SUFFICES ASSUME l.do \in {"check", "create"}, l.r \notin disturbed
                 PROVE  Cardinality(Within(l.r)') < MaxOpen
      BY DEF Room
    <3>1. l.r \in Requesters /\ l.t = None /\ Cardinality(Within(l.r)) < MaxOpen
      BY <2>1 DEF Fit, About, Room
    <3>2. ~(handler[h].do = "create" /\ handler[h].r = l.r)
      <4>1. handler[h].do = "create" => handler[h].t = None
        BY <1>5 DEF Fit, About
      <4> QED BY <1>7, <3>1, <4>1, Nobody DEF Alone
    <3>3. Within(l.r)' \subseteq Within(l.r)
      BY <1>4, <3>1, <3>2
    <3>4. Cardinality(Within(l.r)') <= Cardinality(Within(l.r))
      BY <3>3, Fewer
    <3>5. /\ Cardinality(Within(l.r)) \in Nat /\ Cardinality(Within(l.r)') \in Nat
          /\ MaxOpen \in Nat
      BY Finite, FiniteNext, DeskAssumption
    <3> QED BY <3>1, <3>4, <3>5
  <2> QED BY <2>2, <2>3 DEF Fit
<1>8. Fits'
  BY <1>7, AllFit
<1>9. Alone'
  <2>1. CASE k.t = t
    BY <1>5, <2>1, Nobody DEF Alone, Hands
  <2>2. CASE k.t # t
    BY <2>2, StillAlone
  <2> QED BY <2>1, <2>2
<1>10. CacheInv'
  <2> SUFFICES ASSUME NEW r \in Requesters, NEW u \in Tickets PROVE Fresher(r, u)'
    BY DEF CacheInv
  <2>1. Fresher(r, u)
    BY DEF CacheInv
  <2>2. cached'[r][u].there => u # t
    BY <2>1 DEF Fresher
  <2>3. ASSUME NEW g \in Handlers, At(g, "invalidate"), handler[g].r = r, handler[g].t = u
        PROVE  At(g, "invalidate")' /\ handler'[g].r = r /\ handler'[g].t = u
    BY <2>3 DEF At, Hands
  <2> QED BY <1>2, <2>1, <2>2, <2>3 DEF Fresher
<1> QED BY <1>1, <1>3, <1>6, <1>8, <1>9, <1>10

\* What a save makes of a ticket.
LEMMA SavedFields ==
    ASSUME Types, NEW h \in Handlers, NEW t \in Tickets
    PROVE  LET k == handler[h]  new == Saved(handler[h], ticket[t]) IN
           /\ new \in TicketType
           /\ new.by = ticket[t].by /\ new.user = ticket[t].user
           /\ new.status = IF k.to = "same" THEN ticket[t].status ELSE k.to
           /\ \A r \in Requesters :
                new.mine[r] = IF r = k.about THEN ticket[t].mine[r] + 1 ELSE ticket[t].mine[r]
<1> DEFINE k == handler[h]
           old == ticket[t]
           mine == [r \in Requesters |-> IF r = k.about THEN old.mine[r] + 1 ELSE old.mine[r]]
           msgs == old.msgs + (IF k.about = None THEN 0 ELSE 1) + k.bot
           status == IF k.to = "same" THEN old.status ELSE k.to
           agent == IF k.agent = "same" THEN old.agent ELSE k.agent
           live == old.live \/ k.live
           chat == IF k.live THEN "LIVE_CHAT" ELSE old.chat
<1>1. mine \in [Requesters -> Nat]
  BY TicketFields
<1>2. \A r \in Requesters : mine[r] = IF r = k.about THEN old.mine[r] + 1 ELSE old.mine[r]
  OBVIOUS
<1>3. msgs \in Nat
  BY TicketFields, Fields
<1>4. /\ status \in TicketStatus \cup {"none"} /\ agent \in Admins \cup {None}
      /\ chat \in Chats
  <2>1. status \in TicketStatus \cup {"none"}
    BY TicketFields, Fields
  <2>2. agent \in Admins \cup {None}
    BY TicketFields, Fields
  <2>3. chat \in Chats
    BY TicketFields DEF Chats
  <2> QED BY <2>1, <2>2, <2>3
<1>5. live \in BOOLEAN
  BY TicketFields, Fields
<1>6. Saved(k, old) = [old EXCEPT !.status = status, !.agent = agent, !.live = live,
                                  !.chat = chat, !.mine = mine, !.msgs = msgs]
  BY DEF Saved
<1>7. old \in TicketType
  BY TicketFields
<1>8. status = IF k.to = "same" THEN ticket[t].status ELSE k.to
  OBVIOUS
<1> HIDE DEF mine, msgs, status, agent, live, chat
<1>9. /\ Saved(k, old) \in TicketType
      /\ Saved(k, old).by = old.by /\ Saved(k, old).user = old.user
      /\ Saved(k, old).status = status /\ Saved(k, old).mine = mine
  <2> HIDE DEF old
  <2> QED BY <1>1, <1>3, <1>4, <1>5, <1>6, <1>7 DEF TicketType
<1> QED BY <1>2, <1>8, <1>9

\* A save: the requester's messages are about to go from the cache.
LEMMA Saving ==
    ASSUME DeskInv, NEW h \in Handlers, Saves(h)
    PROVE  DeskInv'
<1> USE DEF DeskInv
<1> DEFINE k == handler[h]
           t == k.t
           new == Saved(k, ticket[t])
<1>1. /\ k.do = "save" /\ ticket' = [ticket EXCEPT ![t] = new]
      /\ UNCHANGED <<flagged, cached, disturbed, acts, crashes>>
  BY DEF Saves, At
<1>2. k \in Requests /\ Fit(k)
  BY Fields DEF Fits
<1>3. t \in Tickets /\ ticket[t].status # "none"
  BY <1>1, <1>2, Fields DEF Fit, About
<1>4. /\ new \in TicketType
      /\ new.by = ticket[t].by /\ new.user = ticket[t].user
      /\ new.status = IF k.to = "same" THEN ticket[t].status ELSE k.to
      /\ \A r \in Requesters :
           new.mine[r] = IF r = k.about THEN ticket[t].mine[r] + 1 ELSE ticket[t].mine[r]
  BY <1>3, SavedFields
<1>5. new.status \in TicketStatus
  BY <1>3, <1>4, TicketFields, Fields DEF TicketStatus, OpenStatuses, ClosedStatuses
<1>6. /\ beyond \subseteq beyond' /\ beyond' \subseteq beyond \cup {t}
      /\ ticket[t].status \in ClosedStatuses /\ new.status \in OpenStatuses => t \in beyond'
  BY <1>4 DEF Saves, OpenStatuses, ClosedStatuses
<1> HIDE DEF new
<1>7. ticket'[t] = new /\ \A u \in Tickets \ {t} : ticket'[u] = ticket[u]
  BY <1>1, <1>3 DEF Types
<1>8. \E l \in Requests :
         /\ Hands(h, l)
         /\ \/ k.r \notin Requesters /\ l = Idle
            \/ k.r \in Requesters /\ l.do = "invalidate" /\ l.r = k.r /\ l.t = t
  <2>1. CASE k.r \in Requesters
    <3>1. Go(h, "invalidate")
      BY <2>1 DEF Saves
    <3> QED BY <2>1, <3>1, Goes DEF Dos
  <2>2. CASE k.r \notin Requesters
    <3>1. End(h)
      BY <2>2 DEF Saves
    <3> QED BY <2>2, <3>1, Ends, IdleFields
  <2> QED BY <2>1, <2>2
<1>9. PICK l \in Requests :
         /\ Hands(h, l)
         /\ \/ k.r \notin Requesters /\ l = Idle
            \/ k.r \in Requesters /\ l.do = "invalidate" /\ l.r = k.r /\ l.t = t
  BY <1>8
<1> HIDE DEF k, t
<1>10. Types'
  <2>1. ticket' \in [Tickets -> TicketType]
    BY <1>1, <1>3, <1>4 DEF Types
  <2>2. beyond' \subseteq Tickets
    BY <1>3, <1>6 DEF Types
  <2> QED BY <1>1, <1>9, <2>1, <2>2 DEF Types, Hands
<1>11. Blank'
  <2>1. ASSUME NEW u \in Tickets, ticket'[u].status = "none" PROVE ticket'[u] = NoTicket
    <3>1. u # t
      BY <1>5, <1>7, <2>1 DEF TicketStatus, OpenStatuses, ClosedStatuses
    <3> QED BY <1>7, <2>1, <3>1 DEF Blank
  <2> QED BY <2>1 DEF Blank
<1>12. ASSUME NEW r PROVE Within(r)' \subseteq Within(r)
  <2>1. new.status \in OpenStatuses /\ t \notin beyond' => ticket[t].status \in OpenStatuses
    BY <1>3, <1>6, TicketFields DEF TicketStatus
  <2> QED BY <1>4, <1>6, <1>7, <2>1 DEF Within, OpenOf, TicketsOf
<1>13. ASSUME NEW r PROVE
         /\ Cardinality(Within(r)') <= Cardinality(Within(r))
         /\ Cardinality(Within(r)) \in Nat /\ Cardinality(Within(r)') \in Nat
         /\ MaxOpen \in Nat
  BY <1>12, Fewer, Finite, FiniteNext, DeskAssumption
<1>14. OpenLimitHolds'
  <2>1. ASSUME NEW r \in Requesters PROVE Cardinality(Within(r)') <= MaxOpen
    <3>1. Cardinality(Within(r)) <= MaxOpen
      BY DEF OpenLimitHolds, Within
    <3> QED BY <1>13, <3>1
  <2> QED BY <2>1 DEF OpenLimitHolds, Within
<1>15. ASSUME NEW m, Room(m) PROVE Room(m)'
  <2> SUFFICES ASSUME m.do \in {"check", "create"}, m.r \notin disturbed
               PROVE  Cardinality(Within(m.r)') < MaxOpen
    BY <1>1 DEF Room
  <2>1. Cardinality(Within(m.r)) < MaxOpen
    BY <1>15 DEF Room
  <2> QED BY <1>13, <2>1
<1>16. ASSUME NEW m \in Requests, About(m) PROVE About(m)'
  <2>1. m.t # None => ticket'[m.t].status # "none"
    <3>1. CASE m.t = t
      BY <1>5, <1>7, <3>1 DEF TicketStatus, OpenStatuses, ClosedStatuses
    <3>2. CASE m.t # t
      <4>1. m.t \in Tickets \cup {None}
        BY DEF Requests
      <4> QED BY <1>7, <1>16, <3>2, <4>1 DEF About
    <3> QED BY <3>1, <3>2
  <2> QED BY <1>16, <2>1 DEF About
<1>17. Fits'
  <2>1. ASSUME NEW g \in Handlers \ {h}, NEW m \in Requests, handler[g] = m PROVE Fit(m)'
    <3>1. Fit(m) /\ m.t \in Tickets \cup {None}
      BY <2>1, Fields DEF Fits
    <3>2. m.t = t => t \in disturbed
      BY <1>3, <2>1, Nobody DEF Alone, k, t
    <3>3. Writes(m)' /\ Reads(m)'
      BY <1>1, <1>7, <3>1, <3>2 DEF Fit, About, Writes, Reads
    <3> QED BY <1>15, <1>16, <3>1, <3>3 DEF Fit
  <2>2. Fit(l)'
    <3>1. CASE l = Idle
      BY <3>1, IdleFields DEF Fit, About, Room, Writes, Reads
    <3>2. CASE l # Idle
      <4>1. l.do = "invalidate" /\ l.r \in Requesters /\ l.t = t
        BY <1>9, <3>2
      <4>2. ticket'[t].status # "none" /\ t # None
        BY <1>3, <1>5, <1>7, Nobody DEF TicketStatus, OpenStatuses, ClosedStatuses
      <4> QED BY <4>1, <4>2 DEF Fit, About, Room, Writes, Reads
    <3> QED BY <3>1, <3>2
  <2> QED BY <1>9, <2>1, <2>2, AllFit
<1>18. Alone'
  <2>1. \/ l.r = None /\ l.t = None
        \/ l.r = handler[h].r /\ l.t = handler[h].t
    BY <1>9, IdleFields DEF k, t
  <2> QED BY <1>1, <1>9, <2>1, StillAlone
<1>19. CacheInv'
  <2> SUFFICES ASSUME NEW r \in Requesters, NEW u \in Tickets PROVE Fresher(r, u)'
    BY DEF CacheInv
  <2>1. Fresher(r, u)
    BY DEF CacheInv
  <2>2. ASSUME NEW g \in Handlers, At(g, "invalidate"), handler[g].r = r, handler[g].t = u
        PROVE  At(g, "invalidate")' /\ handler'[g].r = r /\ handler'[g].t = u
    BY <1>1, <1>9, <2>2 DEF At, Hands, k
  <2>3. CASE u # t
    BY <1>1, <1>7, <2>1, <2>2, <2>3 DEF Fresher
  <2>4. CASE u = t /\ r # k.about
    <3>1. ticket'[u].status # "none" /\ ticket'[u].mine[r] = ticket[u].mine[r]
      BY <1>4, <1>5, <1>7, <2>4 DEF TicketStatus, OpenStatuses, ClosedStatuses
    <3> QED BY <1>1, <2>1, <2>2, <3>1 DEF Fresher
  <2>5. CASE u = t /\ r = k.about
    <3>1. k.r = r
      BY <1>1, <1>2, <2>5 DEF Fit, About
    <3>2. At(h, "invalidate")' /\ handler'[h].r = r /\ handler'[h].t = u
      BY <1>9, <2>5, <3>1 DEF At, Hands
    <3>3. ticket'[u].status # "none"
      BY <1>5, <1>7, <2>5 DEF TicketStatus, OpenStatuses, ClosedStatuses
    <3> QED BY <3>2, <3>3 DEF Fresher
  <2> QED BY <2>3, <2>4, <2>5
<1> QED BY <1>10, <1>11, <1>14, <1>17, <1>18, <1>19

\* A read ticket is cached.
LEMMA Caching ==
    ASSUME DeskInv, NEW h \in Handlers, GetCaches(h)
    PROVE  DeskInv'
<1> USE DEF DeskInv
<1> DEFINE k == handler[h]
           entry == [there |-> TRUE, mine |-> k.bot]
<1>1. /\ k.do = "cache" /\ cached' = [cached EXCEPT ![k.r][k.t] = entry]
      /\ UNCHANGED <<ticket, flagged, disturbed, beyond, acts, crashes>>
  BY DEF GetCaches, At
<1>2. Hands(h, Idle) /\ Idle \in Requests
  BY Ends, IdleFields DEF GetCaches
<1>3. k \in Requests /\ Fit(k)
  BY Fields DEF Fits
<1>4. k.r \in Requesters /\ k.t \in Tickets /\ ticket[k.t].status # "none"
  BY <1>1, <1>3, Fields DEF Fit, About
<1>5. entry \in [there : BOOLEAN, mine : Nat] /\ entry.mine = k.bot
  BY Fields
<1>6. k.t \notin disturbed => k.bot = ticket[k.t].mine[k.r]
  BY <1>1, <1>3 DEF Fit, Reads
<1> HIDE DEF entry
<1>7. /\ cached' \in [Requesters -> [Tickets -> [there : BOOLEAN, mine : Nat]]]
      /\ cached'[k.r][k.t] = entry
      /\ \A r \in Requesters, t \in Tickets :
           r # k.r \/ t # k.t => cached'[r][t] = cached[r][t]
  BY <1>1, <1>4, <1>5 DEF Types
<1>8. Types'
  BY <1>1, <1>2, <1>7 DEF Types, Hands
<1>9. Blank' /\ OpenLimitHolds'
  BY <1>1, StillWithin DEF Blank
<1>10. Fits'
  BY <1>1, <1>2, IdleFields, StillFit, AllFit DEF Fits
<1>11. Alone'
  BY <1>1, <1>2, IdleFields, StillAlone
<1>12. CacheInv'
  <2> SUFFICES ASSUME NEW r \in Requesters, NEW t \in Tickets PROVE Fresher(r, t)'
    BY DEF CacheInv
  <2>1. Fresher(r, t)
    BY DEF CacheInv
  <2>2. ASSUME NEW g \in Handlers, At(g, "invalidate"), handler[g].r = r, handler[g].t = t
        PROVE  At(g, "invalidate")' /\ handler'[g].r = r /\ handler'[g].t = t
    BY <1>1, <1>2, <2>2 DEF At, Hands
  <2>3. CASE r = k.r /\ t = k.t
    BY <1>1, <1>4, <1>5, <1>6, <1>7, <2>3 DEF Fresher
  <2>4. CASE ~(r = k.r /\ t = k.t)
    BY <1>1, <1>7, <2>1, <2>2, <2>4 DEF Fresher
  <2> QED BY <2>3, <2>4
<1> QED BY <1>8, <1>9, <1>10, <1>11, <1>12

\* The cached tickets of a requester go.
LEMMA Invalidating ==
    ASSUME DeskInv, NEW h \in Handlers, Invalidates(h)
    PROVE  DeskInv'
<1> USE DEF DeskInv
<1> DEFINE none == [t \in Tickets |-> Uncached]
<1>1. /\ handler[h].do = "invalidate" /\ cached' = [cached EXCEPT ![handler[h].r] = none]
      /\ UNCHANGED <<ticket, flagged, disturbed, beyond, acts, crashes>>
  BY DEF Invalidates, At, Dropped
<1>2. Hands(h, Idle) /\ Idle \in Requests
  BY Ends, IdleFields DEF Invalidates
<1>3. none \in [Tickets -> [there : BOOLEAN, mine : Nat]] /\ \A t \in Tickets : ~none[t].there
  BY DEF Uncached
<1> HIDE DEF none
<1>4. /\ cached' \in [Requesters -> [Tickets -> [there : BOOLEAN, mine : Nat]]]
      /\ \A r \in Requesters :
           cached'[r] = IF r = handler[h].r THEN none ELSE cached[r]
  BY <1>1, <1>3 DEF Types
<1>5. Types'
  BY <1>1, <1>2, <1>4 DEF Types, Hands
<1>6. Blank' /\ OpenLimitHolds'
  BY <1>1, StillWithin DEF Blank
<1>7. Fits'
  BY <1>1, <1>2, IdleFields, StillFit, AllFit DEF Fits
<1>8. Alone'
  BY <1>1, <1>2, IdleFields, StillAlone
<1>9. CacheInv'
  <2> SUFFICES ASSUME NEW r \in Requesters, NEW t \in Tickets PROVE Fresher(r, t)'
    BY DEF CacheInv
  <2>1. Fresher(r, t)
    BY DEF CacheInv
  <2>2. CASE r = handler[h].r
    BY <1>3, <1>4, <2>2 DEF Fresher
  <2>3. CASE r # handler[h].r
    <3>1. ASSUME NEW g \in Handlers, At(g, "invalidate"), handler[g].r = r, handler[g].t = t
          PROVE  At(g, "invalidate")' /\ handler'[g].r = r /\ handler'[g].t = t
      BY <1>2, <2>3, <3>1 DEF At, Hands
    <3> QED BY <1>1, <1>4, <2>1, <2>3, <3>1 DEF Fresher
  <2> QED BY <2>2, <2>3
<1> QED BY <1>5, <1>6, <1>7, <1>8, <1>9

\* One of them expires.
LEMMA Expiring ==
    ASSUME DeskInv, NEW r \in Requesters, NEW t \in Tickets, CacheExpires(r, t)
    PROVE  DeskInv'
<1> USE DEF DeskInv
<1>1. /\ cached' = [cached EXCEPT ![r][t] = Uncached]
      /\ UNCHANGED <<ticket, flagged, handler, disturbed, beyond, acts, crashes>>
  BY DEF CacheExpires
<1>2. Uncached \in [there : BOOLEAN, mine : Nat] /\ ~Uncached.there
  BY DEF Uncached
<1>3. /\ cached' \in [Requesters -> [Tickets -> [there : BOOLEAN, mine : Nat]]]
      /\ cached'[r][t] = Uncached
      /\ \A q \in Requesters, u \in Tickets : q # r \/ u # t => cached'[q][u] = cached[q][u]
  BY <1>1, <1>2 DEF Types
<1>4. Types'
  BY <1>1, <1>3 DEF Types
<1>5. Blank' /\ OpenLimitHolds'
  BY <1>1, StillWithin DEF Blank
<1>6. Fits'
  BY <1>1, StillFit DEF Fits
<1>7. Alone'
  BY <1>1 DEF Alone
<1>8. CacheInv'
  <2> SUFFICES ASSUME NEW q \in Requesters, NEW u \in Tickets PROVE Fresher(q, u)'
    BY DEF CacheInv
  <2>1. Fresher(q, u)
    BY DEF CacheInv
  <2> QED BY <1>1, <1>2, <1>3, <2>1 DEF Fresher, At
<1> QED BY <1>4, <1>5, <1>6, <1>7, <1>8

\* A request breaks off.
LEMMA Crashing ==
    ASSUME DeskInv, NEW h \in Handlers, Crash(h)
    PROVE  DeskInv'
<1> USE DEF DeskInv
<1>1. /\ crashes < MaxCrash /\ crashes' = crashes + 1
      /\ disturbed' = disturbed \cup ({handler[h].t, handler[h].r} \ {None})
      /\ UNCHANGED <<ticket, flagged, cached, beyond, acts>>
  BY DEF Crash
<1>2. Hands(h, Idle) /\ Idle \in Requests
  BY Ends, IdleFields DEF Crash
<1>3. disturbed \subseteq disturbed' /\ disturbed' \subseteq Tickets \cup Requesters
  BY <1>1, Fields DEF Types
<1>4. crashes' \in 0..MaxCrash
  BY <1>1, DeskAssumption DEF Types
<1>5. Types'
  BY <1>1, <1>2, <1>3, <1>4 DEF Types, Hands
<1>6. Blank' /\ OpenLimitHolds'
  BY <1>1, StillWithin DEF Blank
<1>7. Fits'
  <2>1. Fit(Idle)'
    BY <1>1, <1>3, IdleFields, StillFit
  <2> QED BY <1>1, <1>2, <1>3, <2>1, StillFit, AllFit DEF Fits
<1>8. Alone'
  BY <1>2, <1>3, IdleFields, StillAlone
<1>9. CacheInv'
  <2> SUFFICES ASSUME NEW r \in Requesters, NEW t \in Tickets PROVE Fresher(r, t)'
    BY DEF CacheInv
  <2>1. Fresher(r, t)
    BY DEF CacheInv
  <2>2. ASSUME NEW g \in Handlers, At(g, "invalidate"), handler[g].r = r, handler[g].t = t
        PROVE  \/ At(g, "invalidate")' /\ handler'[g].r = r /\ handler'[g].t = t
               \/ t \in disturbed'
    BY <1>1, <1>2, <2>2, Nobody DEF At, Hands
  <2> QED BY <1>1, <1>3, <2>1, <2>2 DEF Fresher
<1> QED BY <1>5, <1>6, <1>7, <1>8, <1>9

(* Every action. *)

\* A requester's tickets are tickets that somebody opened.
LEMMA Owned ==
    ASSUME Types, Blank, NEW r \in Requesters, NEW t \in Tickets, t \in TicketsOf(r)
    PROVE  ticket[t].status # "none"
  BY NoTicketFields, Nobody DEF Blank, TicketsOf

\* A new ticket is counted first.
LEMMA CreateCountsStep ==
    ASSUME DeskInv, NEW h \in Handlers, NEW r \in Requesters, NEW about \in {None, Booking},
           NEW chat \in Chats, NEW asks \in BOOLEAN, CreateCounts(h, r, about, chat, asks)
    PROVE  DeskInv'
<1> DEFINE k == [Idle EXCEPT !.do = "check", !.r = r, !.about = about, !.chat = chat,
                             !.asks = asks]
<1>1. k \in Requests /\ k.do = "check" /\ k.r = r /\ k.t = None /\ k.about = about
  BY DEF Idle, Requests, Dos, Chats
<1>2. Begin(h, r, k) /\ UNCHANGED <<ticket, flagged, cached, beyond, crashes>>
  BY DEF CreateCounts
<1> HIDE DEF k
<1>3. Cardinality(Within(r)) < MaxOpen
  <2> DEFINE O == OpenOf(r)
             W == Within(r)
  <2>1. O \subseteq Tickets /\ W \subseteq O
    BY DEF OpenOf, TicketsOf, Within
  <2>2. Cardinality(O) < MaxOpen
    BY DEF CreateCounts, Counted
  <2> HIDE DEF O, W
  <2>3. IsFiniteSet(O)
    BY <2>1, DeskAssumption, FS_Subset
  <2>4. IsFiniteSet(W) /\ Cardinality(W) <= Cardinality(O)
    BY <2>1, <2>3, FS_Subset
  <2>5. Cardinality(O) \in Nat /\ Cardinality(W) \in Nat /\ MaxOpen \in Nat
    BY <2>3, <2>4, FS_CardinalityType, DeskAssumption
  <2>6. Cardinality(W) < MaxOpen
    BY <2>2, <2>4, <2>5
  <2> QED BY <2>6 DEF W
<1>4. Fit(k)
  BY <1>1, <1>3 DEF Fit, About, Room, Writes, Reads
<1> QED BY <1>1, <1>2, <1>4, Beginning

\* The booking named has no open ticket yet, or the request ends.
LEMMA CreateChecksStep ==
    ASSUME DeskInv, NEW h \in Handlers, CreateChecks(h)
    PROVE  DeskInv'
<1> USE DEF DeskInv
<1>1. /\ handler[h].do = "check"
      /\ UNCHANGED <<ticket, flagged, cached, disturbed, beyond, acts, crashes>>
  BY DEF CreateChecks, At
<1>2. handler[h] \in Requests /\ Fit(handler[h]) /\ flagged' \in BOOLEAN
  BY <1>1, Fields DEF Fits, Types
<1>3. CASE End(h)
  BY <1>1, <1>2, <1>3, Ends, IdleFields, Passing
<1>4. CASE Go(h, "create")
  <2>1. /\ Hands(h, Redo(h, "create")) /\ Redo(h, "create") \in Requests
        /\ Redo(h, "create").do = "create"
        /\ Redo(h, "create").r = handler[h].r /\ Redo(h, "create").t = handler[h].t
        /\ Redo(h, "create").about = handler[h].about
    BY <1>4, Goes DEF Dos
  <2>2. Fit(Redo(h, "create"))
    BY <1>1, <1>2, <2>1 DEF Fit, About, Room, Writes, Reads
  <2> QED BY <1>1, <1>2, <2>1, <2>2, Passing
<1> QED BY <1>3, <1>4 DEF CreateChecks

\* What a request knows is what a new ticket is.
LEMMA OpenedFields ==
    ASSUME NEW r \in Requesters, NEW u \in Users \cup {None}, NEW about \in {Booking, None},
           NEW chat \in Chats, NEW live \in BOOLEAN
    PROVE  /\ Opened(r, u, about, chat, live) \in TicketType
           /\ Opened(r, u, about, chat, live).status = "open"
           /\ Opened(r, u, about, chat, live).by = r
           /\ Opened(r, u, about, chat, live).user = u
<1> DEFINE mine == [x \in Requesters |-> IF x = r THEN 1 ELSE 0]
           zero == [x \in Requesters |-> 0]
<1>1. mine \in [Requesters -> Nat]
  OBVIOUS
<1>2. /\ NoTicket = [by |-> None, user |-> None, booking |-> None, chat |-> "TICKET",
                     live |-> FALSE, status |-> "none", agent |-> None, mine |-> zero,
                     msgs |-> 0]
      /\ Opened(r, u, about, chat, live) =
           [NoTicket EXCEPT !.by = r, !.user = u, !.booking = about, !.chat = chat,
                            !.live = live, !.status = "open", !.msgs = 1, !.mine = mine]
  BY DEF Opened, NoTicket
<1> HIDE DEF mine, zero
<1>3. Opened(r, u, about, chat, live) =
        [by |-> r, user |-> u, booking |-> about, chat |-> chat, live |-> live,
         status |-> "open", agent |-> None, mine |-> mine, msgs |-> 1]
  BY <1>2
<1>4. r \in Requesters \cup {None} /\ "open" \in TicketStatus \cup {"none"} /\ 1 \in Nat
  BY DEF TicketStatus, OpenStatuses
<1> QED BY <1>1, <1>3, <1>4 DEF TicketType

\* A document that is not there yet.
LEMMA FreshFree ==
    ASSUME NEW t \in Fresh PROVE t \in Tickets /\ ticket[t].status = "none"
<1> DEFINE free == {u \in Tickets : ticket[u].status = "none"}
<1>1. free # {} /\ t = CHOOSE u \in free : TRUE
  BY DEF Fresh
<1>2. t \in free
  BY <1>1
<1> QED BY <1>2

\* The ticket of a request that counted.
LEMMA CreateSavesStep ==
    ASSUME DeskInv, NEW h \in Handlers, CreateSaves(h)
    PROVE  DeskInv'
<1> USE DEF DeskInv
<1> DEFINE k == handler[h]
           user == IF k.r \in Users THEN k.r ELSE None
           new == Opened(k.r, user, k.about, k.chat, FALSE)
<1>1. k.do = "create" /\ UNCHANGED <<flagged, cached, disturbed, acts, crashes>>
  BY DEF CreateSaves, At
<1>2. PICK t \in Fresh :
        /\ ticket' = [ticket EXCEPT ![t] = new]
        /\ handler' = [handler EXCEPT ![h] =
                         IF k.asks
                         THEN [Idle EXCEPT !.do = "save", !.r = k.r, !.t = t, !.live = TRUE,
                           !.bot = 1]
                         ELSE IF k.chat = "BOT_CHAT" THEN Idle
                         ELSE [Idle EXCEPT !.do = "invalidate", !.r = k.r, !.t = t]]
        /\ beyond' = IF k.r \in disturbed THEN beyond \cup {t} ELSE beyond
  BY DEF CreateSaves
<1>3. k \in Requests /\ Fit(k)
  BY Fields DEF Fits
<1>4. k.r \in Requesters /\ k.about \in {Booking, None} /\ k.chat \in Chats
  BY <1>1, <1>3, Fields DEF Fit, About
<1>5. /\ new \in TicketType /\ new.status = "open" /\ new.by = k.r
      /\ new.user = user
  <2>1. user \in Users \cup {None}
    OBVIOUS
  <2> HIDE DEF user, k
  <2>2. ASSUME NEW r \in Requesters, NEW about \in {Booking, None}, NEW chat \in Chats,
               NEW u \in Users \cup {None}, r = k.r, about = k.about, chat = k.chat, u = user
        PROVE  new \in TicketType /\ new.status = "open" /\ new.by = k.r /\ new.user = user
    <3>1. new = Opened(r, u, about, chat, FALSE)
      BY <2>2 DEF new
    <3> HIDE DEF new
    <3>2. \E mine : new = [by |-> r, user |-> u, booking |-> about, chat |-> chat, live |-> FALSE,
                           status |-> "open", agent |-> None, mine |-> mine, msgs |-> 1]
      BY <3>1 DEF Opened, NoTicket
    <3>3. new.status = "open" /\ new.by = r /\ new.user = u
      BY <3>2
    <3>4. FALSE \in BOOLEAN
      OBVIOUS
    <3>5. new \in TicketType
      BY <3>1, <3>4, OpenedFields
    <3> QED BY <2>2, <3>3, <3>5
  <2> HIDE DEF new
  <2> QED BY <1>4, <2>1, <2>2
<1>6. new.user = k.r \/ new.user = None
  BY <1>5
<1>7. t \in Tickets /\ ticket[t].status = "none"
  BY FreshFree
<1> HIDE DEF new
<1>8. ticket'[t] = new
  BY <1>2, <1>7 DEF Types
<1>9. \E l \in Requests :
         /\ handler' = [handler EXCEPT ![h] = l]
         /\ \/ l = Idle
            \/ l.do = "save" /\ l.r = k.r /\ l.t = t /\ l.about = None
            \/ l.do = "invalidate" /\ l.r = k.r /\ l.t = t
  <2> DEFINE a == [Idle EXCEPT !.do = "save", !.r = k.r, !.t = t, !.live = TRUE, !.bot = 1]
             b == [Idle EXCEPT !.do = "invalidate", !.r = k.r, !.t = t]
  <2>1. a \in Requests /\ a.do = "save" /\ a.r = k.r /\ a.t = t /\ a.about = None
    BY <1>4, <1>7 DEF Idle, Requests, Dos, Chats
  <2>2. b \in Requests /\ b.do = "invalidate" /\ b.r = k.r /\ b.t = t
    BY <1>4, <1>7 DEF Idle, Requests, Dos, Chats
  <2>3. handler' = [handler EXCEPT ![h] =
                      IF k.asks THEN a ELSE IF k.chat = "BOT_CHAT" THEN Idle ELSE b]
    BY <1>2
  <2> HIDE DEF a, b
  <2> QED BY <2>1, <2>2, <2>3, IdleFields
<1>10. PICK l \in Requests :
         /\ handler' = [handler EXCEPT ![h] = l]
         /\ \/ l = Idle
            \/ l.do = "save" /\ l.r = k.r /\ l.t = t /\ l.about = None
            \/ l.do = "invalidate" /\ l.r = k.r /\ l.t = t
  BY <1>9
<1>11. Hands(h, l)
  BY <1>10, Written
<1>12. Fit(l)'
  <2>1. CASE l = Idle
    BY <2>1, IdleFields DEF Fit, About, Room, Writes, Reads
  <2>2. CASE l # Idle
    <3>1. l.do \in {"save", "invalidate"} /\ l.r = k.r /\ l.t = t
          /\ (l.do = "save" => l.about = None)
      BY <1>10, <2>2
    <3> QED BY <1>4, <1>5, <1>7, <1>8, <3>1, Nobody
            DEF Fit, About, Room, Writes, Reads, OpenStatuses
  <2> QED BY <2>1, <2>2
<1>13. \A r \in Requesters : (new.by = r \/ new.user = r) /\ t \notin beyond' =>
          k.do = "create" /\ k.r = r /\ r \notin disturbed
  BY <1>1, <1>2, <1>5, <1>6, Nobody
<1>14. (l.r = None /\ l.t = None) \/ l.t = t
  BY <1>10, IdleFields
<1>15. beyond' = beyond \/ beyond' = beyond \cup {t}
  BY <1>2
<1>16. flagged' \in BOOLEAN /\ k.do # "invalidate"
  BY <1>1 DEF Types
<1> HIDE DEF k
<1> QED BY <1>1, <1>2, <1>5, <1>7, <1>11, <1>12, <1>13, <1>14, <1>15, <1>16, Opening
           DEF k

\* A requester writes to a ticket,
LEMMA ReplyReadsStep ==
    ASSUME DeskInv, NEW h \in Handlers, NEW r \in Requesters, NEW t \in Tickets,
           NEW asks \in BOOLEAN, ReplyReads(h, r, t, asks)
    PROVE  DeskInv'
<1> USE DEF DeskInv
<1> DEFINE to == Changed(t, StatusAfter(t, asks))
           live == BotAnswers(t) /\ asks
           bot == IF BotAnswers(t) THEN 1 ELSE 0
           k == [Idle EXCEPT !.do = "save", !.r = r, !.t = t, !.about = r, !.to = to,
                             !.live = live, !.bot = bot]
<1>1. /\ ticket[t].status \in OpenStatuses
      /\ Begin(h, t, k) /\ UNCHANGED <<ticket, flagged, cached, beyond, crashes>>
  BY DEF ReplyReads, MayReply
<1>2. to \in TicketStatus \cup {"same"}
  BY <1>1 DEF Changed, StatusAfter, TicketStatus, OpenStatuses
<1>3. live \in BOOLEAN /\ bot \in Nat
  BY DEF BotAnswers
<1> HIDE DEF to, live, bot
<1>4. /\ k \in Requests /\ k.do = "save" /\ k.r = r /\ k.t = t /\ k.about = r
  BY <1>2, <1>3 DEF Idle, Requests, Dos, Chats
<1> HIDE DEF k
<1>5. Fit(k)
  BY <1>1, <1>4, Nobody DEF Fit, About, Room, Writes, Reads, OpenStatuses
<1> QED BY <1>1, <1>4, <1>5, Beginning

\* ... or asks for a person.
LEMMA EscalateReadsStep ==
    ASSUME DeskInv, NEW h \in Handlers, NEW r \in Requesters, NEW t \in Tickets,
           EscalateReads(h, r, t)
    PROVE  DeskInv'
<1> USE DEF DeskInv
<1> DEFINE to == Changed(t, "open")
           k == [Idle EXCEPT !.do = "save", !.r = r, !.t = t, !.to = to, !.live = TRUE,
                             !.bot = 1]
<1>1. /\ ticket[t].status \in OpenStatuses
      /\ Begin(h, t, k) /\ UNCHANGED <<ticket, flagged, cached, beyond, crashes>>
  BY DEF EscalateReads
<1>2. to \in TicketStatus \cup {"same"}
  BY DEF Changed, TicketStatus, OpenStatuses
<1> HIDE DEF to
<1>3. k \in Requests /\ k.do = "save" /\ k.r = r /\ k.t = t /\ k.about = None
  BY <1>2 DEF Idle, Requests, Dos, Chats
<1> HIDE DEF k
<1>4. Fit(k)
  BY <1>1, <1>3, Nobody DEF Fit, About, Room, Writes, Reads, OpenStatuses
<1> QED BY <1>1, <1>3, <1>4, Beginning

\* An administrator's request fits whatever it read.
LEMMA AdminBegins ==
    ASSUME DeskInv, NEW h \in Handlers, NEW t \in Tickets, NEW k \in Requests,
           Begin(h, t, k), UNCHANGED <<ticket, flagged, cached, beyond, crashes>>,
           ticket[t].status # "none", k.do = "save", k.r = None, k.t = t,
           k.about \notin Requesters
    PROVE  DeskInv'
<1>1. Fit(k)
  BY Nobody DEF Fit, About, Room, Writes, Reads
<1> QED BY <1>1, Beginning

\* An administrator answers,
LEMMA AdminReadsStep ==
    ASSUME DeskInv, NEW h \in Handlers, NEW a \in Admins, NEW t \in Tickets,
           NEW status \in Answers, AdminReads(h, a, t, status)
    PROVE  DeskInv'
<1> DEFINE to == Changed(t, status)
           agent == IF ticket[t].agent = None THEN a ELSE "same"
           k == [Idle EXCEPT !.do = "save", !.t = t, !.about = a, !.to = to, !.agent = agent]
<1>1. /\ ticket[t].status # "none"
      /\ Begin(h, t, k) /\ UNCHANGED <<ticket, flagged, cached, beyond, crashes>>
  BY DEF AdminReads
<1>2. to \in TicketStatus \cup {"same"} /\ agent \in Admins \cup {None, "same"}
  BY DeskAssumption DEF Changed, TicketStatus, OpenStatuses, ClosedStatuses
<1> HIDE DEF to, agent
<1>3. k \in Requests /\ k.do = "save" /\ k.r = None /\ k.t = t /\ k.about = a
  BY <1>2 DEF Idle, Requests, Dos, Chats
<1> HIDE DEF k
<1>4. a \notin Requesters
  BY DeskAssumption DEF Requesters
<1> QED BY <1>1, <1>3, <1>4, AdminBegins

\* ... sets a status
LEMMA StatusReadsStep ==
    ASSUME DeskInv, NEW h \in Handlers, NEW t \in Tickets, NEW status \in Answers,
           StatusReads(h, t, status)
    PROVE  DeskInv'
<1> DEFINE to == Changed(t, status)
           k == [Idle EXCEPT !.do = "save", !.t = t, !.to = to]
<1>1. /\ ticket[t].status # "none"
      /\ Begin(h, t, k) /\ UNCHANGED <<ticket, flagged, cached, beyond, crashes>>
  BY DEF StatusReads
<1>2. to \in TicketStatus \cup {"same"}
  BY DeskAssumption DEF Changed, TicketStatus, OpenStatuses, ClosedStatuses
<1> HIDE DEF to
<1>3. k \in Requests /\ k.do = "save" /\ k.r = None /\ k.t = t /\ k.about = None
  BY <1>2 DEF Idle, Requests, Dos, Chats
<1> HIDE DEF k
<1> QED BY <1>1, <1>3, AdminBegins, Nobody

\* ... or assigns the ticket.
LEMMA AssignReadsStep ==
    ASSUME DeskInv, NEW h \in Handlers, NEW a \in Admins \cup {None}, NEW t \in Tickets,
           AssignReads(h, a, t)
    PROVE  DeskInv'
<1> DEFINE to == IF ticket[t].status = "open" THEN "in_progress" ELSE "same"
           k == [Idle EXCEPT !.do = "save", !.t = t, !.agent = a, !.to = to]
<1>1. /\ ticket[t].status # "none"
      /\ Begin(h, t, k) /\ UNCHANGED <<ticket, flagged, cached, beyond, crashes>>
  BY DEF AssignReads
<1>2. to \in TicketStatus \cup {"same"}
  BY DEF TicketStatus, OpenStatuses
<1> HIDE DEF to
<1>3. k \in Requests /\ k.do = "save" /\ k.r = None /\ k.t = t /\ k.about = None
  BY <1>2 DEF Idle, Requests, Dos, Chats
<1> HIDE DEF k
<1> QED BY <1>1, <1>3, AdminBegins, Nobody

\* A requester reads a ticket that the cache has not.
LEMMA GetReadsStep ==
    ASSUME DeskInv, NEW h \in Handlers, NEW r \in Requesters, NEW t \in Tickets,
           GetReads(h, r, t)
    PROVE  DeskInv'
<1> USE DEF DeskInv
<1> DEFINE bot == ticket[t].mine[r]
           k == [Idle EXCEPT !.do = "cache", !.r = r, !.t = t, !.bot = bot]
<1>1. /\ t \in TicketsOf(r)
      /\ Begin(h, t, k) /\ UNCHANGED <<ticket, flagged, cached, beyond, crashes>>
  BY DEF GetReads
<1>2. bot \in Nat
  BY TicketFields
<1>3. ticket[t].status # "none"
  BY <1>1, Owned
<1> HIDE DEF bot
<1>4. k \in Requests /\ k.do = "cache" /\ k.r = r /\ k.t = t /\ k.bot = bot
  BY <1>2 DEF Idle, Requests, Dos, Chats
<1> HIDE DEF k
<1>5. Fit(k)
  BY <1>3, <1>4, Nobody DEF Fit, About, Room, Writes, Reads, bot
<1> QED BY <1>1, <1>4, <1>5, Beginning

\* A driver asks to give up his ride,
LEMMA CancelReadsStep ==
    ASSUME DeskInv, NEW h \in Handlers, NEW d \in Drivers, CancelReads(h, d)
    PROVE  DeskInv'
<1> DEFINE k == [Idle EXCEPT !.do = "cancel_find", !.r = d, !.about = Booking]
<1>1. Begin(h, d, k) /\ UNCHANGED <<ticket, flagged, cached, beyond, crashes>>
  BY DEF CancelReads
<1>2. d \in Requesters
  BY DEF Requesters
<1>3. k \in Requests /\ k.do = "cancel_find" /\ k.r = d /\ k.t = None
  BY <1>2 DEF Idle, Requests, Dos, Chats
<1> HIDE DEF k
<1>4. Fit(k)
  BY <1>2, <1>3 DEF Fit, About, Room, Writes, Reads
<1> QED BY <1>1, <1>2, <1>3, <1>4, Beginning

\* ... step by step.
LEMMA CancelGoes ==
    ASSUME DeskInv, NEW h \in Handlers, NEW do \in {"cancel_create", "cancel_flag"},
           handler[h].do \in {"cancel_find", "cancel_create"}, Go(h, do)
    PROVE  /\ Hands(h, Redo(h, do)) /\ Redo(h, do) \in Requests
           /\ Redo(h, do).r = handler[h].r /\ Redo(h, do).t = handler[h].t
           /\ Fit(Redo(h, do)) /\ handler[h].r \in Requesters
           /\ Redo(h, do).do = do
<1> USE DEF DeskInv
<1>1. handler[h] \in Requests /\ Fit(handler[h])
  BY Fields DEF Fits
<1>2. /\ Hands(h, Redo(h, do)) /\ Redo(h, do) \in Requests
      /\ Redo(h, do).do = do
      /\ Redo(h, do).r = handler[h].r /\ Redo(h, do).t = handler[h].t
  BY Goes DEF Dos
<1>3. handler[h].r \in Requesters
  BY <1>1 DEF Fit, About
<1>4. Fit(Redo(h, do))
  BY <1>1, <1>2, <1>3 DEF Fit, About, Room, Writes, Reads
<1> QED BY <1>2, <1>3, <1>4

\* A ticket about the ride is there or not.
LEMMA CancelFindsStep ==
    ASSUME DeskInv, NEW h \in Handlers, CancelFinds(h)
    PROVE  DeskInv'
<1>1. /\ handler[h].do = "cancel_find" /\ (Go(h, "cancel_flag") \/ Go(h, "cancel_create"))
      /\ UNCHANGED <<ticket, flagged, cached, disturbed, beyond, acts, crashes>>
  BY DEF CancelFinds, At
<1>2. flagged' \in BOOLEAN
  BY <1>1 DEF DeskInv, Types
<1>3. ASSUME NEW do \in {"cancel_create", "cancel_flag"}, Go(h, do) PROVE DeskInv'
  BY <1>1, <1>2, <1>3, CancelGoes, Passing
<1> QED BY <1>1, <1>3

\* The ticket on the customer's account, beyond the limit.
LEMMA CancelCreatesStep ==
    ASSUME DeskInv, NEW h \in Handlers, NEW u \in Users, CancelCreates(h, u)
    PROVE  DeskInv'
<1> USE DEF DeskInv
<1> DEFINE new == Opened(handler[h].r, u, Booking, "TICKET", TRUE)
<1>1. /\ handler[h].do = "cancel_create" /\ Go(h, "cancel_flag")
      /\ UNCHANGED <<flagged, cached, disturbed, acts, crashes>>
      /\ \/ \E t \in Fresh :
               ticket' = [ticket EXCEPT ![t] = new] /\ beyond' = beyond \cup {t}
         \/ UNCHANGED <<ticket, beyond>>
  BY DEF CancelCreates, At
<1>2. PICK l \in Requests :
        /\ Hands(h, l) /\ l.r = handler[h].r /\ l.t = handler[h].t
        /\ Fit(l) /\ handler[h].r \in Requesters /\ l.do = "cancel_flag"
  BY <1>1, CancelGoes
<1>3. flagged' \in BOOLEAN
  BY <1>1 DEF Types
<1>4. new \in TicketType /\ new.status = "open"
  <2>1. "TICKET" \in Chats /\ u \in Users \cup {None} /\ Booking \in {Booking, None}
    BY DEF Chats
  <2> QED BY <1>2, <2>1, OpenedFields
<1> HIDE DEF new
<1>5. CASE UNCHANGED <<ticket, beyond>>
  BY <1>1, <1>2, <1>3, <1>5, Passing
<1>6. ASSUME NEW t \in Fresh, ticket' = [ticket EXCEPT ![t] = new], beyond' = beyond \cup {t}
      PROVE  DeskInv'
  <2>1. t \in Tickets /\ ticket[t].status = "none"
    BY FreshFree
  <2>2. ticket'[t] = new /\ \A s \in Tickets \ {t} : ticket'[s] = ticket[s]
    BY <1>6, <2>1 DEF Types
  <2>3. l.t # None => l.t \in Tickets \ {t}
    BY <1>2, <2>1, Fields DEF Fit, About
  <2>4. Fit(l)'
    <3>1. l.t # None => ticket'[l.t].status # "none"
      BY <1>2, <2>2, <2>3 DEF Fit, About
    <3> QED BY <1>2, <3>1 DEF Fit, About, Room, Writes, Reads
  <2>5. t \in beyond'
    BY <1>6
  <2> QED BY <1>1, <1>2, <1>3, <1>4, <1>6, <2>1, <2>4, <2>5, Opening
<1> QED BY <1>1, <1>5, <1>6

\* The booking is flagged.
LEMMA CancelFlagsStep ==
    ASSUME DeskInv, NEW h \in Handlers, CancelFlags(h)
    PROVE  DeskInv'
<1>1. /\ handler[h].do = "cancel_flag" /\ flagged' = TRUE /\ End(h)
      /\ UNCHANGED <<ticket, cached, disturbed, beyond, acts, crashes>>
  BY DEF CancelFlags, At
<1> QED BY <1>1, Ends, IdleFields, Passing DEF DeskInv

\* Every step keeps the invariant.
LEMMA DeskStep == ASSUME DeskInv, [Next]_vars PROVE DeskInv'
<1>1. ASSUME NEW h \in Handlers, Step(h) PROVE DeskInv'
  BY <1>1, CreateChecksStep, CreateSavesStep, Saving, Invalidating, Caching,
     CancelFindsStep,
     CancelFlagsStep, CancelCreatesStep DEF Step
<1>2. ASSUME NEW h \in Handlers, Start(h) PROVE DeskInv'
  <2>1. ASSUME NEW r \in Requesters, NEW about \in {None, Booking},
               NEW chat \in {"TICKET", "BOT_CHAT", "LIVE_CHAT"}, NEW asks \in BOOLEAN,
               CreateCounts(h, r, about, chat, asks)
        PROVE  DeskInv'
    BY <2>1, CreateCountsStep DEF Chats
  <2>2. ASSUME NEW r \in Requesters, NEW t \in Tickets,
               \/ EscalateReads(h, r, t) \/ GetReads(h, r, t)
               \/ \E asks \in BOOLEAN : ReplyReads(h, r, t, asks)
        PROVE  DeskInv'
    BY <2>2, EscalateReadsStep, GetReadsStep, ReplyReadsStep
  <2>3. ASSUME NEW t \in Tickets,
               \/ \E a \in Admins, s \in Answers : AdminReads(h, a, t, s)
               \/ \E s \in Answers : StatusReads(h, t, s)
               \/ \E a \in Admins \cup {None} : AssignReads(h, a, t)
        PROVE  DeskInv'
    BY <2>3, AdminReadsStep, StatusReadsStep, AssignReadsStep
  <2>4. ASSUME NEW d \in Drivers, CancelReads(h, d) PROVE DeskInv'
    BY <2>4, CancelReadsStep
  <2> QED BY <1>2, <2>1, <2>2, <2>3, <2>4 DEF Start
<1>3. ASSUME NEW h \in Handlers, Crash(h) PROVE DeskInv'
  BY <1>3, Crashing
<1>4. ASSUME NEW r \in Requesters, NEW t \in Tickets, CacheExpires(r, t) PROVE DeskInv'
  BY <1>4, Expiring
<1>5. CASE UNCHANGED vars
  <2> USE <1>5 DEF vars, DeskInv
  <2>1. Types' /\ Blank' /\ Alone'
    BY DEF Types, Blank, Alone
  <2>2. OpenLimitHolds'
    BY StillWithin
  <2>3. Fits'
    BY StillFit DEF Fits
  <2>4. CacheInv'
    BY DEF CacheInv, Fresher, At
  <2> QED BY <2>1, <2>2, <2>3, <2>4
<1> QED BY <1>1, <1>2, <1>3, <1>4, <1>5 DEF Next

\* It holds in the beginning.
LEMMA DeskInit == Init => DeskInv
<1> SUFFICES ASSUME Init PROVE DeskInv
  OBVIOUS
<1>1. Types
  <2>1. ticket \in [Tickets -> TicketType] /\ handler \in [Handlers -> Requests]
    BY NoTicketFields, IdleFields DEF Init
  <2>2. cached \in [Requesters -> [Tickets -> [there : BOOLEAN, mine : Nat]]]
    <3>1. Uncached \in [there : BOOLEAN, mine : Nat]
      BY DEF Uncached
    <3> QED BY <3>1 DEF Init
  <2>3. acts \in 0..MaxActs /\ crashes \in 0..MaxCrash
    BY DeskAssumption DEF Init
  <2> QED BY <2>1, <2>2, <2>3 DEF Init, Types
<1>2. Blank /\ Alone /\ CacheInv
  BY NoTicketFields, IdleFields DEF Init, Blank, Alone, CacheInv, Fresher, Uncached
<1>3. Fits
  BY IdleFields DEF Init, Fits
<1>4. OpenLimitHolds
  <2>1. ASSUME NEW r \in Requesters PROVE Cardinality(OpenOf(r) \ beyond) <= MaxOpen
    <3>1. OpenOf(r) \ beyond = {}
      BY NoTicketFields DEF Init, OpenOf, TicketsOf, OpenStatuses
    <3> QED BY <3>1, FS_EmptySet, DeskAssumption
  <2> QED BY <2>1 DEF OpenLimitHolds
<1> QED BY <1>1, <1>2, <1>3, <1>4 DEF DeskInv

\* ClosedStaysClosed, of one step.
OpensAgain ==
    \A t \in Tickets :
       (ticket[t].status \in ClosedStatuses /\ ticket'[t].status \in OpenStatuses) =>
         t \in disturbed \/ \E h \in Handlers : handler[h].t = t /\ handler[h].r = None

\* No step opens a ticket again but an administrator's, or one that overlapped.
LEMMA ClosedStep == ASSUME DeskInv, [Next]_vars PROVE OpensAgain
<1> USE DEF DeskInv
<1>1. CASE UNCHANGED ticket
  BY <1>1 DEF OpensAgain, OpenStatuses, ClosedStatuses
<1>2. ASSUME NEW t \in Fresh, NEW new, ticket' = [ticket EXCEPT ![t] = new]
      PROVE  OpensAgain
  <2>1. ticket[t].status = "none" /\ t \in Tickets
    BY FreshFree
  <2>2. \A u \in Tickets \ {t} : ticket'[u] = ticket[u]
    BY <1>2, <2>1 DEF Types
  <2> QED BY <2>1, <2>2 DEF OpensAgain, OpenStatuses, ClosedStatuses
<1>3. ASSUME NEW h \in Handlers, Saves(h) PROVE OpensAgain
  <2> DEFINE t == handler[h].t
             new == Saved(handler[h], ticket[t])
  <2>1. handler[h].do = "save" /\ ticket' = [ticket EXCEPT ![t] = new]
    BY <1>3 DEF Saves, At
  <2>2. handler[h] \in Requests /\ Fit(handler[h])
    BY Fields DEF Fits
  <2> HIDE DEF new
  <2>3. \A u \in Tickets \ {t} : ticket'[u] = ticket[u]
    BY <2>1 DEF Types
  <2>4. \/ handler[h].r = None \/ t \in disturbed
        \/ ticket[t].status \in OpenStatuses
    BY <2>1, <2>2, Fields DEF Fit, Writes
  <2> QED BY <2>3, <2>4 DEF OpensAgain, OpenStatuses, ClosedStatuses
<1>4. ASSUME NEW h \in Handlers, Step(h) PROVE OpensAgain
  BY <1>1, <1>2, <1>3, <1>4
     DEF Step, CreateChecks, CreateSaves, Invalidates, GetCaches, CancelFinds, CancelFlags,
         CancelCreates
<1>5. ASSUME NEW h \in Handlers, Start(h) PROVE UNCHANGED ticket
  BY <1>5 DEF Start, CreateCounts, EscalateReads, GetReads, ReplyReads, AdminReads,
              StatusReads, AssignReads, CancelReads
<1>6. ASSUME NEW h \in Handlers, Crash(h) PROVE UNCHANGED ticket
  BY <1>6 DEF Crash
<1>7. ASSUME NEW r \in Requesters, NEW t \in Tickets, CacheExpires(r, t)
      PROVE  UNCHANGED ticket
  BY <1>7 DEF CacheExpires
<1> QED BY <1>1, <1>4, <1>5, <1>6, <1>7 DEF Next, vars

(* The theorems. *)

\* The invariant of the desk is inductive: types, the limit with the requests that
\* counted, who overlaps with whom, and what requests and caches have read.
THEOREM DeskInvariant == Spec => []DeskInv
<1>1. Init => DeskInv
  BY DeskInit
<1>2. DeskInv /\ [Next]_vars => DeskInv'
  BY DeskStep
<1> QED BY <1>1, <1>2, PTL DEF Spec

\* Type correctness: tickets, requests and caches keep their shapes.
THEOREM TypeCorrect == Spec => []TypeOK
<1>1. DeskInv => TypeOK
  <2> SUFFICES ASSUME DeskInv PROVE TypeOK
    OBVIOUS
  <2>1. Types
    BY DEF DeskInv
  <2> QED BY <2>1, TicketFields DEF Types, TypeOK
<1> QED BY <1>1, DeskInvariant, PTL

\* However many requests of however many requesters interleave and break off, the
\* check of the limit, made two awaits before the save, holds for a requester whose
\* requests came one after the other.
THEOREM LimitOfOpenTickets == Spec => []OpenLimitHolds
<1>1. DeskInv => OpenLimitHolds
  BY DEF DeskInv
<1> QED BY <1>1, DeskInvariant, PTL

\* A requester reads his own messages once the request that wrote them has answered.
THEOREM MessagesAreRead == Spec => []ReadsOwnMessages
<1>1. DeskInv => ReadsOwnMessages
  BY DEF DeskInv, CacheInv, Fresher, ReadsOwnMessages
<1> QED BY <1>1, DeskInvariant, PTL

\* A closed ticket is opened again by an administrator, or by a message that
\* overlapped with its closing, and by nothing else.
THEOREM TicketsStayClosed == Spec => ClosedStaysClosed
<1>1. DeskInv /\ [Next]_vars
         => [\A t \in Tickets :
               (ticket[t].status \in ClosedStatuses /\ ticket'[t].status \in OpenStatuses) =>
                 t \in disturbed \/ \E h \in Handlers : handler[h].t = t /\ handler[h].r = None]_vars
  BY ClosedStep DEF OpensAgain
<1> QED BY <1>1, DeskInvariant, PTL DEF Spec, ClosedStaysClosed

==============================================================================
