----------------------------- MODULE SupportDesk -----------------------------
(* Support tickets and chats: customers and drivers open them, write to them   *)
(* and ask for a person; a bot answers chats nobody has taken; administrators  *)
(* answer, assign and close them; and a driver's wish to give up a ride is     *)
(* turned into a ticket about its booking.                                     *)
(*                                                                             *)
(* Every request reads a ticket, decides, and saves the fields it changed and  *)
(* the messages it added; another request may save in between.  A request      *)
(* under way is a record in handler.  Which messages are marked as read, the   *)
(* jobs nobody processes and the events emitted are left out.                  *)
EXTENDS Naturals, FiniteSets

CONSTANTS
    Users,        \* customers
    Drivers,
    Admins,
    Tickets,      \* tickets that may be opened
    Booking,      \* a booking of one of the customers and one of the drivers
    Handlers,     \* requests under way at once
    None,
    MaxOpen,      \* SUPPORT_LIMITS.MAX_OPEN_TICKETS
    MaxMessages,  \* SUPPORT_LIMITS.MAX_MESSAGES_PER_TICKET
    Answers,      \* statuses administrators set
    MaxActs,      \* requests, of requesters and of administrators
    MaxCrash      \* requests that end between two of their steps

ASSUME DeskAssumption ==
    /\ None \notin Users \cup Drivers \cup Admins \cup Tickets \cup {Booking}
    /\ Admins \cap (Users \cup Drivers) = {} /\ Booking \notin Users \cup Drivers
    /\ IsFiniteSet(Tickets)
    /\ Answers \subseteq {"open", "in_progress", "pending", "awaiting_user", "awaiting_admin",
                         "resolved", "closed"}
    /\ {MaxOpen, MaxMessages, MaxActs, MaxCrash} \subseteq Nat

VARIABLES
    ticket,     \* SupportTicket documents
    flagged,    \* the booking is flagged for a critical cancellation
    cached,     \* what the cache has of each ticket, for each requester
    handler,    \* the next step of each request under way
    disturbed,  \* tickets and requesters whose requests overlapped or broke off
    beyond,     \* tickets open otherwise than by a request that counted them
    acts, crashes

vars == <<ticket, flagged, cached, handler, disturbed, beyond, acts, crashes>>

Requesters == Users \cup Drivers

OpenStatuses   == {"open", "in_progress", "pending", "awaiting_user", "awaiting_admin"}
ClosedStatuses == {"resolved", "closed"}
TicketStatus   == OpenStatuses \cup ClosedStatuses

\* mine counts the messages of each requester, msgs all of them.
NoTicket == [by |-> None, user |-> None, booking |-> None, chat |-> "TICKET", live |-> FALSE,
             status |-> "none", agent |-> None, mine |-> [r \in Requesters |-> 0], msgs |-> 0]

\* A ticket as it is created, with its first message.
Opened(r, u, about, chat, live) ==
    [NoTicket EXCEPT !.by = r, !.user = u, !.booking = about, !.chat = chat, !.live = live,
                     !.status = "open", !.msgs = 1,
                     !.mine = [x \in Requesters |-> IF x = r THEN 1 ELSE 0]]

\* The next identifier of a document: which one it is makes no difference.
Fresh ==
    LET free == {t \in Tickets : ticket[t].status = "none"} IN
    IF free = {} THEN {} ELSE {CHOOSE t \in free : TRUE}

Uncached == [there |-> FALSE, mine |-> 0]

\* The tickets of a requester: those he opened, and those on a customer's account.
TicketsOf(r) == {t \in Tickets : r # None /\ (ticket[t].by = r \/ ticket[t].user = r)}
OpenOf(r)    == {t \in TicketsOf(r) : ticket[t].status \in OpenStatuses}

\* What a request will save: a status, an agent and the kind of chat, where
\* "same" leaves the field alone; the author of a message, and the bot's answer.
Idle == [do |-> "idle", r |-> None, t |-> None, about |-> None, chat |-> "TICKET", asks |-> FALSE,
         to |-> "same", agent |-> "same", live |-> FALSE, bot |-> 0]

At(h, do) == handler[h].do = do
Go(h, do) == handler' = [handler EXCEPT ![h].do = do]
End(h)    == handler' = [handler EXCEPT ![h] = Idle]

\* Requests about one ticket, or two of one requester that open one, overlap.
Touches(g, x) == x # None /\ (handler[g].t = x \/ (handler[g].t = None /\ handler[g].r = x))

Begin(h, x, rec) ==
    /\ handler[h] = Idle /\ acts < MaxActs
    /\ acts' = acts + 1
    /\ handler' = [handler EXCEPT ![h] = rec]
    /\ disturbed' = IF \E g \in Handlers : Touches(g, x) THEN disturbed \cup {x} ELSE disturbed

Init ==
    /\ ticket = [t \in Tickets |-> NoTicket]
    /\ flagged = FALSE
    /\ cached = [r \in Requesters |-> [t \in Tickets |-> Uncached]]
    /\ handler = [h \in Handlers |-> Idle]
    /\ disturbed = {} /\ beyond = {}
    /\ acts = 0 /\ crashes = 0

(* Opening a ticket. *)

\* Mutant of Counted: only tickets nobody has answered count.
CountedUnanswered(r) == {t \in OpenOf(r) : ticket[t].status \in {"open", "in_progress", "pending"}}

\* checkOpenTicketLimit.
Counted(r) == OpenOf(r)

\* createTicket counts the requester's open tickets.
CreateCounts(h, r, about, chat, asks) ==
    /\ Cardinality(Counted(r)) < MaxOpen
    /\ asks => chat # "LIVE_CHAT"
    /\ Begin(h, r, [Idle EXCEPT !.do = "check", !.r = r, !.about = about, !.chat = chat, !.asks = asks])
    /\ UNCHANGED <<ticket, flagged, cached, beyond, crashes>>

\* A booking named must be the requester's and have no open ticket of his.
CreateChecks(h) ==
    /\ At(h, "check")
    /\ IF handler[h].about # None /\ \E t \in OpenOf(handler[h].r) : ticket[t].booking = Booking
       THEN End(h) ELSE Go(h, "create")
    /\ UNCHANGED <<ticket, flagged, cached, disturbed, beyond, acts, crashes>>

\* The ticket is created.  Words that ask for a person make it a live chat by a
\* second save; in a bot's chat without them the handler fails on a name that
\* is not defined, and the requester is told that no ticket was made.
CreateSaves(h) ==
    /\ At(h, "create")
    /\ LET k == handler[h] IN
       \E t \in Fresh :
          /\ ticket' = [ticket EXCEPT ![t] =
                          Opened(k.r, IF k.r \in Users THEN k.r ELSE None, k.about, k.chat, FALSE)]
          /\ handler' = [handler EXCEPT ![h] =
                           IF k.asks
                           THEN [Idle EXCEPT !.do = "save", !.r = k.r, !.t = t, !.live = TRUE, !.bot = 1]
                           ELSE IF k.chat = "BOT_CHAT" THEN Idle
                           ELSE [Idle EXCEPT !.do = "invalidate", !.r = k.r, !.t = t]]
          /\ beyond' = IF k.r \in disturbed THEN beyond \cup {t} ELSE beyond
    /\ UNCHANGED <<flagged, cached, disturbed, acts, crashes>>

(* Writing to a ticket. *)

\* mongoose saves a field only if its value changed.
Changed(t, s) == IF s = ticket[t].status THEN "same" ELSE s

\* The bot answers a chat that was not handed over.
BotAnswers(t) == ticket[t].chat = "BOT_CHAT" /\ ~ticket[t].live

\* The status a requester's message leaves: one who was waited for is waited
\* for no longer, and in a bot's chat the bot answers or hands over.
StatusAfter(t, asks) ==
    IF BotAnswers(t) THEN IF asks THEN "open" ELSE "awaiting_user"
    ELSE IF ticket[t].status = "awaiting_user" THEN "awaiting_admin" ELSE ticket[t].status

\* Mutant of MayReply: a resolved ticket takes replies.
MayReplyResolved(t) == ticket[t].status \in OpenStatuses \cup {"resolved"} /\ ticket[t].msgs < MaxMessages

\* canReplyToTicket.
MayReply(t) == ticket[t].status \in OpenStatuses /\ ticket[t].msgs < MaxMessages

\* replyToTicket reads the ticket.
ReplyReads(h, r, t, asks) ==
    /\ t \in TicketsOf(r) /\ MayReply(t)
    /\ Begin(h, t, [Idle EXCEPT !.do = "save", !.r = r, !.t = t, !.about = r,
                                !.to = Changed(t, StatusAfter(t, asks)),
                                !.live = BotAnswers(t) /\ asks,
                                !.bot = IF BotAnswers(t) THEN 1 ELSE 0])
    /\ UNCHANGED <<ticket, flagged, cached, beyond, crashes>>

\* escalateToLive reads the ticket.
EscalateReads(h, r, t) ==
    /\ t \in TicketsOf(r) /\ ticket[t].status \in OpenStatuses
    /\ Begin(h, t, [Idle EXCEPT !.do = "save", !.r = r, !.t = t, !.to = Changed(t, "open"),
                                !.live = TRUE, !.bot = 1])
    /\ UNCHANGED <<ticket, flagged, cached, beyond, crashes>>

\* The changed fields are set and the new messages pushed.
Saved(k, old) ==
    [old EXCEPT !.status = IF k.to = "same" THEN old.status ELSE k.to,
                !.agent  = IF k.agent = "same" THEN old.agent ELSE k.agent,
                !.live   = old.live \/ k.live,
                !.chat   = IF k.live THEN "LIVE_CHAT" ELSE old.chat,
                !.mine   = [r \in Requesters |-> IF r = k.about THEN old.mine[r] + 1 ELSE old.mine[r]],
                !.msgs   = old.msgs + (IF k.about = None THEN 0 ELSE 1) + k.bot]

\* ticket.save(), over whatever was saved meanwhile.  An administrator's save
\* leaves the cache alone.
Saves(h) ==
    /\ At(h, "save")
    /\ LET k == handler[h] IN
       /\ ticket' = [ticket EXCEPT ![k.t] = Saved(k, ticket[k.t])]
       /\ beyond' = IF ticket[k.t].status \in ClosedStatuses /\ k.to \in OpenStatuses
                    THEN beyond \cup {k.t} ELSE beyond
    /\ IF handler[h].r \in Requesters THEN Go(h, "invalidate") ELSE End(h)
    /\ UNCHANGED <<flagged, cached, disturbed, acts, crashes>>

(* Administrators. *)

\* replyAsAdmin: only a closed ticket takes no answer; a resolved one is opened
\* again.  A ticket without an agent becomes the administrator's.
AdminReads(h, a, t, status) ==
    /\ ticket[t].status \notin {"none", "closed"}
    /\ Begin(h, t, [Idle EXCEPT !.do = "save", !.t = t, !.about = a, !.to = Changed(t, status),
                                !.agent = IF ticket[t].agent = None THEN a ELSE "same"])
    /\ UNCHANGED <<ticket, flagged, cached, beyond, crashes>>

\* updateTicketStatus sets any status.
StatusReads(h, t, status) ==
    /\ ticket[t].status # "none"
    /\ Begin(h, t, [Idle EXCEPT !.do = "save", !.t = t, !.to = Changed(t, status)])
    /\ UNCHANGED <<ticket, flagged, cached, beyond, crashes>>

\* assignTicket: to an administrator or to none; a ticket just opened is in progress.
AssignReads(h, a, t) ==
    /\ ticket[t].status # "none"
    /\ Begin(h, t, [Idle EXCEPT !.do = "save", !.t = t, !.agent = a,
                                !.to = IF ticket[t].status = "open" THEN "in_progress" ELSE "same"])
    /\ UNCHANGED <<ticket, flagged, cached, beyond, crashes>>

(* The cache of a ticket. *)

\* getTicketById, where the cache has nothing: the ticket is read, then cached.
GetReads(h, r, t) ==
    /\ t \in TicketsOf(r) /\ ~cached[r][t].there
    /\ Begin(h, t, [Idle EXCEPT !.do = "cache", !.r = r, !.t = t, !.bot = ticket[t].mine[r]])
    /\ UNCHANGED <<ticket, flagged, cached, beyond, crashes>>

GetCaches(h) ==
    /\ At(h, "cache")
    /\ cached' = [cached EXCEPT ![handler[h].r][handler[h].t] = [there |-> TRUE, mine |-> handler[h].bot]]
    /\ End(h)
    /\ UNCHANGED <<ticket, flagged, disturbed, beyond, acts, crashes>>

\* Mutant of Dropped: the pattern names no ticket.
DroppedNone(r, t) == cached[r]

\* invalidateTicketCache drops every ticket of the requester, and no list.
Dropped(r, t) == [x \in Tickets |-> Uncached]

Invalidates(h) ==
    /\ At(h, "invalidate")
    /\ cached' = [cached EXCEPT ![handler[h].r] = Dropped(handler[h].r, handler[h].t)]
    /\ End(h)
    /\ UNCHANGED <<ticket, flagged, disturbed, beyond, acts, crashes>>

CacheExpires(r, t) ==
    /\ cached[r][t].there
    /\ cached' = [cached EXCEPT ![r][t] = Uncached]
    /\ UNCHANGED <<ticket, flagged, handler, disturbed, beyond, acts, crashes>>

(* A driver asks to give up his ride. *)

\* processDriverCancelRide reads the booking, which is in a status of its ride.
CancelReads(h, d) ==
    /\ Begin(h, d, [Idle EXCEPT !.do = "cancel_find", !.r = d, !.about = Booking])
    /\ UNCHANGED <<ticket, flagged, cached, beyond, crashes>>

\* Mutant of CancelFinds: a ticket that is there ends the request.
CancelFindsEnds(h) ==
    /\ At(h, "cancel_find")
    /\ IF \E t \in Tickets : ticket[t].by = handler[h].r /\ ticket[t].booking = Booking
                            /\ ticket[t].status \in {"open", "in_progress", "pending"}
       THEN End(h) ELSE Go(h, "cancel_create")
    /\ UNCHANGED <<ticket, flagged, cached, disturbed, beyond, acts, crashes>>

\* A ticket of his about the booking is looked for, but not among those an
\* administrator has answered.
CancelFinds(h) ==
    /\ At(h, "cancel_find")
    /\ IF \E t \in Tickets : ticket[t].by = handler[h].r /\ ticket[t].booking = Booking
                            /\ ticket[t].status \in {"open", "in_progress", "pending"}
       THEN Go(h, "cancel_flag") ELSE Go(h, "cancel_create")
    /\ UNCHANGED <<ticket, flagged, cached, disturbed, beyond, acts, crashes>>

\* The ticket is put on the customer's account as well; a ticket that cannot be
\* saved does not keep the booking from being flagged.
CancelCreates(h, u) ==
    /\ At(h, "cancel_create")
    /\ \/ \E t \in Fresh :
             /\ ticket' = [ticket EXCEPT ![t] = Opened(handler[h].r, u, Booking, "TICKET", TRUE)]
             /\ beyond' = beyond \cup {t}
       \/ UNCHANGED <<ticket, beyond>>
    /\ Go(h, "cancel_flag")
    /\ UNCHANGED <<flagged, cached, disturbed, acts, crashes>>

CancelFlags(h) ==
    /\ At(h, "cancel_flag")
    /\ flagged' = TRUE
    /\ End(h)
    /\ UNCHANGED <<ticket, cached, disturbed, beyond, acts, crashes>>

\* The process ends between two steps of a request.
Crash(h) ==
    /\ crashes < MaxCrash /\ handler[h] # Idle
    /\ crashes' = crashes + 1 /\ End(h)
    /\ disturbed' = disturbed \cup ({handler[h].t, handler[h].r} \ {None})
    /\ UNCHANGED <<ticket, flagged, cached, beyond, acts>>

Step(h) ==
    \/ CreateChecks(h) \/ CreateSaves(h) \/ Saves(h) \/ Invalidates(h) \/ GetCaches(h)
    \/ CancelFinds(h) \/ CancelFlags(h) \/ (\E u \in Users : CancelCreates(h, u))

Start(h) ==
    \/ \E r \in Requesters, about \in {None, Booking}, chat \in {"TICKET", "BOT_CHAT", "LIVE_CHAT"}, asks \in BOOLEAN :
          CreateCounts(h, r, about, chat, asks)
    \/ \E r \in Requesters, t \in Tickets :
          EscalateReads(h, r, t) \/ GetReads(h, r, t) \/ (\E asks \in BOOLEAN : ReplyReads(h, r, t, asks))
    \/ \E t \in Tickets :
          \/ \E a \in Admins, s \in Answers : AdminReads(h, a, t, s)
          \/ \E s \in Answers : StatusReads(h, t, s)
          \/ \E a \in Admins \cup {None} : AssignReads(h, a, t)
    \/ \E d \in Drivers : CancelReads(h, d)

Next ==
    \/ \E h \in Handlers : Step(h) \/ Start(h) \/ Crash(h)
    \/ \E r \in Requesters, t \in Tickets : CacheExpires(r, t)

Spec == Init /\ [][Next]_vars

\* A request under way goes on; a running process does not stop between two of
\* a handler's steps.
Fairness == \A h \in Handlers : WF_vars(Step(h))

FairSpec == Spec /\ Fairness

(* Properties. *)

\* Tickets, requests and the cache are what the schemas allow.
TypeOK ==
    /\ \A t \in Tickets :
         /\ ticket[t].status \in TicketStatus \cup {"none"}
         /\ ticket[t].by \in Requesters \cup {None} /\ ticket[t].agent \in Admins \cup {None}
         /\ ticket[t].msgs \in Nat /\ ticket[t].live \in BOOLEAN
    /\ flagged \in BOOLEAN
    /\ disturbed \subseteq Tickets \cup Requesters /\ beyond \subseteq Tickets
    /\ acts \in 0..MaxActs /\ crashes \in 0..MaxCrash

\* A requester never has more open tickets than the limit, not counting those
\* opened otherwise: by requests of his that overlapped, by a driver's wish to
\* give up his ride, and by an answer or a status that opened one again.
OpenLimitHolds ==
    \A r \in Requesters : Cardinality(OpenOf(r) \ beyond) <= MaxOpen

\* Only an administrator opens again a ticket that was resolved or closed, unless
\* a requester's message overlapped with the closing.
ClosedStaysClosed ==
    [][\A t \in Tickets :
         (ticket[t].status \in ClosedStatuses /\ ticket'[t].status \in OpenStatuses) =>
           t \in disturbed \/ \E h \in Handlers : handler[h].t = t /\ handler[h].r = None]_vars

\* What a requester is served from the cache has every message he wrote, as soon
\* as the request that wrote it has answered, unless he read while he wrote.
ReadsOwnMessages ==
    \A r \in Requesters, t \in Tickets \ disturbed :
      cached[r][t].there /\ cached[r][t].mine # ticket[t].mine[r] =>
        \E h \in Handlers : At(h, "invalidate") /\ handler[h].r = r

\* A driver's wish to give up his ride flags the booking in the end, even where
\* his ticket is there already or cannot be saved; only a crash loses it.
CancelIsFlagged ==
    \A h \in Handlers : At(h, "cancel_find") ~> flagged \/ crashes > 0

==============================================================================
