----------------------- MODULE DriverDispatch_proofs ------------------------
(* Proofs about DriverDispatch for every value of its constants: the search  *)
(* of a leg is one chain of jobs, a leg that waits is not forgotten, nobody  *)
(* is asked twice, and a search is given up only when nobody is left.        *)
(*                                                                           *)
(* The invariant has four parts, each kept by every action: Types, ChainInv, *)
(* WaitInv and AskInv.  The lemmas <Action>Jobs say what an action does to   *)
(* the queue; the lemmas of each part say what a kind of step (a job goes    *)
(* on, ends, or is queued) leaves of it; the <Part>Step lemmas take the      *)
(* actions one by one.                                                       *)
EXTENDS DriverDispatch, TLAPS

\* The steps of all the jobs.
Places == {"queued", "look", "pop", "check", "write", "arm", "skip", "act", "fail"}

\* A job, whatever its name.
Shape == [name : {"search", "offer", "timeout", "return"}, b : Bookings, n : Nat,
          d : Drivers \cup {None}, at : Places]

\* IsJob without the table of steps: what the provers work with.
AJob(j) ==
    /\ j \in Shape
    /\ j.at \in {"pop", "check", "write", "arm", "skip"} => j.name = "offer"
    /\ j.at = "act" => j.name = "timeout"
    /\ j.at = "look" => j.name = "search"
    /\ j.at = "fail" => j.name # "return"
    /\ j.at \in {"check", "write", "arm", "skip", "act"} => j.d \in Drivers
    /\ j.name = "timeout" => j.d \in Drivers

BookingTypes ==
    /\ kind \in [Bookings -> {"PICKUP", "RETURN"}]
    /\ leg \in [Bookings -> {"none", "awaiting", "taken", "cancelled"}]
    /\ taker \in [Bookings -> Drivers \cup {None}]
    /\ nulled \subseteq Bookings /\ gaveUp \subseteq Bookings

KeyTypes ==
    /\ offer \in [Bookings -> [to : Drivers \cup {None}, n : Nat, accepted : BOOLEAN]]
    /\ candidates \in [Bookings -> SUBSET Drivers]
    /\ tried \in [Bookings -> SUBSET Drivers]
    /\ searching \subseteq Bookings
    /\ lock \in [Drivers -> Bookings \cup {None}]

QueueTypes ==
    /\ \A j \in jobs : AJob(j)
    /\ \A i \in kept : i \in {"search", "offer", "timeout", "return"} \X Bookings \X Nat

RestTypes ==
    /\ online \subseteq Drivers /\ busy \subseteq Drivers /\ onTrip \subseteq Drivers
    /\ request \in [Drivers -> Request]
    /\ searches \in [Bookings -> Nat]
    /\ asked \in [Bookings -> SUBSET Drivers]
    /\ forked \subseteq Bookings /\ lost \subseteq Bookings
    /\ rejects \in Nat /\ throws \in Nat /\ crashes \in Nat

\* TypeOK, in parts.
Types == BookingTypes /\ KeyTypes /\ QueueTypes /\ RestTypes

\* Job j goes on to its next step, nothing said of the record it becomes but
\* its fields.
Moves(j, at, d) ==
    \E k : /\ AJob(k) /\ k.name = j.name /\ k.b = j.b /\ k.n = j.n /\ k.at = at /\ k.d = d
           /\ jobs' = (jobs \ {j}) \cup {k}

\* A job is queued beside js, unless its id is taken.
Adds(js, name, b, n, d) ==
    \E k : /\ AJob(k) /\ k.name = name /\ k.b = b /\ k.n = n /\ k.at = "queued" /\ k.d = d
           /\ \/ jobs' = js /\ (Id(k) \in kept \/ \E i \in js : Id(i) = Id(k))
              \/ /\ jobs' = js \cup {k}
                 /\ Id(k) \notin kept /\ \A i \in js : Id(i) # Id(k)

\* The two ways to say what a job is agree.
LEMMA JobFields == ASSUME NEW j PROVE IsJob(j) <=> AJob(j)
<1>1. DOMAIN JobStep = {"search", "offer", "timeout", "return"}
  BY DEF JobStep
<1>2. /\ JobStep["search"] = {"queued", "look", "fail"}
      /\ JobStep["offer"] = {"queued", "pop", "check", "write", "arm", "skip", "fail"}
      /\ JobStep["timeout"] = {"queued", "act", "fail"}
      /\ JobStep["return"] = {"queued"}
  BY DEF JobStep
<1>3. ASSUME IsJob(j) PROVE AJob(j)
  BY <1>1, <1>2, <1>3 DEF IsJob, AJob, Shape, Places
<1>4. ASSUME AJob(j) PROVE IsJob(j)
  BY <1>1, <1>2, <1>4 DEF IsJob, AJob, Shape, Places
<1> QED BY <1>3, <1>4

\* What Step does to the queue, when the step fits the job.
LEMMA Stepped ==
    ASSUME NEW j, AJob(j), NEW at \in Places, NEW d \in Drivers \cup {None},
           at \in {"pop", "check", "write", "arm", "skip"} => j.name = "offer",
           at = "act" => j.name = "timeout",
           at = "look" => j.name = "search",
           at = "fail" => j.name # "return",
           at \in {"check", "write", "arm", "skip", "act"} => d \in Drivers,
           j.name = "timeout" => d \in Drivers,
           Step(j, at, d)
    PROVE  Moves(j, at, d)
<1> DEFINE k == [j EXCEPT !.at = at, !.d = d]
<1>1. AJob(k) /\ k.name = j.name /\ k.b = j.b /\ k.n = j.n /\ k.at = at /\ k.d = d
  BY DEF AJob, Shape, Places
<1>2. jobs' = (jobs \ {j}) \cup {k}
  BY DEF Step
<1> QED BY <1>1, <1>2 DEF Moves

\* What queueing a job with Put does to the queue.
LEMMA Queued ==
    ASSUME NEW js, NEW name \in {"search", "offer", "timeout", "return"},
           NEW b \in Bookings, NEW n \in Nat, NEW d \in Drivers \cup {None},
           name = "timeout" => d \in Drivers,
           jobs' = Put(js, Job(name, b, n, d))
    PROVE  Adds(js, name, b, n, d)
<1> DEFINE k == Job(name, b, n, d)
<1>1. AJob(k) /\ k.name = name /\ k.b = b /\ k.n = n /\ k.at = "queued" /\ k.d = d
  BY DEF AJob, Shape, Places, Job
<1>2. jobs' = Put(js, k)
  OBVIOUS
<1> HIDE DEF k
<1> QED BY <1>1, <1>2 DEF Adds, Put

\* The types of the fields of a job, spelled out.
JobFacts(j) ==
    /\ AJob(j)
    /\ j.name \in {"search", "offer", "timeout", "return"} /\ j.b \in Bookings
    /\ j.n \in Nat /\ j.d \in Drivers \cup {None}
    /\ j.at \in {"pop", "check", "write", "arm", "skip"} => j.name = "offer"
    /\ j.at = "act" => j.name = "timeout"
    /\ j.at = "fail" => j.name # "return"
    /\ j.at \in {"check", "write", "arm", "skip", "act"} => j.d \in Drivers
    /\ j.name = "timeout" => j.d \in Drivers

\* What the types say of a job, a search count and a request.
LEMMA Facts ==
    ASSUME Types
    PROVE  /\ \A j \in jobs : JobFacts(j)
           /\ \A b \in Bookings : searches[b] \in Nat
           /\ \A d \in Drivers :
                /\ request[d] \in Request
                /\ request[d].do # "idle" => request[d].b \in Bookings /\ request[d].n \in Nat
  BY DEF Types, QueueTypes, RestTypes, AJob, Shape, JobFacts, Request, Idle

\* A request that goes on to settle keeps its booking.
LEMMA Answered ==
    ASSUME NEW r \in Request, r.do # "idle"
    PROVE  /\ [r EXCEPT !.do = "settle"] \in Request
           /\ [r EXCEPT !.do = "txn_settle"] \in Request
           /\ [r EXCEPT !.do = "settle"].b = r.b /\ [r EXCEPT !.do = "txn_settle"].b = r.b
  BY DEF Request, Idle

\* The effect of each action on the queue, one lemma per action that has one.
\* A paid pickup queues its search.
LEMMA PickupPaidJobs ==
    ASSUME Types, NEW b \in Bookings, PickupPaid(b)
    PROVE  Adds(jobs, "search", b, searches[b] + 1, None)
<1>1. jobs' = Put(jobs, Job("search", b, searches[b] + 1, None))
  BY Facts DEF PickupPaid, ScheduleSearch
<1>2. searches[b] + 1 \in Nat
  BY Facts DEF JobFacts
<1> QED BY <1>1, <1>2, Facts, Stepped, Queued DEF Places, JobFacts

\* A requested return queues the job that processes it.
LEMMA ReturnRequestedJobs ==
    ASSUME Types, NEW b \in Bookings, ReturnRequested(b)
    PROVE  Adds(jobs, "return", b, 0, None)
<1>1. jobs' = Put(jobs, Job("return", b, 0, None))
  BY Facts DEF ReturnRequested
<1>2. searches[b] + 1 \in Nat
  BY Facts DEF JobFacts
<1> QED BY <1>1, <1>2, Facts, Stepped, Queued DEF Places, JobFacts

\* That job queues the search, or ends.
LEMMA ReturnJobJobs ==
    ASSUME Types, NEW j \in jobs, ReturnJob(j)
    PROVE  \/ Awaiting(j.b) /\ Adds(jobs \ {j}, "search", j.b, searches[j.b] + 1, None)
           \/ ~Awaiting(j.b) /\ jobs' = jobs \ {j}
<1>1. \/ Awaiting(j.b) /\ jobs' = Put(jobs \ {j}, Job("search", j.b, searches[j.b] + 1, None))
      \/ ~Awaiting(j.b) /\ jobs' = jobs \ {j}
  BY Facts DEF ReturnJob, ScheduleSearch, Done
<1>2. /\ JobFacts(j) /\ j.n + 1 \in Nat /\ j.b \in Bookings
      /\ searches[j.b] + 1 \in Nat
  BY Facts DEF JobFacts
<1> QED BY <1>1, <1>2, Facts, Stepped, Queued DEF Places, JobFacts

\* A search looks for drivers, or ends.
LEMMA SearchBeginsJobs ==
    ASSUME Types, NEW j \in jobs, SearchBegins(j)
    PROVE  Moves(j, "look", None) \/ jobs' = jobs \ {j}
<1>1. j.name = "search" /\ (Step(j, "look", None) \/ jobs' = jobs \ {j})
  BY Facts DEF SearchBegins, Done
<1>2. /\ JobFacts(j) /\ j.n + 1 \in Nat /\ j.b \in Bookings
      /\ searches[j.b] + 1 \in Nat
  BY Facts DEF JobFacts
<1> QED BY <1>1, <1>2, Facts, Stepped, Queued DEF Places, JobFacts

\* A search queues the first offer, or fails.
LEMMA SearchFindsJobs ==
    ASSUME Types, NEW j \in jobs, SearchFinds(j)
    PROVE  \/ Adds(jobs \ {j}, "offer", j.b, 1, None)
           \/ Moves(j, "fail", Named(j))
<1>1. /\ j.name = "search"
      /\ \/ jobs' = Put(jobs \ {j}, Job("offer", j.b, 1, None))
         \/ Step(j, "fail", Named(j))
  BY Facts DEF SearchFinds, OfferTo, Named
<1>2. /\ JobFacts(j) /\ j.n + 1 \in Nat /\ j.b \in Bookings
      /\ searches[j.b] + 1 \in Nat
  BY Facts DEF JobFacts
<1>3. Named(j) \in Drivers \cup {None} /\ (j.name = "timeout" => Named(j) \in Drivers)
  BY <1>2 DEF Named, JobFacts
<1> QED BY <1>1, <1>2, <1>3, Facts, Stepped, Queued DEF Places, JobFacts

\* An offer pops a candidate, or ends.
LEMMA OfferBeginsJobs ==
    ASSUME Types, NEW j \in jobs, OfferBegins(j)
    PROVE  Moves(j, "pop", None) \/ jobs' = jobs \ {j}
<1>1. j.name = "offer" /\ (Step(j, "pop", None) \/ jobs' = jobs \ {j})
  BY Facts DEF OfferBegins, Done
<1>2. /\ JobFacts(j) /\ j.n + 1 \in Nat /\ j.b \in Bookings
      /\ searches[j.b] + 1 \in Nat
  BY Facts DEF JobFacts
<1> QED BY <1>1, <1>2, Facts, Stepped, Queued DEF Places, JobFacts

\* It checks the candidate, or fails.
LEMMA PopCandidateJobs ==
    ASSUME Types, NEW j \in jobs, PopCandidate(j)
    PROVE  \/ \E d \in Drivers : Moves(j, "check", d)
           \/ Moves(j, "fail", Named(j))
<1>1. /\ j.name = "offer"
      /\ \/ \E d \in Drivers : Step(j, "check", d)
         \/ Step(j, "fail", Named(j))
  BY Facts DEF PopCandidate, Named, Types, KeyTypes, JobFacts
<1>2. /\ JobFacts(j) /\ j.n + 1 \in Nat /\ j.b \in Bookings
      /\ searches[j.b] + 1 \in Nat
  BY Facts DEF JobFacts
<1>3. Named(j) \in Drivers \cup {None} /\ (j.name = "timeout" => Named(j) \in Drivers)
  BY <1>2 DEF Named, JobFacts
<1> QED BY <1>1, <1>2, <1>3, Facts, Stepped, Queued DEF Places, JobFacts

\* It writes the offer, or skips the candidate.
LEMMA CheckCandidateJobs ==
    ASSUME Types, NEW j \in jobs, CheckCandidate(j)
    PROVE  Moves(j, "write", j.d) \/ Moves(j, "skip", j.d)
<1>1. j.name = "offer" /\ j.d \in Drivers /\ (Step(j, "write", j.d) \/ Step(j, "skip", j.d))
  BY Facts DEF CheckCandidate, JobFacts
<1>2. /\ JobFacts(j) /\ j.n + 1 \in Nat /\ j.b \in Bookings
      /\ searches[j.b] + 1 \in Nat
  BY Facts DEF JobFacts
<1> QED BY <1>1, <1>2, Facts, Stepped, Queued DEF Places, JobFacts

\* The offer written, its timeout is armed.
LEMMA CreateOfferJobs ==
    ASSUME Types, NEW j \in jobs, CreateOffer(j)
    PROVE  Moves(j, "arm", j.d)
<1>1. j.name = "offer" /\ j.d \in Drivers /\ Step(j, "arm", j.d)
  BY Facts DEF CreateOffer, JobFacts
<1>2. /\ JobFacts(j) /\ j.n + 1 \in Nat /\ j.b \in Bookings
      /\ searches[j.b] + 1 \in Nat
  BY Facts DEF JobFacts
<1> QED BY <1>1, <1>2, Facts, Stepped, Queued DEF Places, JobFacts

\* The timeout takes the place of the offer job.
LEMMA ArmTimeoutJobs ==
    ASSUME Types, NEW j \in jobs, ArmTimeout(j)
    PROVE  Adds(jobs \ {j}, "timeout", j.b, j.n, j.d)
<1>1. j.d \in Drivers /\ jobs' = Put(jobs \ {j}, Job("timeout", j.b, j.n, j.d))
  BY Facts DEF ArmTimeout, JobFacts
<1>2. /\ JobFacts(j) /\ j.n + 1 \in Nat /\ j.b \in Bookings
      /\ searches[j.b] + 1 \in Nat
  BY Facts DEF JobFacts
<1> QED BY <1>1, <1>2, Facts, Stepped, Queued DEF Places, JobFacts

\* The next offer takes the place of the one skipped, or the search fails.
LEMMA SkipCandidateJobs ==
    ASSUME Types, NEW j \in jobs, SkipCandidate(j)
    PROVE  \/ Adds(jobs \ {j}, "offer", j.b, j.n + 1, None)
           \/ Moves(j, "fail", Named(j))
<1>1. /\ j.name = "offer"
      /\ \/ jobs' = Put(jobs \ {j}, Job("offer", j.b, j.n + 1, None))
         \/ Step(j, "fail", Named(j))
  BY Facts DEF SkipCandidate, MoveOn, OfferTo
<1>2. /\ JobFacts(j) /\ j.n + 1 \in Nat /\ j.b \in Bookings
      /\ searches[j.b] + 1 \in Nat
  BY Facts DEF JobFacts
<1>3. Named(j) \in Drivers \cup {None} /\ (j.name = "timeout" => Named(j) \in Drivers)
  BY <1>2 DEF Named, JobFacts
<1> QED BY <1>1, <1>2, <1>3, Facts, Stepped, Queued DEF Places, JobFacts

\* A timeout acts, or ends.
LEMMA TimeoutReadsJobs ==
    ASSUME Types, NEW j \in jobs, TimeoutReads(j)
    PROVE  Moves(j, "act", j.d) \/ jobs' = jobs \ {j}
<1>1. /\ j.name = "timeout" /\ j.d \in Drivers
      /\ Step(j, "act", j.d) \/ jobs' = jobs \ {j}
  BY Facts DEF TimeoutReads, Done, JobFacts
<1>2. /\ JobFacts(j) /\ j.n + 1 \in Nat /\ j.b \in Bookings
      /\ searches[j.b] + 1 \in Nat
  BY Facts DEF JobFacts
<1> QED BY <1>1, <1>2, Facts, Stepped, Queued DEF Places, JobFacts

\* The next offer takes the place of the timeout, or the search fails.
LEMMA TimeoutActsJobs ==
    ASSUME Types, NEW j \in jobs, TimeoutActs(j)
    PROVE  \/ Adds(jobs \ {j}, "offer", j.b, j.n + 1, None)
           \/ Moves(j, "fail", Named(j))
<1>1. /\ j.name = "timeout"
      /\ \/ jobs' = Put(jobs \ {j}, Job("offer", j.b, j.n + 1, None))
         \/ Step(j, "fail", Named(j))
  BY Facts DEF TimeoutActs, MoveOn, OfferTo
<1>2. /\ JobFacts(j) /\ j.n + 1 \in Nat /\ j.b \in Bookings
      /\ searches[j.b] + 1 \in Nat
  BY Facts DEF JobFacts
<1>3. Named(j) \in Drivers \cup {None} /\ (j.name = "timeout" => Named(j) \in Drivers)
  BY <1>2 DEF Named, JobFacts
<1> QED BY <1>1, <1>2, <1>3, Facts, Stepped, Queued DEF Places, JobFacts

\* A job that fails the search is over.
LEMMA FailSearchJobs ==
    ASSUME Types, NEW j \in jobs, FailSearch(j)
    PROVE  jobs' = jobs \ {j}
  BY DEF FailSearch, Done

\* So is a job whose giving up failed unseen.
LEMMA GivingUpFailsJobs ==
    ASSUME Types, NEW j \in jobs, GivingUpFails(j)
    PROVE  jobs' = jobs \ {j}
  BY DEF GivingUpFails, Done

\* A job that threw, or whose worker died, is run again or fails the search.
LEMMA RunAgainJobs ==
    ASSUME Types, NEW j \in jobs, RunAgain(j)
    PROVE  \/ /\ kept' = kept
              /\ \/ j.name = "timeout" /\ Moves(j, "queued", j.d)
                 \/ j.name # "timeout" /\ Moves(j, "queued", None)
           \/ kept' = kept \cup {Id(j)} /\ Moves(j, "fail", Named(j))
<1>1. JobFacts(j) /\ j.name # "return"
  BY Facts DEF RunAgain, JobFacts, AJob, Shape, Places
<1>2. Named(j) \in Drivers \cup {None} /\ (j.name = "timeout" => Named(j) \in Drivers)
  BY <1>1 DEF Named, JobFacts
<1>3. CASE Step(j, "fail", Named(j)) /\ kept' = kept \cup {Id(j)}
  BY <1>1, <1>2, <1>3, Stepped DEF Places, JobFacts
<1>4. CASE Step(j, "queued", Named(j)) /\ kept' = kept
  <2>1. Moves(j, "queued", Named(j))
    BY <1>1, <1>2, <1>4, Stepped DEF Places, JobFacts
  <2> QED BY <1>4, <2>1 DEF Named
<1> QED BY <1>3, <1>4 DEF RunAgain

\* An acceptance can only remove a job.
LEMMA OfferSettledJobs ==
    ASSUME Types, NEW d \in Drivers, OfferSettled(d)
    PROVE  jobs' \subseteq jobs
  BY DEF OfferSettled, Done

\* A rejection queues the next offer.
LEMMA RideRejectedJobs ==
    ASSUME Types, NEW d \in Drivers, RideRejected(d)
    PROVE  Adds(jobs, "offer", request[d].b, request[d].n + 1, None)
<1>1. /\ request[d].b \in Bookings /\ request[d].n \in Nat
      /\ jobs' = Put(jobs, Job("offer", request[d].b, request[d].n + 1, None))
  BY Facts DEF RideRejected, Answering, OfferTo
<1>2. request[d].n \in Nat => request[d].n + 1 \in Nat
  BY Facts DEF JobFacts
<1> QED BY <1>1, <1>2, Facts, Stepped, Queued DEF Places, JobFacts

\* The types in parts are the type invariant of the module.
LEMMA TypesAgree == Types <=> TypeOK
<1>1. DOMAIN JobStep = {"search", "offer", "timeout", "return"}
  BY DEF JobStep
<1> QED BY <1>1, JobFields
        DEF Types, TypeOK, BookingTypes, KeyTypes, QueueTypes, RestTypes

\* The types hold in the beginning.
LEMMA TypeInit == Init => Types
  BY NoneIsNobody DEF Init, Types, BookingTypes, KeyTypes, QueueTypes, RestTypes,
     NoOffer, Idle, Request

\* clearOffer keeps the types of the offers and the locks.
LEMMA Cleared ==
    ASSUME KeyTypes, NEW b \in Bookings, NEW d \in Drivers, ClearOffer(b, d),
           UNCHANGED <<candidates, searching>>,
           tried' = tried \/ \E e \in Drivers : tried' = [tried EXCEPT ![b] = @ \cup {e}]
    PROVE  KeyTypes'
  BY DEF KeyTypes, ClearOffer, NoOffer

\* cleanupBookingRedisKeys keeps the types of the keys.
LEMMA CleanedUp ==
    ASSUME KeyTypes, NEW b \in Bookings, NEW d, Cleanup(b, d)
    PROVE  KeyTypes'
  BY DEF KeyTypes, Cleanup, NoOffer

\* Every action keeps the types.
LEMMA TypeStep == Types /\ [Next]_vars => Types'
<1> SUFFICES ASSUME Types, [Next]_vars PROVE Types'
  OBVIOUS
<1> USE NoneIsNobody DEF keys, booking, fleet, queue, history
<1>1. BookingTypes /\ KeyTypes /\ QueueTypes /\ RestTypes
  BY DEF Types
<1>2. /\ \A j \in jobs : JobFacts(j)
      /\ \A d \in Drivers :
           /\ request[d] \in Request
           /\ request[d].do # "idle" => request[d].b \in Bookings /\ request[d].n \in Nat
  BY Facts
<1>3. ASSUME NEW b \in Bookings, PickupPaid(b) PROVE Types'
  <2>1. BookingTypes'
    BY <1>1, <1>2, <1>3 DEF BookingTypes, JobFacts, PickupPaid, ScheduleSearch
  <2>2. KeyTypes'
    BY <1>1, <1>2, <1>3 DEF KeyTypes, NoOffer, JobFacts, PickupPaid, ScheduleSearch
  <2>5. UNCHANGED kept
    BY <1>3 DEF PickupPaid
  <2>3. QueueTypes'
    BY <1>1, <1>3, <2>5, PickupPaidJobs DEF QueueTypes, Adds
  <2>4. RestTypes'
    BY <1>1, <1>2, <1>3 DEF RestTypes, JobFacts, KeyTypes, PickupPaid, ScheduleSearch
  <2> QED BY <2>1, <2>2, <2>3, <2>4 DEF Types
<1>4. ASSUME NEW b \in Bookings, ReturnRequested(b) PROVE Types'
  <2>1. BookingTypes'
    BY <1>1, <1>2, <1>4 DEF BookingTypes, JobFacts, ReturnRequested
  <2>2. KeyTypes'
    BY <1>1, <1>2, <1>4 DEF KeyTypes, NoOffer, JobFacts, ReturnRequested
  <2>5. UNCHANGED kept
    BY <1>4 DEF ReturnRequested
  <2>3. QueueTypes'
    BY <1>1, <1>4, <2>5, ReturnRequestedJobs DEF QueueTypes, Adds
  <2>4. RestTypes'
    BY <1>1, <1>2, <1>4 DEF RestTypes, JobFacts, KeyTypes, ReturnRequested
  <2> QED BY <2>1, <2>2, <2>3, <2>4 DEF Types
<1>5. ASSUME NEW b \in Bookings, UserCancels(b) PROVE Types'
  <2>1. BookingTypes'
    BY <1>1, <1>2, <1>5 DEF BookingTypes, JobFacts, UserCancels
  <2>2. KeyTypes'
    BY <1>1, <1>2, <1>5 DEF KeyTypes, NoOffer, JobFacts, UserCancels
  <2>3. QueueTypes'
    BY <1>1, <1>5 DEF QueueTypes, UserCancels
  <2>4. RestTypes'
    BY <1>1, <1>2, <1>5 DEF RestTypes, JobFacts, KeyTypes, UserCancels
  <2> QED BY <2>1, <2>2, <2>3, <2>4 DEF Types
<1>6. ASSUME NEW b \in Bookings, OfferExpires(b) PROVE Types'
  <2>1. BookingTypes'
    BY <1>1, <1>2, <1>6 DEF BookingTypes, JobFacts, OfferExpires
  <2>2. KeyTypes'
    BY <1>1, <1>2, <1>6 DEF KeyTypes, NoOffer, JobFacts, OfferExpires
  <2>3. QueueTypes'
    BY <1>1, <1>6 DEF QueueTypes, OfferExpires
  <2>4. RestTypes'
    BY <1>1, <1>2, <1>6 DEF RestTypes, JobFacts, KeyTypes, OfferExpires
  <2> QED BY <2>1, <2>2, <2>3, <2>4 DEF Types
<1>7. ASSUME NEW j \in jobs, ReturnJob(j) PROVE Types'
  <2>1. BookingTypes'
    BY <1>1, <1>2, <1>7 DEF BookingTypes, JobFacts, ReturnJob, ScheduleSearch, Done
  <2>2. KeyTypes'
    BY <1>1, <1>2, <1>7 DEF KeyTypes, NoOffer, JobFacts, ReturnJob, ScheduleSearch, Done
  <2>3. QueueTypes'
    BY <1>1, <1>2, <1>7, ReturnJobJobs DEF QueueTypes, Adds, Moves, ReturnJob
  <2>4. RestTypes'
    BY <1>1, <1>2, <1>7
       DEF RestTypes, JobFacts, KeyTypes, ReturnJob, ScheduleSearch, Done
  <2> QED BY <2>1, <2>2, <2>3, <2>4 DEF Types
<1>8. ASSUME NEW j \in jobs, SearchBegins(j) PROVE Types'
  <2>1. BookingTypes'
    BY <1>1, <1>2, <1>8 DEF BookingTypes, JobFacts, SearchBegins, Done
  <2>2. KeyTypes'
    BY <1>1, <1>2, <1>8 DEF KeyTypes, NoOffer, JobFacts, SearchBegins, Done
  <2>3. QueueTypes'
    BY <1>1, <1>2, <1>8, SearchBeginsJobs DEF QueueTypes, Adds, Moves, SearchBegins
  <2>4. RestTypes'
    BY <1>1, <1>2, <1>8 DEF RestTypes, JobFacts, KeyTypes, SearchBegins, Done
  <2> QED BY <2>1, <2>2, <2>3, <2>4 DEF Types
<1>9. ASSUME NEW j \in jobs, SearchFinds(j) PROVE Types'
  <2>1. BookingTypes'
    BY <1>1, <1>2, <1>9 DEF BookingTypes, JobFacts, SearchFinds, OfferTo
  <2>2. KeyTypes'
    BY <1>1, <1>2, <1>9
       DEF KeyTypes, NoOffer, JobFacts, SearchFinds, OfferTo, Eligible, RestTypes
  <2>3. QueueTypes'
    BY <1>1, <1>2, <1>9, SearchFindsJobs DEF QueueTypes, Adds, Moves, SearchFinds
  <2>4. RestTypes'
    BY <1>1, <1>2, <1>9 DEF RestTypes, JobFacts, KeyTypes, SearchFinds, OfferTo
  <2> QED BY <2>1, <2>2, <2>3, <2>4 DEF Types
<1>10. ASSUME NEW j \in jobs, OfferBegins(j) PROVE Types'
  <2>1. BookingTypes'
    BY <1>1, <1>2, <1>10 DEF BookingTypes, JobFacts, OfferBegins, Done, Cleanup
  <2>2. KeyTypes'
    BY <1>1, <1>2, <1>10, Cleared, CleanedUp DEF KeyTypes, JobFacts, OfferBegins, Done
  <2>3. QueueTypes'
    BY <1>1, <1>2, <1>10, OfferBeginsJobs DEF QueueTypes, Adds, Moves, OfferBegins
  <2>4. RestTypes'
    BY <1>1, <1>2, <1>10 DEF RestTypes, JobFacts, KeyTypes, OfferBegins, Done, Cleanup
  <2> QED BY <2>1, <2>2, <2>3, <2>4 DEF Types
<1>11. ASSUME NEW j \in jobs, PopCandidate(j) PROVE Types'
  <2>1. BookingTypes'
    BY <1>1, <1>2, <1>11 DEF BookingTypes, JobFacts, PopCandidate
  <2>2. KeyTypes'
    BY <1>1, <1>2, <1>11 DEF KeyTypes, NoOffer, JobFacts, PopCandidate
  <2>3. QueueTypes'
    BY <1>1, <1>2, <1>11, PopCandidateJobs DEF QueueTypes, Adds, Moves, PopCandidate
  <2>4. RestTypes'
    BY <1>1, <1>2, <1>11 DEF RestTypes, JobFacts, KeyTypes, PopCandidate
  <2> QED BY <2>1, <2>2, <2>3, <2>4 DEF Types
<1>12. ASSUME NEW j \in jobs, CheckCandidate(j) PROVE Types'
  <2>1. BookingTypes'
    BY <1>1, <1>2, <1>12 DEF BookingTypes, JobFacts, CheckCandidate
  <2>2. KeyTypes'
    BY <1>1, <1>2, <1>12 DEF KeyTypes, NoOffer, JobFacts, CheckCandidate
  <2>3. QueueTypes'
    BY <1>1, <1>2, <1>12, CheckCandidateJobs DEF QueueTypes, Adds, Moves, CheckCandidate
  <2>4. RestTypes'
    BY <1>1, <1>2, <1>12 DEF RestTypes, JobFacts, KeyTypes, CheckCandidate
  <2> QED BY <2>1, <2>2, <2>3, <2>4 DEF Types
<1>13. ASSUME NEW j \in jobs, CreateOffer(j) PROVE Types'
  <2>1. BookingTypes'
    BY <1>1, <1>2, <1>13 DEF BookingTypes, JobFacts, CreateOffer
  <2>2. KeyTypes'
    BY <1>1, <1>2, <1>13 DEF KeyTypes, NoOffer, JobFacts, CreateOffer
  <2>3. QueueTypes'
    BY <1>1, <1>2, <1>13, CreateOfferJobs DEF QueueTypes, Adds, Moves, CreateOffer
  <2>4. RestTypes'
    BY <1>1, <1>2, <1>13 DEF RestTypes, JobFacts, KeyTypes, CreateOffer
  <2> QED BY <2>1, <2>2, <2>3, <2>4 DEF Types
<1>14. ASSUME NEW j \in jobs, ArmTimeout(j) PROVE Types'
  <2>1. BookingTypes'
    BY <1>1, <1>2, <1>14 DEF BookingTypes, JobFacts, ArmTimeout
  <2>2. KeyTypes'
    BY <1>1, <1>2, <1>14 DEF KeyTypes, NoOffer, JobFacts, ArmTimeout
  <2>3. QueueTypes'
    BY <1>1, <1>2, <1>14, ArmTimeoutJobs DEF QueueTypes, Adds, Moves, ArmTimeout
  <2>4. RestTypes'
    BY <1>1, <1>2, <1>14 DEF RestTypes, JobFacts, KeyTypes, ArmTimeout
  <2> QED BY <2>1, <2>2, <2>3, <2>4 DEF Types
<1>15. ASSUME NEW j \in jobs, SkipCandidate(j) PROVE Types'
  <2>1. BookingTypes'
    BY <1>1, <1>2, <1>15 DEF BookingTypes, JobFacts, SkipCandidate, MoveOn, OfferTo
  <2>2. KeyTypes'
    BY <1>1, <1>2, <1>15 DEF KeyTypes, NoOffer, JobFacts, SkipCandidate, MoveOn, OfferTo
  <2>3. QueueTypes'
    BY <1>1, <1>2, <1>15, SkipCandidateJobs DEF QueueTypes, Adds, Moves, SkipCandidate
  <2>4. RestTypes'
    BY <1>1, <1>2, <1>15
       DEF RestTypes, JobFacts, KeyTypes, SkipCandidate, MoveOn, OfferTo
  <2> QED BY <2>1, <2>2, <2>3, <2>4 DEF Types
<1>16. ASSUME NEW j \in jobs, TimeoutReads(j) PROVE Types'
  <2>1. BookingTypes'
    BY <1>1, <1>2, <1>16 DEF BookingTypes, JobFacts, TimeoutReads, ClearOffer, Done
  <2>2. KeyTypes'
    BY <1>1, <1>2, <1>16, Cleared, CleanedUp DEF KeyTypes, JobFacts, TimeoutReads, Done
  <2>3. QueueTypes'
    BY <1>1, <1>2, <1>16, TimeoutReadsJobs DEF QueueTypes, Adds, Moves, TimeoutReads
  <2>4. RestTypes'
    BY <1>1, <1>2, <1>16
       DEF RestTypes, JobFacts, KeyTypes, TimeoutReads, ClearOffer, Done
  <2> QED BY <2>1, <2>2, <2>3, <2>4 DEF Types
<1>17. ASSUME NEW j \in jobs, TimeoutActs(j) PROVE Types'
  <2>1. BookingTypes'
    BY <1>1, <1>2, <1>17
       DEF BookingTypes, JobFacts, TimeoutActs, ClearOffer, MoveOn, OfferTo
  <2>2. KeyTypes'
    BY <1>1, <1>2, <1>17, Cleared, CleanedUp
       DEF KeyTypes, JobFacts, TimeoutActs, MoveOn, OfferTo
  <2>3. QueueTypes'
    BY <1>1, <1>2, <1>17, TimeoutActsJobs DEF QueueTypes, Adds, Moves, TimeoutActs
  <2>4. RestTypes'
    BY <1>1, <1>2, <1>17
       DEF RestTypes, JobFacts, KeyTypes, TimeoutActs, ClearOffer, MoveOn, OfferTo
  <2> QED BY <2>1, <2>2, <2>3, <2>4 DEF Types
<1>18. ASSUME NEW j \in jobs, FailSearch(j) PROVE Types'
  <2>1. BookingTypes'
    BY <1>1, <1>2, <1>18
       DEF BookingTypes, JobFacts, FailSearch, CancelPickup, MarkReturn, Unlocked, InListener, Cleanup,
           Done
  <2>2. KeyTypes'
    BY <1>1, <1>2, <1>18, Cleared, CleanedUp
       DEF KeyTypes, JobFacts, FailSearch, CancelPickup, MarkReturn, Unlocked, InListener, Done
  <2>3. QueueTypes'
    BY <1>1, <1>2, <1>18, FailSearchJobs DEF QueueTypes, Adds, Moves, FailSearch
  <2>4. RestTypes'
    BY <1>1, <1>2, <1>18
       DEF RestTypes, JobFacts, KeyTypes, FailSearch, CancelPickup, MarkReturn, Unlocked, InListener,
           Cleanup, Done
  <2> QED BY <2>1, <2>2, <2>3, <2>4 DEF Types
<1>18a. ASSUME NEW j \in jobs, GivingUpFails(j) PROVE Types'
  <2>1. BookingTypes'
    BY <1>1, <1>2, <1>18a
       DEF BookingTypes, JobFacts, GivingUpFails, Unlocked, InListener,
           Done
  <2>2. KeyTypes'
    BY <1>1, <1>2, <1>18a, Cleared, CleanedUp
       DEF KeyTypes, JobFacts, GivingUpFails, Unlocked, InListener, Done
  <2>3. QueueTypes'
    BY <1>1, <1>2, <1>18a, GivingUpFailsJobs DEF QueueTypes, Adds, Moves, GivingUpFails
  <2>4. RestTypes'
    BY <1>1, <1>2, <1>18a
       DEF RestTypes, JobFacts, KeyTypes, GivingUpFails, Unlocked, InListener,
           Cleanup, Done
  <2> QED BY <2>1, <2>2, <2>3, <2>4 DEF Types
<1>19. ASSUME NEW j \in jobs, JobThrows(j) PROVE Types'
  <2>1. BookingTypes'
    BY <1>1, <1>2, <1>19 DEF BookingTypes, JobFacts, JobThrows, RunAgain
  <2>2. KeyTypes'
    BY <1>1, <1>2, <1>19 DEF KeyTypes, NoOffer, JobFacts, JobThrows, RunAgain
  <2>3. QueueTypes'
    BY <1>1, <1>2, <1>19, RunAgainJobs
       DEF QueueTypes, Adds, Moves, JobThrows, RunAgain, Id, JobFacts
  <2>4. RestTypes'
    BY <1>1, <1>2, <1>19 DEF RestTypes, JobFacts, KeyTypes, JobThrows, RunAgain
  <2> QED BY <2>1, <2>2, <2>3, <2>4 DEF Types
<1>20. ASSUME NEW j \in jobs, WorkerDies(j) PROVE Types'
  <2>1. BookingTypes'
    BY <1>1, <1>2, <1>20 DEF BookingTypes, JobFacts, WorkerDies, RunAgain
  <2>2. KeyTypes'
    BY <1>1, <1>2, <1>20 DEF KeyTypes, NoOffer, JobFacts, WorkerDies, RunAgain
  <2>3. QueueTypes'
    BY <1>1, <1>2, <1>20, RunAgainJobs
       DEF QueueTypes, Adds, Moves, WorkerDies, RunAgain, Id, JobFacts
  <2>4. RestTypes'
    BY <1>1, <1>2, <1>20 DEF RestTypes, JobFacts, KeyTypes, WorkerDies, RunAgain
  <2> QED BY <2>1, <2>2, <2>3, <2>4 DEF Types
<1>21. ASSUME NEW d \in Drivers, RideAccepted(d) PROVE Types'
  <2>1. BookingTypes'
    BY <1>1, <1>2, <1>21
       DEF BookingTypes, JobFacts, RideAccepted, Answering, TakeLeg, ClearOffer
  <2>2. KeyTypes'
    BY <1>1, <1>2, <1>21, Cleared, CleanedUp
       DEF KeyTypes, JobFacts, RideAccepted, Answering, TakeLeg
  <2>3. QueueTypes'
    BY <1>1, <1>21 DEF QueueTypes, RideAccepted, Answering, TakeLeg, ClearOffer
  <2>4. RestTypes'
    BY <1>1, <1>2, <1>21, Answered
       DEF RestTypes, JobFacts, Idle, Request, RideAccepted, Answering, TakeLeg,
           ClearOffer
  <2> QED BY <2>1, <2>2, <2>3, <2>4 DEF Types
<1>22. ASSUME NEW d \in Drivers, RideSettled(d) PROVE Types'
  <2>1. BookingTypes'
    BY <1>1, <1>2, <1>22 DEF BookingTypes, JobFacts, RideSettled, Answering, Cleanup
  <2>2. KeyTypes'
    BY <1>1, <1>2, <1>22, Cleared, CleanedUp
       DEF KeyTypes, JobFacts, RideSettled, Answering
  <2>3. QueueTypes'
    BY <1>1, <1>22 DEF QueueTypes, RideSettled, Answering, Cleanup
  <2>4. RestTypes'
    BY <1>1, <1>2, <1>22
       DEF RestTypes, JobFacts, Request, Idle, RideSettled, Answering, Cleanup
  <2> QED BY <2>1, <2>2, <2>3, <2>4 DEF Types
<1>23. ASSUME NEW d \in Drivers, OfferAccepted(d) PROVE Types'
  <2>1. BookingTypes'
    BY <1>1, <1>2, <1>23 DEF BookingTypes, JobFacts, OfferAccepted, Answering, TakeLeg
  <2>2. KeyTypes'
    BY <1>1, <1>2, <1>23
       DEF KeyTypes, NoOffer, JobFacts, OfferAccepted, Answering, TakeLeg
  <2>3. QueueTypes'
    BY <1>1, <1>23 DEF QueueTypes, OfferAccepted, Answering, TakeLeg
  <2>4. RestTypes'
    BY <1>1, <1>2, <1>23, Answered
       DEF RestTypes, JobFacts, Idle, Request, OfferAccepted, Answering, TakeLeg
  <2> QED BY <2>1, <2>2, <2>3, <2>4 DEF Types
<1>24. ASSUME NEW d \in Drivers, OfferSettled(d) PROVE Types'
  <2>1. BookingTypes'
    BY <1>1, <1>2, <1>24 DEF BookingTypes, JobFacts, OfferSettled, Answering
  <2>2. KeyTypes'
    <3>1. offer' \in [Bookings -> [to : Drivers \cup {None}, n : Nat, accepted : BOOLEAN]]
      <4>1. request[d].b \in Bookings
        BY <1>2, <1>24 DEF OfferSettled, Answering
      <4>2. PICK v \in BOOLEAN : offer' = [offer EXCEPT ![request[d].b].accepted = v]
        BY <1>24 DEF OfferSettled
      <4> DEFINE r == [offer[request[d].b] EXCEPT !.accepted = v]
      <4>3. offer[request[d].b] \in [to : Drivers \cup {None}, n : Nat, accepted : BOOLEAN]
        BY <1>1, <4>1 DEF KeyTypes
      <4>4. r \in [to : Drivers \cup {None}, n : Nat, accepted : BOOLEAN]
        BY <4>3
      <4>5. offer' = [offer EXCEPT ![request[d].b] = r]
        BY <4>2
      <4> HIDE DEF r
      <4> QED BY <1>1, <4>1, <4>4, <4>5 DEF KeyTypes
    <3>2. /\ candidates' \in [Bookings -> SUBSET Drivers]
          /\ tried' \in [Bookings -> SUBSET Drivers]
          /\ searching' \subseteq Bookings
          /\ lock' \in [Drivers -> Bookings \cup {None}]
      BY <1>1, <1>24 DEF KeyTypes, OfferSettled
    <3> QED BY <3>1, <3>2 DEF KeyTypes
  <2>3. QueueTypes'
    BY <1>1, <1>2, <1>24, OfferSettledJobs DEF QueueTypes, Adds, Moves, OfferSettled
  <2>4. RestTypes'
    BY <1>1, <1>2, <1>24 DEF RestTypes, JobFacts, Request, Idle, OfferSettled, Answering
  <2> QED BY <2>1, <2>2, <2>3, <2>4 DEF Types
<1>25. ASSUME NEW d \in Drivers, RideRejected(d) PROVE Types'
  <2>1. BookingTypes'
    BY <1>1, <1>2, <1>25
       DEF BookingTypes, JobFacts, RideRejected, Answering, ClearOffer, OfferTo
  <2>2. KeyTypes'
    BY <1>1, <1>2, <1>25, Cleared, CleanedUp
       DEF KeyTypes, JobFacts, RideRejected, Answering, OfferTo
  <2>3. QueueTypes'
    BY <1>1, <1>2, <1>25, RideRejectedJobs DEF QueueTypes, Adds, Moves, RideRejected
  <2>4. RestTypes'
    BY <1>1, <1>2, <1>25
       DEF RestTypes, JobFacts, Request, Idle, RideRejected, Answering, ClearOffer,
           OfferTo
  <2> QED BY <2>1, <2>2, <2>3, <2>4 DEF Types
<1>26. ASSUME NEW d \in Drivers, OfferRejected(d) PROVE Types'
  <2>1. BookingTypes'
    BY <1>1, <1>2, <1>26 DEF BookingTypes, JobFacts, OfferRejected, Answering
  <2>2. KeyTypes'
    BY <1>1, <1>2, <1>26 DEF KeyTypes, NoOffer, JobFacts, OfferRejected, Answering
  <2>3. QueueTypes'
    BY <1>1, <1>26 DEF QueueTypes, OfferRejected, Answering
  <2>4. RestTypes'
    BY <1>1, <1>2, <1>26
       DEF RestTypes, JobFacts, Request, Idle, OfferRejected, Answering
  <2> QED BY <2>1, <2>2, <2>3, <2>4 DEF Types
<1>27. ASSUME NEW d \in Drivers, GoOffline(d) PROVE Types'
  <2>1. BookingTypes'
    BY <1>1, <1>2, <1>27 DEF BookingTypes, JobFacts, GoOffline
  <2>2. KeyTypes'
    BY <1>1, <1>2, <1>27 DEF KeyTypes, NoOffer, JobFacts, GoOffline
  <2>3. QueueTypes'
    BY <1>1, <1>27 DEF QueueTypes, GoOffline
  <2>4. RestTypes'
    BY <1>1, <1>2, <1>27 DEF RestTypes, JobFacts, KeyTypes, GoOffline
  <2> QED BY <2>1, <2>2, <2>3, <2>4 DEF Types
<1>28. ASSUME NEW d \in Drivers, LockExpires(d) PROVE Types'
  <2>1. BookingTypes'
    BY <1>1, <1>2, <1>28 DEF BookingTypes, JobFacts, LockExpires
  <2>2. KeyTypes'
    BY <1>1, <1>2, <1>28 DEF KeyTypes, NoOffer, JobFacts, LockExpires
  <2>3. QueueTypes'
    BY <1>1, <1>28 DEF QueueTypes, LockExpires
  <2>4. RestTypes'
    BY <1>1, <1>2, <1>28 DEF RestTypes, JobFacts, KeyTypes, LockExpires
  <2> QED BY <2>1, <2>2, <2>3, <2>4 DEF Types
<1>29. ASSUME NEW d \in Drivers, NEW b \in Bookings, LateReject(d, b) PROVE Types'
  <2>1. BookingTypes'
    BY <1>1, <1>2, <1>29 DEF BookingTypes, JobFacts, LateReject
  <2>2. KeyTypes'
    BY <1>1, <1>2, <1>29 DEF KeyTypes, NoOffer, JobFacts, LateReject
  <2>3. QueueTypes'
    BY <1>1, <1>29 DEF QueueTypes, LateReject
  <2>4. RestTypes'
    BY <1>1, <1>2, <1>29
       DEF RestTypes, JobFacts, Request, KeyTypes, Idle, Replies, LateReject
  <2> QED BY <2>1, <2>2, <2>3, <2>4 DEF Types
<1>30. ASSUME NEW d \in Drivers, NEW b \in Bookings, NEW do \in Replies,
               ReadsOffer(d, b, do) PROVE Types'
  <2>1. BookingTypes'
    BY <1>1, <1>2, <1>30 DEF BookingTypes, JobFacts, ReadsOffer, Ask
  <2>2. KeyTypes'
    BY <1>1, <1>2, <1>30 DEF KeyTypes, NoOffer, JobFacts, ReadsOffer, Ask
  <2>3. QueueTypes'
    BY <1>1, <1>30 DEF QueueTypes, ReadsOffer, Ask
  <2>4. RestTypes'
    BY <1>1, <1>2, <1>30
       DEF RestTypes, JobFacts, Request, KeyTypes, Idle, Replies, ReadsOffer, Ask
  <2> QED BY <2>1, <2>2, <2>3, <2>4 DEF Types
<1>31. CASE UNCHANGED vars
  BY <1>31 DEF Types, BookingTypes, KeyTypes, QueueTypes, RestTypes, vars
<1> QED BY <1>3, <1>4, <1>5, <1>6, <1>7, <1>8, <1>9, <1>10, <1>11, <1>12, <1>13,
           <1>14, <1>15, <1>16, <1>17, <1>18, <1>18a, <1>19, <1>20, <1>21, <1>22, <1>23,
           <1>24, <1>25, <1>26, <1>27, <1>28, <1>29, <1>30, <1>31
           DEF Next, JobRuns, DriverReplies

------------------------------------------------------------------------------
(* The chain of jobs. *)

\* No two jobs have the same id.
UniqueIds == \A j, k \in jobs : Id(j) = Id(k) => j = k

\* The numbers of the search jobs are those of the searches begun.
SearchNumbers ==
    /\ \A j \in jobs : j.name = "search" => j.n \in 1 .. searches[j.b]
    /\ \A i \in kept : i[1] # "return" /\ (i[1] = "search" => i[3] <= searches[i[2]])

\* Nobody has heard of the leg.
Unasked(b) ==
    /\ offer[b].to = None /\ asked[b] = {}
    /\ \A d \in Drivers : request[d].b # b
    /\ \A j \in jobs : j.b = b => j.name \in {"return", "search"}

\* A leg nobody waits for has no search.
NothingYet ==
    \A b \in Bookings : leg[b] = "none" => searches[b] = 0 /\ JobsOf(b) = {}

\* Before the first search finds drivers nobody has heard of the leg.
FirstSearch ==
    /\ \A b \in Bookings : searches[b] = 0 => Unasked(b)
    /\ \A j \in jobs : j.name = "search" /\ searches[j.b] = 1 => Unasked(j.b)

\* A leg once taken never waits again.
TakenIsFinal ==
    /\ \A d \in Drivers :
          request[d].do \in {"settle", "txn_settle"} =>
              leg[request[d].b] \in {"taken", "cancelled"}
    /\ \A b \in Bookings : offer[b].accepted => leg[b] \in {"taken", "cancelled"}

\* What keeps the search of a leg one chain of jobs.
ChainInv ==
    UniqueIds /\ SearchNumbers /\ NothingYet /\ FirstSearch /\ TakenIsFinal /\ OneChain

------------------------------------------------------------------------------
(* What every step leaves as it is. *)

\* A leg goes on from none to awaiting to taken or cancelled.
LegGoesOn ==
    \A c \in Bookings :
        /\ leg'[c] = "none" => leg[c] = "none"
        /\ leg[c] \in {"taken", "cancelled"} => leg'[c] \in {"taken", "cancelled"}
        /\ leg'[c] = "awaiting" /\ leg[c] # "none" => leg[c] = "awaiting"

\* No offer is made to somebody new, nor taken while the leg waits.
OffersOnlyGo ==
    \A c \in Bookings :
        /\ offer'[c].to \in {offer[c].to, None}
        /\ offer'[c].accepted => offer[c].accepted \/ leg[c] \in {"taken", "cancelled"}

\* A request ends or settles, and settles only what it took.
RequestsOnlyEnd ==
    \A e \in Drivers :
        /\ request'[e].b \in {request[e].b, None}
        /\ request'[e].do \in {"settle", "txn_settle"} =>
             request'[e] = request[e] \/ leg'[request'[e].b] = "taken"

\* A job j of a booking is over, or one of the same booking takes its place.
Follows(j) == \E k : k.b = j.b /\ jobs' \subseteq (jobs \ {j}) \cup {k}

\* Every action lets a leg go on.
LEMMA LegGoesOnStep == Types /\ [Next]_vars => LegGoesOn
<1> SUFFICES ASSUME Types, [Next]_vars PROVE LegGoesOn
  OBVIOUS
<1> USE DEF booking, Awaiting
<1>1. ASSUME NEW b \in Bookings, PickupPaid(b) PROVE LegGoesOn
  BY <1>1 DEF LegGoesOn, Types, BookingTypes, PickupPaid, ScheduleSearch
<1>2. ASSUME NEW b \in Bookings, ReturnRequested(b) PROVE LegGoesOn
  BY <1>2 DEF LegGoesOn, Types, BookingTypes, ReturnRequested
<1>3. ASSUME NEW b \in Bookings, UserCancels(b) PROVE LegGoesOn
  BY <1>3 DEF LegGoesOn, Types, BookingTypes, UserCancels
<1>4. ASSUME NEW b \in Bookings, OfferExpires(b) PROVE LegGoesOn
  BY <1>4 DEF LegGoesOn, Types, BookingTypes, OfferExpires
<1>5. ASSUME NEW j \in jobs, ReturnJob(j) PROVE LegGoesOn
  BY <1>5 DEF LegGoesOn, Types, BookingTypes, ReturnJob, ScheduleSearch, Done
<1>6. ASSUME NEW j \in jobs, SearchBegins(j) PROVE LegGoesOn
  BY <1>6 DEF LegGoesOn, Types, BookingTypes, SearchBegins, Done
<1>7. ASSUME NEW j \in jobs, SearchFinds(j) PROVE LegGoesOn
  BY <1>7 DEF LegGoesOn, Types, BookingTypes, SearchFinds, OfferTo
<1>8. ASSUME NEW j \in jobs, OfferBegins(j) PROVE LegGoesOn
  BY <1>8 DEF LegGoesOn, Types, BookingTypes, OfferBegins, Done, Cleanup
<1>9. ASSUME NEW j \in jobs, PopCandidate(j) PROVE LegGoesOn
  BY <1>9 DEF LegGoesOn, Types, BookingTypes, PopCandidate
<1>10. ASSUME NEW j \in jobs, CheckCandidate(j) PROVE LegGoesOn
  BY <1>10 DEF LegGoesOn, Types, BookingTypes, CheckCandidate
<1>11. ASSUME NEW j \in jobs, CreateOffer(j) PROVE LegGoesOn
  BY <1>11 DEF LegGoesOn, Types, BookingTypes, CreateOffer
<1>12. ASSUME NEW j \in jobs, ArmTimeout(j) PROVE LegGoesOn
  BY <1>12 DEF LegGoesOn, Types, BookingTypes, ArmTimeout
<1>13. ASSUME NEW j \in jobs, SkipCandidate(j) PROVE LegGoesOn
  BY <1>13 DEF LegGoesOn, Types, BookingTypes, SkipCandidate, MoveOn, OfferTo
<1>14. ASSUME NEW j \in jobs, TimeoutReads(j) PROVE LegGoesOn
  BY <1>14 DEF LegGoesOn, Types, BookingTypes, TimeoutReads, ClearOffer, Done
<1>15. ASSUME NEW j \in jobs, TimeoutActs(j) PROVE LegGoesOn
  BY <1>15 DEF LegGoesOn, Types, BookingTypes, TimeoutActs, ClearOffer, MoveOn, OfferTo
<1>16. ASSUME NEW j \in jobs, FailSearch(j) PROVE LegGoesOn
  BY <1>16
     DEF LegGoesOn, Types, BookingTypes, FailSearch, CancelPickup, MarkReturn, Unlocked, InListener,
         Cleanup, Done
<1>16a. ASSUME NEW j \in jobs, GivingUpFails(j) PROVE LegGoesOn
  BY <1>16a
     DEF LegGoesOn, Types, BookingTypes, GivingUpFails, Unlocked, InListener,
         Cleanup, Done
<1>17. ASSUME NEW j \in jobs, JobThrows(j) PROVE LegGoesOn
  BY <1>17 DEF LegGoesOn, Types, BookingTypes, JobThrows, RunAgain
<1>18. ASSUME NEW j \in jobs, WorkerDies(j) PROVE LegGoesOn
  BY <1>18 DEF LegGoesOn, Types, BookingTypes, WorkerDies, RunAgain
<1>19. ASSUME NEW d \in Drivers, RideAccepted(d) PROVE LegGoesOn
  BY <1>19
     DEF LegGoesOn, Types, BookingTypes, RideAccepted, Answering, TakeLeg,
         ClearOffer
<1>20. ASSUME NEW d \in Drivers, RideSettled(d) PROVE LegGoesOn
  BY <1>20 DEF LegGoesOn, Types, BookingTypes, RideSettled, Answering, Cleanup
<1>21. ASSUME NEW d \in Drivers, OfferAccepted(d) PROVE LegGoesOn
  BY <1>21 DEF LegGoesOn, Types, BookingTypes, OfferAccepted, Answering, TakeLeg
<1>22. ASSUME NEW d \in Drivers, OfferSettled(d) PROVE LegGoesOn
  BY <1>22 DEF LegGoesOn, Types, BookingTypes, OfferSettled, Answering
<1>23. ASSUME NEW d \in Drivers, RideRejected(d) PROVE LegGoesOn
  BY <1>23
     DEF LegGoesOn, Types, BookingTypes, RideRejected, Answering, ClearOffer,
         OfferTo
<1>24. ASSUME NEW d \in Drivers, OfferRejected(d) PROVE LegGoesOn
  BY <1>24 DEF LegGoesOn, Types, BookingTypes, OfferRejected, Answering
<1>25. ASSUME NEW d \in Drivers, GoOffline(d) PROVE LegGoesOn
  BY <1>25 DEF LegGoesOn, Types, BookingTypes, GoOffline
<1>26. ASSUME NEW d \in Drivers, LockExpires(d) PROVE LegGoesOn
  BY <1>26 DEF LegGoesOn, Types, BookingTypes, LockExpires
<1>27. ASSUME NEW d \in Drivers, NEW b \in Bookings, LateReject(d, b) PROVE LegGoesOn
  BY <1>27 DEF LegGoesOn, Types, BookingTypes, LateReject
<1>28. ASSUME NEW d \in Drivers, NEW b \in Bookings, NEW do \in Replies,
               ReadsOffer(d, b, do) PROVE LegGoesOn
  BY <1>28 DEF LegGoesOn, Types, BookingTypes, ReadsOffer, Ask
<1>29. CASE UNCHANGED vars
  BY <1>29 DEF LegGoesOn, vars
<1> QED
  BY <1>1, <1>2, <1>3, <1>4, <1>5, <1>6, <1>7, <1>8, <1>9, <1>10, <1>11, <1>12,
     <1>13, <1>14, <1>15, <1>16, <1>16a, <1>17, <1>18, <1>19, <1>20, <1>21, <1>22, <1>23,
     <1>24, <1>25, <1>26, <1>27, <1>28, <1>29
  DEF Next, JobRuns, DriverReplies

\* The offer an acceptance marks keeps its driver.
LEMMA SettledOffers ==
    ASSUME Types, TakenIsFinal, NEW d \in Drivers, OfferSettled(d)
    PROVE  OffersOnlyGo /\ RequestsOnlyEnd
<1>1. request[d].b \in Bookings /\ leg[request[d].b] \in {"taken", "cancelled"}
  BY Facts DEF TakenIsFinal, OfferSettled, Answering
<1>2. PICK v \in BOOLEAN : offer' = [offer EXCEPT ![request[d].b].accepted = v]
  BY DEF OfferSettled
<1>3. \A c \in Bookings : c # request[d].b => offer'[c] = offer[c]
  BY <1>1, <1>2 DEF Types, KeyTypes
<1>4. offer'[request[d].b].to = offer[request[d].b].to
  BY <1>1, <1>2 DEF Types, KeyTypes
<1>5. OffersOnlyGo
  BY <1>1, <1>3, <1>4 DEF OffersOnlyGo
<1>6. RequestsOnlyEnd
  BY DEF RequestsOnlyEnd, OfferSettled, Types, RestTypes, Idle
<1> QED BY <1>5, <1>6

\* An accepted leg is taken, and its request goes on to settle.
LEMMA TakenRequests ==
    ASSUME Types, NEW d \in Drivers, RideAccepted(d) \/ OfferAccepted(d)
    PROVE  RequestsOnlyEnd
<1>1. request[d] \in Request /\ request[d].do # "idle" /\ request[d].b \in Bookings
  BY Facts DEF RideAccepted, OfferAccepted, Answering
<1>2. \A e \in Drivers : e # d => request'[e] = request[e]
  BY DEF Types, RestTypes, RideAccepted, OfferAccepted
<1>3. CASE request'[d] = Idle
  BY <1>2, <1>3 DEF RequestsOnlyEnd, Idle
<1>4. ASSUME NEW do \in {"settle", "txn_settle"},
             request' = [request EXCEPT ![d].do = do],
             leg' = [leg EXCEPT ![request[d].b] = "taken"]
      PROVE  RequestsOnlyEnd
  <2> DEFINE r == [request[d] EXCEPT !.do = do]
  <2>1. request'[d] = r
    BY <1>4 DEF Types, RestTypes
  <2>2. r.b = request[d].b
    BY <1>1, Answered
  <2>3. leg'[request[d].b] = "taken"
    BY <1>1, <1>4 DEF Types, BookingTypes
  <2> HIDE DEF r
  <2> QED BY <1>2, <2>1, <2>2, <2>3 DEF RequestsOnlyEnd
<1>5. CASE RideAccepted(d)
  BY <1>3, <1>4, <1>5 DEF RideAccepted, TakeLeg, Types, RestTypes
<1>6. CASE OfferAccepted(d)
  BY <1>3, <1>4, <1>6 DEF OfferAccepted, TakeLeg, Types, RestTypes
<1> QED BY <1>5, <1>6

\* The new job of Follows, whichever way job j ended.
LEMMA Following ==
    ASSUME NEW j, NEW name, NEW n, NEW at, NEW d,
           \/ jobs' = jobs \ {j}
           \/ Moves(j, at, d)
           \/ Adds(jobs \ {j}, name, j.b, n, d)
    PROVE  Follows(j)
  BY DEF Follows, Moves, Adds

\* Ids stay unique when a job goes on,
LEMMA IdsMoved ==
    ASSUME UniqueIds, NEW j \in jobs, NEW at, NEW d, Moves(j, at, d)
    PROVE  UniqueIds'
  BY DEF UniqueIds, Moves, Id

\* ... when another is queued,
LEMMA IdsAdded ==
    ASSUME UniqueIds, NEW js \in SUBSET jobs, NEW name, NEW b, NEW n, NEW d,
           Adds(js, name, b, n, d)
    PROVE  UniqueIds'
  BY DEF UniqueIds, Adds

\* ... and when one ends.
LEMMA IdsLeft ==
    ASSUME UniqueIds, jobs' \subseteq jobs
    PROVE  UniqueIds'
  BY DEF UniqueIds

\* The chain stays one when a job goes on,
LEMMA ChainFollows ==
    ASSUME OneChain, NEW j \in jobs, Follows(j), forked' = forked
    PROVE  OneChain'
  BY DEF OneChain, Follows, JobsOf

\* ... when jobs end,
LEMMA ChainLeft ==
    ASSUME OneChain, jobs' \subseteq jobs, forked' = forked
    PROVE  OneChain'
  BY DEF OneChain, JobsOf

\* ... and when a job is queued where there is none.
LEMMA ChainAdded ==
    ASSUME OneChain, NEW b, NEW name, NEW n, NEW d, Adds(jobs, name, b, n, d),
           forked \subseteq forked', JobsOf(b) = {} \/ b \in forked'
    PROVE  OneChain'
  BY DEF OneChain, Adds, JobsOf

\* The numbers of the searches stay good when a job goes on,
LEMMA NumbersMoved ==
    ASSUME SearchNumbers, NEW j \in jobs, NEW at, NEW d, Moves(j, at, d),
           UNCHANGED searches, kept' = kept \/ (kept' = kept \cup {Id(j)} /\ j.name # "return"),
           j.b \in Bookings, j.n \in Nat, searches[j.b] \in Nat
    PROVE  SearchNumbers'
  BY DEF SearchNumbers, Moves, Id

\* ... when a job is queued,
LEMMA NumbersAdded ==
    ASSUME SearchNumbers, NEW js \in SUBSET jobs, NEW name, NEW b \in Bookings, NEW n, NEW d,
           Adds(js, name, b, n, d), QueueTypes, \A j \in jobs : j.b \in Bookings, UNCHANGED kept,
           \A c \in Bookings : searches[c] \in Nat /\ searches'[c] \in {searches[c], searches[c] + 1},
           name = "search" => n \in 1 .. searches'[b]
    PROVE  SearchNumbers'
<1>1. \A i \in kept : i[1] # "return" /\ (i[1] = "search" => i[3] <= searches'[i[2]])
  BY DEF SearchNumbers, QueueTypes
<1>2. \A k \in jobs : k.name = "search" => k.n \in 1 .. searches'[k.b]
  BY DEF SearchNumbers
<1> QED BY <1>1, <1>2 DEF SearchNumbers, Adds

\* ... and when jobs end.
LEMMA NumbersLeft ==
    ASSUME SearchNumbers, jobs' \subseteq jobs, UNCHANGED <<searches, kept>>
    PROVE  SearchNumbers'
  BY DEF SearchNumbers

\* A leg nobody waits for has no job after one goes on,
LEMMA NothingFollows ==
    ASSUME NothingYet, NEW j \in jobs, Follows(j), LegGoesOn,
           \A c \in Bookings : c # j.b => searches'[c] = searches[c]
    PROVE  NothingYet'
  BY DEF NothingYet, Follows, JobsOf, LegGoesOn

\* ... when jobs end,
LEMMA NothingLeft ==
    ASSUME NothingYet, jobs' \subseteq jobs, LegGoesOn, UNCHANGED searches
    PROVE  NothingYet'
  BY DEF NothingYet, JobsOf, LegGoesOn

\* ... and when a job is queued for a leg that waits.
LEMMA NothingAdded ==
    ASSUME NothingYet, NEW b, NEW name, NEW n, NEW d, Adds(jobs, name, b, n, d), LegGoesOn,
           b \in Bookings => leg'[b] # "none",
           \A c \in Bookings : c # b => searches'[c] = searches[c]
    PROVE  NothingYet'
  BY DEF NothingYet, JobsOf, LegGoesOn, Adds

\* A taken leg stays so, whatever requests end.
LEMMA TakenStays ==
    ASSUME TakenIsFinal, LegGoesOn, RequestsOnlyEnd, OffersOnlyGo, Types
    PROVE  TakenIsFinal'
<1>1. ASSUME NEW d \in Drivers, request'[d].do \in {"settle", "txn_settle"}
      PROVE  leg'[request'[d].b] \in {"taken", "cancelled"}
  <2>1. CASE request'[d] = request[d]
    BY <1>1, <2>1, Facts DEF TakenIsFinal, LegGoesOn
  <2> QED BY <1>1, <2>1 DEF RequestsOnlyEnd
<1>2. ASSUME NEW b \in Bookings, offer'[b].accepted
      PROVE  leg'[b] \in {"taken", "cancelled"}
  BY <1>2 DEF TakenIsFinal, LegGoesOn, OffersOnlyGo
<1> QED BY <1>1, <1>2 DEF TakenIsFinal

\* A leg nobody heard of stays so unless somebody tells.
StaysUnasked == \A c \in Bookings : Unasked(c) => Unasked(c)'

\* Nobody hears of a leg unless an offer, a request or a job says so.
LEMMA UnaskedStays ==
    ASSUME OffersOnlyGo, RequestsOnlyEnd, NoneIsNobody, UNCHANGED asked,
           \A k \in jobs' : k \in jobs \/ k.name \in {"return", "search"}
             \/ \E i \in jobs : i.b = k.b /\ i.name \notin {"return", "search"}
    PROVE  StaysUnasked
  BY DEF StaysUnasked, OffersOnlyGo, RequestsOnlyEnd, Unasked

\* Searches neither begin nor are joined by others.
LEMMA SearchesStay ==
    ASSUME FirstSearch, StaysUnasked, UNCHANGED searches, \A j \in jobs : j.b \in Bookings,
           \A k \in jobs' : k.name = "search" => \E i \in jobs : i.name = "search" /\ i.b = k.b
    PROVE  FirstSearch'
  BY DEF FirstSearch, StaysUnasked

\* A search that begins is the first, or not.
LEMMA SearchAdded ==
    ASSUME FirstSearch, StaysUnasked, SearchNumbers, NEW js \in SUBSET jobs,
           NEW b \in Bookings, NEW n, NEW d,
           Adds(js, "search", b, n, d), \A j \in jobs : j.b \in Bookings,
           \A c \in Bookings : searches[c] \in Nat /\ searches'[c] = IF c = b THEN searches[c] + 1 ELSE searches[c]
    PROVE  FirstSearch'
<1>1. \A k \in jobs' : k \in jobs \/ k.b = b
  BY DEF Adds
<1>2. searches'[b] = 1 => Unasked(b)'
  BY DEF FirstSearch, StaysUnasked
<1> QED BY <1>1, <1>2 DEF FirstSearch, StaysUnasked
\* Every action keeps the chain.
LEMMA ChainStep == Types /\ ChainInv /\ [Next]_vars => ChainInv'
<1> SUFFICES ASSUME Types, ChainInv, [Next]_vars PROVE ChainInv'
  OBVIOUS
<1> USE DEF keys, booking, fleet, queue, history, ChainInv
<1>1. LegGoesOn
  BY LegGoesOnStep
<1>2. ASSUME NEW b \in Bookings, PickupPaid(b) PROVE ChainInv'
  <2>1. UNCHANGED <<kept, forked>>
    BY <1>2 DEF PickupPaid
  <2>3. /\ b \in Bookings /\ leg[b] = "none" /\ leg'[b] = "awaiting"
        /\ searches' = [searches EXCEPT ![b] = @ + 1]
    BY <1>2, Facts DEF PickupPaid, Types, BookingTypes, ScheduleSearch
  <2>4. UniqueIds'
    BY <1>2, PickupPaidJobs, IdsMoved, IdsAdded, IdsLeft
  <2>5. SearchNumbers'
    BY <1>2, PickupPaidJobs, <2>1, <2>3, Facts, NumbersAdded
       DEF JobFacts, Types, RestTypes
  <2>6. NothingYet'
    BY <1>1, <1>2, PickupPaidJobs, <2>1, <2>3, NothingAdded
       DEF LegGoesOn, Types, RestTypes
  <2>69. UNCHANGED asked
    BY <1>2 DEF PickupPaid
  <2>68. OffersOnlyGo
    BY <1>2 DEF OffersOnlyGo, Types, KeyTypes, NoOffer, PickupPaid, ScheduleSearch
  <2>67. RequestsOnlyEnd
    BY <1>2 DEF RequestsOnlyEnd, Types, RestTypes, Idle, PickupPaid, ScheduleSearch
  <2>70. OffersOnlyGo /\ RequestsOnlyEnd
    BY <2>67, <2>68
  <2>7. StaysUnasked
    BY <1>2, PickupPaidJobs, <2>69, <2>70, NoneIsNobody, UnaskedStays DEF Moves, Adds
  <2>8. FirstSearch'
    BY <1>2, PickupPaidJobs, <2>3, <2>7, Facts, SearchAdded
       DEF JobFacts, Types, RestTypes
  <2>9. TakenIsFinal'
    BY <1>1, <2>70, TakenStays
  <2>10. OneChain'
    BY <1>2, PickupPaidJobs, <2>1, <2>3, ChainAdded DEF NothingYet
  <2> QED BY <2>4, <2>5, <2>6, <2>8, <2>9, <2>10 DEF ChainInv
<1>3. ASSUME NEW b \in Bookings, ReturnRequested(b) PROVE ChainInv'
  <2>1. UNCHANGED <<searches, kept>>
    BY <1>3 DEF ReturnRequested
  <2>3. /\ b \in Bookings /\ leg'[b] = "awaiting" /\ forked \subseteq forked'
        /\ JobsOf(b) = {} \/ b \in forked'
    BY <1>3, Facts DEF ReturnRequested, Types, BookingTypes
  <2>4. UniqueIds'
    BY <1>3, ReturnRequestedJobs, IdsMoved, IdsAdded, IdsLeft
  <2>5. SearchNumbers'
    BY <1>3, ReturnRequestedJobs, <2>1, <2>3, Facts, NumbersAdded DEF JobFacts, Types
  <2>6. NothingYet'
    BY <1>1, <1>3, ReturnRequestedJobs, <2>1, <2>3, NothingAdded DEF LegGoesOn
  <2>69. UNCHANGED asked
    BY <1>3 DEF ReturnRequested
  <2>68. OffersOnlyGo
    BY <1>3 DEF OffersOnlyGo, Types, KeyTypes, NoOffer, ReturnRequested
  <2>67. RequestsOnlyEnd
    BY <1>3 DEF RequestsOnlyEnd, Types, RestTypes, Idle, ReturnRequested
  <2>70. OffersOnlyGo /\ RequestsOnlyEnd
    BY <2>67, <2>68
  <2>7. StaysUnasked
    BY <1>3, ReturnRequestedJobs, <2>69, <2>70, NoneIsNobody, UnaskedStays
       DEF Moves, Adds
  <2>8. FirstSearch'
    BY <1>3, ReturnRequestedJobs, <2>1, <2>7, Facts, SearchesStay
       DEF JobFacts, Moves, Adds
  <2>9. TakenIsFinal'
    BY <1>1, <2>70, TakenStays
  <2>10. OneChain'
    BY <1>3, ReturnRequestedJobs, <2>1, <2>3, ChainAdded DEF NothingYet
  <2> QED BY <2>4, <2>5, <2>6, <2>8, <2>9, <2>10 DEF ChainInv
<1>4. ASSUME NEW b \in Bookings, UserCancels(b) PROVE ChainInv'
  <2>1. UNCHANGED <<searches, kept, forked>>
    BY <1>4 DEF UserCancels
  <2>4. UniqueIds'
    BY <1>4, IdsLeft DEF UserCancels
  <2>5. SearchNumbers'
    BY <1>4, <2>1, NumbersLeft DEF UserCancels
  <2>6. NothingYet'
    BY <1>1, <1>4, <2>1, NothingLeft DEF UserCancels
  <2>69. UNCHANGED asked
    BY <1>4 DEF UserCancels
  <2>68. OffersOnlyGo
    BY <1>4 DEF OffersOnlyGo, Types, KeyTypes, NoOffer, UserCancels
  <2>67. RequestsOnlyEnd
    BY <1>4 DEF RequestsOnlyEnd, Types, RestTypes, Idle, UserCancels
  <2>70. OffersOnlyGo /\ RequestsOnlyEnd
    BY <2>67, <2>68
  <2>7. StaysUnasked
    BY <1>4, <2>69, <2>70, NoneIsNobody, UnaskedStays DEF UserCancels
  <2>8. FirstSearch'
    BY <1>4, <2>1, <2>7, Facts, SearchesStay DEF JobFacts, UserCancels
  <2>9. TakenIsFinal'
    BY <1>1, <2>70, TakenStays
  <2>10. OneChain'
    BY <1>4, <2>1, ChainLeft DEF UserCancels
  <2> QED BY <2>4, <2>5, <2>6, <2>8, <2>9, <2>10 DEF ChainInv
<1>5. ASSUME NEW b \in Bookings, OfferExpires(b) PROVE ChainInv'
  <2>1. UNCHANGED <<searches, kept, forked>>
    BY <1>5 DEF OfferExpires
  <2>4. UniqueIds'
    BY <1>5, IdsLeft DEF OfferExpires
  <2>5. SearchNumbers'
    BY <1>5, <2>1, NumbersLeft DEF OfferExpires
  <2>6. NothingYet'
    BY <1>1, <1>5, <2>1, NothingLeft DEF OfferExpires
  <2>69. UNCHANGED asked
    BY <1>5 DEF OfferExpires
  <2>68. OffersOnlyGo
    BY <1>5 DEF OffersOnlyGo, Types, KeyTypes, NoOffer, OfferExpires
  <2>67. RequestsOnlyEnd
    BY <1>5 DEF RequestsOnlyEnd, Types, RestTypes, Idle, OfferExpires
  <2>70. OffersOnlyGo /\ RequestsOnlyEnd
    BY <2>67, <2>68
  <2>7. StaysUnasked
    BY <1>5, <2>69, <2>70, NoneIsNobody, UnaskedStays DEF OfferExpires
  <2>8. FirstSearch'
    BY <1>5, <2>1, <2>7, Facts, SearchesStay DEF JobFacts, OfferExpires
  <2>9. TakenIsFinal'
    BY <1>1, <2>70, TakenStays
  <2>10. OneChain'
    BY <1>5, <2>1, ChainLeft DEF OfferExpires
  <2> QED BY <2>4, <2>5, <2>6, <2>8, <2>9, <2>10 DEF ChainInv
<1>6. ASSUME NEW j \in jobs, ReturnJob(j) PROVE ChainInv'
  <2>1. UNCHANGED <<kept, forked>>
    BY <1>6 DEF ReturnJob
  <2>3. j \in jobs /\ JobFacts(j) /\ j.b \in Bookings /\ Follows(j)
    BY <1>6, ReturnJobJobs, Following, Facts DEF JobFacts
  <2>4. UniqueIds'
    BY <1>6, ReturnJobJobs, IdsMoved, IdsAdded, IdsLeft
  <2>51. ASSUME Awaiting(j.b)
         PROVE  /\ \A c \in Bookings :
                      /\ searches[c] \in Nat
                      /\ searches'[c] = IF c = j.b THEN searches[c] + 1 ELSE searches[c]
                /\ Adds(jobs \ {j}, "search", j.b, searches[j.b] + 1, None)
    <3>1. searches' = [searches EXCEPT ![j.b] = @ + 1]
      BY <1>6, <2>51 DEF ReturnJob, ScheduleSearch
    <3>2. \A c \in Bookings : searches[c] \in Nat
                            /\ searches'[c] = IF c = j.b THEN searches[c] + 1 ELSE searches[c]
      BY <3>1 DEF Types, RestTypes
    <3>5. Adds(jobs \ {j}, "search", j.b, searches[j.b] + 1, None)
      BY <1>6, <2>51, ReturnJobJobs
    <3> QED BY <3>2, <3>5
  <2>52. ASSUME ~Awaiting(j.b) PROVE jobs' \subseteq jobs /\ UNCHANGED searches
    BY <1>6, <2>52 DEF ReturnJob, Done
  <2>5. SearchNumbers'
    BY <2>1, <2>3, <2>51, <2>52, Facts, NumbersAdded, NumbersLeft DEF JobFacts, Types
  <2>6. NothingYet'
    BY <1>1, <1>6, <2>3, NothingFollows DEF ReturnJob, ScheduleSearch, Types, RestTypes
  <2>69. UNCHANGED asked
    BY <1>6 DEF ReturnJob
  <2>68. OffersOnlyGo
    BY <1>6 DEF OffersOnlyGo, Types, KeyTypes, NoOffer, ReturnJob, ScheduleSearch, Done
  <2>67. RequestsOnlyEnd
    BY <1>6 DEF RequestsOnlyEnd, Types, RestTypes, Idle, ReturnJob, ScheduleSearch, Done
  <2>70. OffersOnlyGo /\ RequestsOnlyEnd
    BY <2>67, <2>68
  <2>7. StaysUnasked
    BY <1>6, ReturnJobJobs, <2>3, <2>69, <2>70, NoneIsNobody, UnaskedStays
       DEF Moves, Adds, ReturnJob, JobFacts
  <2>8. FirstSearch'
    BY <2>3, <2>7, <2>51, <2>52, Facts, SearchAdded, SearchesStay DEF JobFacts
  <2>9. TakenIsFinal'
    BY <1>1, <2>70, TakenStays
  <2>10. OneChain'
    BY <2>1, <2>3, ChainFollows
  <2> QED BY <2>4, <2>5, <2>6, <2>8, <2>9, <2>10 DEF ChainInv
<1>7. ASSUME NEW j \in jobs, SearchBegins(j) PROVE ChainInv'
  <2>1. UNCHANGED <<searches, kept, forked>>
    BY <1>7 DEF SearchBegins
  <2>3. j \in jobs /\ JobFacts(j) /\ j.b \in Bookings /\ Follows(j)
    BY <1>7, SearchBeginsJobs, Following, Facts DEF JobFacts
  <2>4. UniqueIds'
    BY <1>7, SearchBeginsJobs, IdsMoved, IdsLeft
  <2>5. SearchNumbers'
    BY <1>7, SearchBeginsJobs, <2>1, <2>3, Facts, NumbersMoved, NumbersLeft DEF JobFacts
  <2>6. NothingYet'
    BY <1>1, <2>1, <2>3, NothingFollows
  <2>69. UNCHANGED asked
    BY <1>7 DEF SearchBegins
  <2>68. OffersOnlyGo
    BY <1>7 DEF OffersOnlyGo, Types, KeyTypes, NoOffer, SearchBegins, Done
  <2>67. RequestsOnlyEnd
    BY <1>7 DEF RequestsOnlyEnd, Types, RestTypes, Idle, SearchBegins, Done
  <2>70. OffersOnlyGo /\ RequestsOnlyEnd
    BY <2>67, <2>68
  <2>7. StaysUnasked
    BY <1>7, SearchBeginsJobs, <2>3, <2>69, <2>70, NoneIsNobody, UnaskedStays
       DEF Moves, Adds, SearchBegins, JobFacts
  <2>8. FirstSearch'
    BY <1>7, SearchBeginsJobs, <2>1, <2>7, Facts, SearchesStay DEF JobFacts, Moves, Adds
  <2>9. TakenIsFinal'
    BY <1>1, <2>70, TakenStays
  <2>10. OneChain'
    BY <2>1, <2>3, ChainFollows
  <2> QED BY <2>4, <2>5, <2>6, <2>8, <2>9, <2>10 DEF ChainInv
<1>8. ASSUME NEW j \in jobs, SearchFinds(j) PROVE ChainInv'
  <2>1. UNCHANGED <<searches, kept, forked>>
    BY <1>8 DEF SearchFinds
  <2>3. j \in jobs /\ JobFacts(j) /\ j.b \in Bookings /\ Follows(j)
    BY <1>8, SearchFindsJobs, Following, Facts DEF JobFacts
  <2>4. UniqueIds'
    BY <1>8, SearchFindsJobs, IdsMoved, IdsAdded, IdsLeft
  <2>5. SearchNumbers'
    BY <1>8, SearchFindsJobs, <2>1, <2>3, Facts, NumbersAdded, NumbersMoved
       DEF JobFacts, Types
  <2>6. NothingYet'
    BY <1>1, <2>1, <2>3, NothingFollows
  <2>71. RequestsOnlyEnd /\ OffersOnlyGo
    BY <1>8 DEF SearchFinds, RequestsOnlyEnd, OffersOnlyGo
  <2>7. \A c \in Bookings : c # j.b /\ Unasked(c) => Unasked(c)'
    BY <1>8, SearchFindsJobs, <2>3
       DEF Unasked, SearchFinds, Moves, Adds, Types, RestTypes
  <2>8. FirstSearch'
    <3>1. CASE Moves(j, "fail", Named(j))
      <4>1. StaysUnasked
        BY <1>8, <2>3, <2>7, <2>71, <3>1
           DEF StaysUnasked, Unasked, OffersOnlyGo, RequestsOnlyEnd,
           SearchFinds, Moves, Types, RestTypes
      <4> QED BY <1>8, <2>1, <2>3, <3>1, <4>1, Facts, SearchesStay DEF JobFacts, Moves
    <3>2. CASE Adds(jobs \ {j}, "offer", j.b, 1, None)
      <4>1. j.name = "search" /\ UNCHANGED searches
        BY <1>8, <2>1 DEF SearchFinds
      <4>2. \A k \in jobs' : k.name = "search" => k \in jobs \ {j}
        BY <3>2 DEF Adds
      <4>3. \A c \in Bookings : c # j.b \/ searches[c] # 0
        BY <4>1, <2>3 DEF SearchNumbers
      <4>4. \A k \in jobs \ {j} : k.name = "search" /\ k.b = j.b => searches[j.b] # 1
        BY <2>3, <4>1, Facts DEF SearchNumbers, UniqueIds, Id, JobFacts
      <4> QED BY <2>3, <2>7, <4>1, <4>2, <4>3, <4>4, Facts DEF FirstSearch, JobFacts
    <3> QED BY <1>8, <3>1, <3>2, SearchFindsJobs
  <2>9. TakenIsFinal'
    BY <1>1, <2>71, TakenStays
  <2>10. OneChain'
    BY <2>1, <2>3, ChainFollows
  <2> QED BY <2>4, <2>5, <2>6, <2>8, <2>9, <2>10 DEF ChainInv
<1>9. ASSUME NEW j \in jobs, OfferBegins(j) PROVE ChainInv'
  <2>1. UNCHANGED <<searches, kept, forked>>
    BY <1>9 DEF OfferBegins
  <2>3. j \in jobs /\ JobFacts(j) /\ j.b \in Bookings /\ Follows(j)
    BY <1>9, OfferBeginsJobs, Following, Facts DEF JobFacts
  <2>4. UniqueIds'
    BY <1>9, OfferBeginsJobs, IdsMoved, IdsLeft
  <2>5. SearchNumbers'
    BY <1>9, OfferBeginsJobs, <2>1, <2>3, Facts, NumbersMoved, NumbersLeft DEF JobFacts
  <2>6. NothingYet'
    BY <1>1, <2>1, <2>3, NothingFollows
  <2>69. UNCHANGED asked
    BY <1>9 DEF OfferBegins
  <2>68. OffersOnlyGo
    BY <1>9 DEF OffersOnlyGo, Types, KeyTypes, NoOffer, OfferBegins, Done, Cleanup
  <2>67. RequestsOnlyEnd
    BY <1>9 DEF RequestsOnlyEnd, Types, RestTypes, Idle, OfferBegins, Done, Cleanup
  <2>70. OffersOnlyGo /\ RequestsOnlyEnd
    BY <2>67, <2>68
  <2>7. StaysUnasked
    BY <1>9, OfferBeginsJobs, <2>3, <2>69, <2>70, NoneIsNobody, UnaskedStays
       DEF Moves, Adds, OfferBegins, JobFacts
  <2>8. FirstSearch'
    BY <1>9, OfferBeginsJobs, <2>1, <2>7, Facts, SearchesStay DEF JobFacts, Moves, Adds
  <2>9. TakenIsFinal'
    BY <1>1, <2>70, TakenStays
  <2>10. OneChain'
    BY <2>1, <2>3, ChainFollows
  <2> QED BY <2>4, <2>5, <2>6, <2>8, <2>9, <2>10 DEF ChainInv
<1>10. ASSUME NEW j \in jobs, PopCandidate(j) PROVE ChainInv'
  <2>1. UNCHANGED <<searches, kept, forked>>
    BY <1>10 DEF PopCandidate
  <2>3. j \in jobs /\ JobFacts(j) /\ j.b \in Bookings /\ Follows(j)
    BY <1>10, PopCandidateJobs, Following, Facts DEF JobFacts
  <2>4. UniqueIds'
    BY <1>10, PopCandidateJobs, IdsMoved, IdsLeft
  <2>5. SearchNumbers'
    BY <1>10, PopCandidateJobs, <2>1, <2>3, Facts, NumbersMoved, NumbersLeft
       DEF JobFacts
  <2>6. NothingYet'
    BY <1>1, <2>1, <2>3, NothingFollows
  <2>69. UNCHANGED asked
    BY <1>10 DEF PopCandidate
  <2>68. OffersOnlyGo
    BY <1>10 DEF OffersOnlyGo, Types, KeyTypes, NoOffer, PopCandidate
  <2>67. RequestsOnlyEnd
    BY <1>10 DEF RequestsOnlyEnd, Types, RestTypes, Idle, PopCandidate
  <2>70. OffersOnlyGo /\ RequestsOnlyEnd
    BY <2>67, <2>68
  <2>7. StaysUnasked
    BY <1>10, PopCandidateJobs, <2>3, <2>69, <2>70, NoneIsNobody, UnaskedStays
       DEF Moves, Adds, PopCandidate, JobFacts
  <2>8. FirstSearch'
    BY <1>10, PopCandidateJobs, <2>1, <2>7, Facts, SearchesStay
       DEF JobFacts, Moves, Adds
  <2>9. TakenIsFinal'
    BY <1>1, <2>70, TakenStays
  <2>10. OneChain'
    BY <2>1, <2>3, ChainFollows
  <2> QED BY <2>4, <2>5, <2>6, <2>8, <2>9, <2>10 DEF ChainInv
<1>11. ASSUME NEW j \in jobs, CheckCandidate(j) PROVE ChainInv'
  <2>1. UNCHANGED <<searches, kept, forked>>
    BY <1>11 DEF CheckCandidate
  <2>3. j \in jobs /\ JobFacts(j) /\ j.b \in Bookings /\ Follows(j)
    BY <1>11, CheckCandidateJobs, Following, Facts DEF JobFacts
  <2>4. UniqueIds'
    BY <1>11, CheckCandidateJobs, IdsMoved, IdsLeft
  <2>5. SearchNumbers'
    BY <1>11, CheckCandidateJobs, <2>1, <2>3, Facts, NumbersMoved, NumbersLeft
       DEF JobFacts
  <2>6. NothingYet'
    BY <1>1, <2>1, <2>3, NothingFollows
  <2>69. UNCHANGED asked
    BY <1>11 DEF CheckCandidate
  <2>68. OffersOnlyGo
    BY <1>11 DEF OffersOnlyGo, Types, KeyTypes, NoOffer, CheckCandidate
  <2>67. RequestsOnlyEnd
    BY <1>11 DEF RequestsOnlyEnd, Types, RestTypes, Idle, CheckCandidate
  <2>70. OffersOnlyGo /\ RequestsOnlyEnd
    BY <2>67, <2>68
  <2>7. StaysUnasked
    BY <1>11, CheckCandidateJobs, <2>3, <2>69, <2>70, NoneIsNobody, UnaskedStays
       DEF Moves, Adds, CheckCandidate, JobFacts
  <2>8. FirstSearch'
    BY <1>11, CheckCandidateJobs, <2>1, <2>7, Facts, SearchesStay
       DEF JobFacts, Moves, Adds
  <2>9. TakenIsFinal'
    BY <1>1, <2>70, TakenStays
  <2>10. OneChain'
    BY <2>1, <2>3, ChainFollows
  <2> QED BY <2>4, <2>5, <2>6, <2>8, <2>9, <2>10 DEF ChainInv
<1>12. ASSUME NEW j \in jobs, CreateOffer(j) PROVE ChainInv'
  <2>1. UNCHANGED <<searches, kept, forked>>
    BY <1>12 DEF CreateOffer
  <2>3. j \in jobs /\ JobFacts(j) /\ j.b \in Bookings /\ Follows(j)
    BY <1>12, CreateOfferJobs, Following, Facts DEF JobFacts
  <2>4. UniqueIds'
    BY <1>12, CreateOfferJobs, IdsMoved, IdsLeft
  <2>5. SearchNumbers'
    BY <1>12, CreateOfferJobs, <2>1, <2>3, Facts, NumbersMoved, NumbersLeft DEF JobFacts
  <2>6. NothingYet'
    BY <1>1, <2>1, <2>3, NothingFollows
  <2>70. \A c \in Bookings :
             c # j.b => offer'[c] = offer[c] /\ asked'[c] = asked[c] /\ request' = request
    BY <1>12 DEF CreateOffer, Types, KeyTypes, RestTypes
  <2>71. ~Unasked(j.b)
    BY <1>12, <2>3 DEF CreateOffer, Unasked, JobFacts
  <2>72. \A k \in jobs' : k \in jobs \/ k.b = j.b
    BY <1>12, CreateOfferJobs DEF Moves
  <2>7. StaysUnasked
    BY <2>70, <2>71, <2>72 DEF StaysUnasked, Unasked
  <2>8. FirstSearch'
    BY <1>12, CreateOfferJobs, <2>1, <2>7, Facts, SearchesStay DEF JobFacts, Moves, Adds
  <2>9. TakenIsFinal'
    BY <1>12, <1>1
       DEF TakenIsFinal, LegGoesOn, CreateOffer, Types, KeyTypes, RestTypes, Replies
  <2>10. OneChain'
    BY <2>1, <2>3, ChainFollows
  <2> QED BY <2>4, <2>5, <2>6, <2>8, <2>9, <2>10 DEF ChainInv
<1>13. ASSUME NEW j \in jobs, ArmTimeout(j) PROVE ChainInv'
  <2>1. UNCHANGED <<searches, kept, forked>>
    BY <1>13 DEF ArmTimeout
  <2>3. j \in jobs /\ JobFacts(j) /\ j.b \in Bookings /\ Follows(j)
    BY <1>13, ArmTimeoutJobs, Following, Facts DEF JobFacts
  <2>4. UniqueIds'
    BY <1>13, ArmTimeoutJobs, IdsMoved, IdsAdded, IdsLeft
  <2>5. SearchNumbers'
    BY <1>13, ArmTimeoutJobs, <2>1, <2>3, Facts, NumbersAdded, NumbersMoved
       DEF JobFacts, Types
  <2>6. NothingYet'
    BY <1>1, <2>1, <2>3, NothingFollows
  <2>69. UNCHANGED asked
    BY <1>13 DEF ArmTimeout
  <2>68. OffersOnlyGo
    BY <1>13 DEF OffersOnlyGo, Types, KeyTypes, NoOffer, ArmTimeout
  <2>67. RequestsOnlyEnd
    BY <1>13 DEF RequestsOnlyEnd, Types, RestTypes, Idle, ArmTimeout
  <2>70. OffersOnlyGo /\ RequestsOnlyEnd
    BY <2>67, <2>68
  <2>7. StaysUnasked
    BY <1>13, ArmTimeoutJobs, <2>3, <2>69, <2>70, NoneIsNobody, UnaskedStays
       DEF Moves, Adds, ArmTimeout, JobFacts
  <2>8. FirstSearch'
    BY <1>13, ArmTimeoutJobs, <2>1, <2>7, Facts, SearchesStay DEF JobFacts, Moves, Adds
  <2>9. TakenIsFinal'
    BY <1>1, <2>70, TakenStays
  <2>10. OneChain'
    BY <2>1, <2>3, ChainFollows
  <2> QED BY <2>4, <2>5, <2>6, <2>8, <2>9, <2>10 DEF ChainInv
<1>14. ASSUME NEW j \in jobs, SkipCandidate(j) PROVE ChainInv'
  <2>1. UNCHANGED <<searches, kept, forked>>
    BY <1>14 DEF SkipCandidate
  <2>3. j \in jobs /\ JobFacts(j) /\ j.b \in Bookings /\ Follows(j)
    BY <1>14, SkipCandidateJobs, Following, Facts DEF JobFacts
  <2>4. UniqueIds'
    BY <1>14, SkipCandidateJobs, IdsMoved, IdsAdded, IdsLeft
  <2>5. SearchNumbers'
    BY <1>14, SkipCandidateJobs, <2>1, <2>3, Facts, NumbersAdded, NumbersMoved
       DEF JobFacts, Types
  <2>6. NothingYet'
    BY <1>1, <2>1, <2>3, NothingFollows
  <2>69. UNCHANGED asked
    BY <1>14 DEF SkipCandidate
  <2>68. OffersOnlyGo
    BY <1>14 DEF OffersOnlyGo, Types, KeyTypes, NoOffer, SkipCandidate, MoveOn, OfferTo
  <2>67. RequestsOnlyEnd
    BY <1>14 DEF RequestsOnlyEnd, Types, RestTypes, Idle, SkipCandidate, MoveOn, OfferTo
  <2>70. OffersOnlyGo /\ RequestsOnlyEnd
    BY <2>67, <2>68
  <2>7. StaysUnasked
    BY <1>14, SkipCandidateJobs, <2>3, <2>69, <2>70, NoneIsNobody, UnaskedStays
       DEF Moves, Adds, SkipCandidate, JobFacts
  <2>8. FirstSearch'
    BY <1>14, SkipCandidateJobs, <2>1, <2>7, Facts, SearchesStay
       DEF JobFacts, Moves, Adds
  <2>9. TakenIsFinal'
    BY <1>1, <2>70, TakenStays
  <2>10. OneChain'
    BY <2>1, <2>3, ChainFollows
  <2> QED BY <2>4, <2>5, <2>6, <2>8, <2>9, <2>10 DEF ChainInv
<1>15. ASSUME NEW j \in jobs, TimeoutReads(j) PROVE ChainInv'
  <2>1. UNCHANGED <<searches, kept, forked>>
    BY <1>15 DEF TimeoutReads
  <2>3. j \in jobs /\ JobFacts(j) /\ j.b \in Bookings /\ Follows(j)
    BY <1>15, TimeoutReadsJobs, Following, Facts DEF JobFacts
  <2>4. UniqueIds'
    BY <1>15, TimeoutReadsJobs, IdsMoved, IdsLeft
  <2>5. SearchNumbers'
    BY <1>15, TimeoutReadsJobs, <2>1, <2>3, Facts, NumbersMoved, NumbersLeft
       DEF JobFacts
  <2>6. NothingYet'
    BY <1>1, <2>1, <2>3, NothingFollows
  <2>69. UNCHANGED asked
    BY <1>15 DEF TimeoutReads
  <2>68. OffersOnlyGo
    BY <1>15 DEF OffersOnlyGo, Types, KeyTypes, NoOffer, TimeoutReads, ClearOffer, Done
  <2>67. RequestsOnlyEnd
    BY <1>15 DEF RequestsOnlyEnd, Types, RestTypes, Idle, TimeoutReads, ClearOffer, Done
  <2>70. OffersOnlyGo /\ RequestsOnlyEnd
    BY <2>67, <2>68
  <2>7. StaysUnasked
    BY <1>15, TimeoutReadsJobs, <2>3, <2>69, <2>70, NoneIsNobody, UnaskedStays
       DEF Moves, Adds, TimeoutReads, JobFacts
  <2>8. FirstSearch'
    BY <1>15, TimeoutReadsJobs, <2>1, <2>7, Facts, SearchesStay
       DEF JobFacts, Moves, Adds
  <2>9. TakenIsFinal'
    BY <1>1, <2>70, TakenStays
  <2>10. OneChain'
    BY <2>1, <2>3, ChainFollows
  <2> QED BY <2>4, <2>5, <2>6, <2>8, <2>9, <2>10 DEF ChainInv
<1>16. ASSUME NEW j \in jobs, TimeoutActs(j) PROVE ChainInv'
  <2>1. UNCHANGED <<searches, kept, forked>>
    BY <1>16 DEF TimeoutActs
  <2>3. j \in jobs /\ JobFacts(j) /\ j.b \in Bookings /\ Follows(j)
    BY <1>16, TimeoutActsJobs, Following, Facts DEF JobFacts
  <2>4. UniqueIds'
    BY <1>16, TimeoutActsJobs, IdsMoved, IdsAdded, IdsLeft
  <2>5. SearchNumbers'
    BY <1>16, TimeoutActsJobs, <2>1, <2>3, Facts, NumbersAdded, NumbersMoved
       DEF JobFacts, Types
  <2>6. NothingYet'
    BY <1>1, <2>1, <2>3, NothingFollows
  <2>69. UNCHANGED asked
    BY <1>16 DEF TimeoutActs
  <2>68. OffersOnlyGo
    BY <1>16
       DEF OffersOnlyGo, Types, KeyTypes, NoOffer, TimeoutActs, ClearOffer, MoveOn,
           OfferTo
  <2>67. RequestsOnlyEnd
    BY <1>16
       DEF RequestsOnlyEnd, Types, RestTypes, Idle, TimeoutActs, ClearOffer, MoveOn,
           OfferTo
  <2>70. OffersOnlyGo /\ RequestsOnlyEnd
    BY <2>67, <2>68
  <2>7. StaysUnasked
    BY <1>16, TimeoutActsJobs, <2>3, <2>69, <2>70, NoneIsNobody, UnaskedStays
       DEF Moves, Adds, TimeoutActs, JobFacts
  <2>8. FirstSearch'
    BY <1>16, TimeoutActsJobs, <2>1, <2>7, Facts, SearchesStay DEF JobFacts, Moves, Adds
  <2>9. TakenIsFinal'
    BY <1>1, <2>70, TakenStays
  <2>10. OneChain'
    BY <2>1, <2>3, ChainFollows
  <2> QED BY <2>4, <2>5, <2>6, <2>8, <2>9, <2>10 DEF ChainInv
<1>17. ASSUME NEW j \in jobs, FailSearch(j) PROVE ChainInv'
  <2>1. UNCHANGED <<searches, kept, forked>>
    BY <1>17 DEF FailSearch
  <2>3. j \in jobs /\ JobFacts(j) /\ j.b \in Bookings /\ Follows(j)
    BY <1>17, FailSearchJobs, Following, Facts DEF JobFacts
  <2>4. UniqueIds'
    BY <1>17, FailSearchJobs, IdsMoved, IdsLeft
  <2>5. SearchNumbers'
    BY <1>17, FailSearchJobs, <2>1, <2>3, Facts, NumbersMoved, NumbersLeft DEF JobFacts
  <2>6. NothingYet'
    BY <1>1, <2>1, <2>3, NothingFollows
  <2>69. UNCHANGED asked
    BY <1>17 DEF FailSearch
  <2>68. OffersOnlyGo
    BY <1>17
       DEF OffersOnlyGo, Types, KeyTypes, NoOffer, FailSearch, CancelPickup,
           MarkReturn, Unlocked, InListener, Cleanup, Done
  <2>67. RequestsOnlyEnd
    BY <1>17
       DEF RequestsOnlyEnd, Types, RestTypes, Idle, FailSearch, CancelPickup,
           MarkReturn, Unlocked, InListener, Cleanup, Done
  <2>70. OffersOnlyGo /\ RequestsOnlyEnd
    BY <2>67, <2>68
  <2>7. StaysUnasked
    BY <1>17, FailSearchJobs, <2>3, <2>69, <2>70, NoneIsNobody, UnaskedStays
       DEF Moves, Adds, FailSearch, JobFacts
  <2>8. FirstSearch'
    BY <1>17, FailSearchJobs, <2>1, <2>7, Facts, SearchesStay DEF JobFacts, Moves, Adds
  <2>9. TakenIsFinal'
    BY <1>1, <2>70, TakenStays
  <2>10. OneChain'
    BY <2>1, <2>3, ChainFollows
  <2> QED BY <2>4, <2>5, <2>6, <2>8, <2>9, <2>10 DEF ChainInv
<1>17a. ASSUME NEW j \in jobs, GivingUpFails(j) PROVE ChainInv'
  <2>1. UNCHANGED <<searches, kept, forked>>
    BY <1>17a DEF GivingUpFails
  <2>3. j \in jobs /\ JobFacts(j) /\ j.b \in Bookings /\ Follows(j)
    BY <1>17a, GivingUpFailsJobs, Following, Facts DEF JobFacts
  <2>4. UniqueIds'
    BY <1>17a, GivingUpFailsJobs, IdsMoved, IdsLeft
  <2>5. SearchNumbers'
    BY <1>17a, GivingUpFailsJobs, <2>1, <2>3, Facts, NumbersMoved, NumbersLeft DEF JobFacts
  <2>6. NothingYet'
    BY <1>1, <2>1, <2>3, NothingFollows
  <2>69. UNCHANGED asked
    BY <1>17a DEF GivingUpFails
  <2>68. OffersOnlyGo
    BY <1>17a
       DEF OffersOnlyGo, Types, KeyTypes, NoOffer, GivingUpFails, Unlocked,
           InListener, Done
  <2>67. RequestsOnlyEnd
    BY <1>17a
       DEF RequestsOnlyEnd, Types, RestTypes, Idle, GivingUpFails, Unlocked,
           InListener, Done
  <2>70. OffersOnlyGo /\ RequestsOnlyEnd
    BY <2>67, <2>68
  <2>7. StaysUnasked
    BY <1>17a, GivingUpFailsJobs, <2>3, <2>69, <2>70, NoneIsNobody, UnaskedStays
       DEF Moves, Adds, GivingUpFails, JobFacts
  <2>8. FirstSearch'
    BY <1>17a, GivingUpFailsJobs, <2>1, <2>7, Facts, SearchesStay DEF JobFacts, Moves, Adds
  <2>9. TakenIsFinal'
    BY <1>1, <2>70, TakenStays
  <2>10. OneChain'
    BY <2>1, <2>3, ChainFollows
  <2> QED BY <2>4, <2>5, <2>6, <2>8, <2>9, <2>10 DEF ChainInv
<1>18. ASSUME NEW j \in jobs, JobThrows(j) PROVE ChainInv'
  <2>0. RunAgain(j)
    BY <1>18 DEF JobThrows
  <2>1. UNCHANGED <<searches, forked>>
    BY <1>18 DEF JobThrows, RunAgain
  <2>2. /\ kept' = kept \/ (kept' = kept \cup {Id(j)} /\ j.name # "return")
        /\ j.b \in Bookings /\ j.n \in Nat /\ searches[j.b] \in Nat
    BY <1>18, Facts DEF JobThrows, RunAgain, JobFacts, AJob, Shape, Places
  <2>3. j \in jobs /\ JobFacts(j) /\ j.b \in Bookings /\ Follows(j)
    BY <1>18, RunAgainJobs, Following, Facts DEF JobFacts, JobThrows
  <2>4. UniqueIds'
    BY <2>0, RunAgainJobs, IdsMoved, IdsLeft
  <2>5. SearchNumbers'
    BY <2>0, RunAgainJobs, <2>1, <2>2, NumbersMoved
  <2>6. NothingYet'
    BY <1>1, <2>1, <2>3, NothingFollows
  <2>69. UNCHANGED asked
    BY <2>0 DEF JobThrows, RunAgain
  <2>68. OffersOnlyGo
    BY <2>0 DEF OffersOnlyGo, Types, KeyTypes, NoOffer, JobThrows, RunAgain
  <2>67. RequestsOnlyEnd
    BY <2>0 DEF RequestsOnlyEnd, Types, RestTypes, Idle, JobThrows, RunAgain
  <2>70. OffersOnlyGo /\ RequestsOnlyEnd
    BY <2>67, <2>68
  <2>7. StaysUnasked
    BY <2>0, RunAgainJobs, <2>3, <2>69, <2>70, NoneIsNobody, UnaskedStays
       DEF Moves, Adds, JobThrows, JobFacts, RunAgain
  <2>8. FirstSearch'
    BY <2>0, RunAgainJobs, <2>1, <2>7, Facts, SearchesStay DEF JobFacts, Moves, Adds
  <2>9. TakenIsFinal'
    BY <1>1, <2>70, TakenStays
  <2>10. OneChain'
    BY <2>1, <2>3, ChainFollows
  <2> QED BY <2>4, <2>5, <2>6, <2>8, <2>9, <2>10 DEF ChainInv
<1>19. ASSUME NEW j \in jobs, WorkerDies(j) PROVE ChainInv'
  <2>0. RunAgain(j)
    BY <1>19 DEF WorkerDies
  <2>1. UNCHANGED <<searches, forked>>
    BY <1>19 DEF WorkerDies, RunAgain
  <2>2. /\ kept' = kept \/ (kept' = kept \cup {Id(j)} /\ j.name # "return")
        /\ j.b \in Bookings /\ j.n \in Nat /\ searches[j.b] \in Nat
    BY <1>19, Facts DEF WorkerDies, RunAgain, JobFacts, AJob, Shape, Places
  <2>3. j \in jobs /\ JobFacts(j) /\ j.b \in Bookings /\ Follows(j)
    BY <1>19, RunAgainJobs, Following, Facts DEF JobFacts, WorkerDies
  <2>4. UniqueIds'
    BY <2>0, RunAgainJobs, IdsMoved, IdsLeft
  <2>5. SearchNumbers'
    BY <2>0, RunAgainJobs, <2>1, <2>2, NumbersMoved
  <2>6. NothingYet'
    BY <1>1, <2>1, <2>3, NothingFollows
  <2>69. UNCHANGED asked
    BY <2>0 DEF WorkerDies, RunAgain
  <2>68. OffersOnlyGo
    BY <2>0 DEF OffersOnlyGo, Types, KeyTypes, NoOffer, WorkerDies, RunAgain
  <2>67. RequestsOnlyEnd
    BY <2>0 DEF RequestsOnlyEnd, Types, RestTypes, Idle, WorkerDies, RunAgain
  <2>70. OffersOnlyGo /\ RequestsOnlyEnd
    BY <2>67, <2>68
  <2>7. StaysUnasked
    BY <2>0, RunAgainJobs, <2>3, <2>69, <2>70, NoneIsNobody, UnaskedStays
       DEF Moves, Adds, WorkerDies, JobFacts, RunAgain
  <2>8. FirstSearch'
    BY <2>0, RunAgainJobs, <2>1, <2>7, Facts, SearchesStay DEF JobFacts, Moves, Adds
  <2>9. TakenIsFinal'
    BY <1>1, <2>70, TakenStays
  <2>10. OneChain'
    BY <2>1, <2>3, ChainFollows
  <2> QED BY <2>4, <2>5, <2>6, <2>8, <2>9, <2>10 DEF ChainInv
<1>20. ASSUME NEW d \in Drivers, RideAccepted(d) PROVE ChainInv'
  <2>1. UNCHANGED <<searches, kept, forked>>
    BY <1>20 DEF RideAccepted
  <2>4. UniqueIds'
    BY <1>20, IdsLeft DEF RideAccepted
  <2>5. SearchNumbers'
    BY <1>20, <2>1, NumbersLeft DEF RideAccepted
  <2>6. NothingYet'
    BY <1>1, <1>20, <2>1, NothingLeft DEF RideAccepted
  <2>69. UNCHANGED asked
    BY <1>20 DEF RideAccepted
  <2>68. OffersOnlyGo
    BY <1>20
       DEF OffersOnlyGo, Types, KeyTypes, NoOffer, RideAccepted, Answering, TakeLeg,
           ClearOffer
  <2>70. OffersOnlyGo /\ RequestsOnlyEnd
    BY <1>20, <2>68, TakenRequests
  <2>7. StaysUnasked
    BY <1>20, <2>69, <2>70, NoneIsNobody, UnaskedStays DEF RideAccepted
  <2>8. FirstSearch'
    BY <1>20, <2>1, <2>7, Facts, SearchesStay DEF JobFacts, RideAccepted
  <2>9. TakenIsFinal'
    BY <1>1, <2>70, TakenStays
  <2>10. OneChain'
    BY <1>20, <2>1, ChainLeft DEF RideAccepted
  <2> QED BY <2>4, <2>5, <2>6, <2>8, <2>9, <2>10 DEF ChainInv
<1>21. ASSUME NEW d \in Drivers, RideSettled(d) PROVE ChainInv'
  <2>1. UNCHANGED <<searches, kept, forked>>
    BY <1>21 DEF RideSettled
  <2>4. UniqueIds'
    BY <1>21, IdsLeft DEF RideSettled
  <2>5. SearchNumbers'
    BY <1>21, <2>1, NumbersLeft DEF RideSettled
  <2>6. NothingYet'
    BY <1>1, <1>21, <2>1, NothingLeft DEF RideSettled
  <2>69. UNCHANGED asked
    BY <1>21 DEF RideSettled
  <2>68. OffersOnlyGo
    BY <1>21 DEF OffersOnlyGo, Types, KeyTypes, NoOffer, RideSettled, Answering, Cleanup
  <2>67. RequestsOnlyEnd
    BY <1>21
       DEF RequestsOnlyEnd, Types, RestTypes, Idle, RideSettled, Answering, Cleanup
  <2>70. OffersOnlyGo /\ RequestsOnlyEnd
    BY <2>67, <2>68
  <2>7. StaysUnasked
    BY <1>21, <2>69, <2>70, NoneIsNobody, UnaskedStays DEF RideSettled
  <2>8. FirstSearch'
    BY <1>21, <2>1, <2>7, Facts, SearchesStay DEF JobFacts, RideSettled
  <2>9. TakenIsFinal'
    BY <1>1, <2>70, TakenStays
  <2>10. OneChain'
    BY <1>21, <2>1, ChainLeft DEF RideSettled
  <2> QED BY <2>4, <2>5, <2>6, <2>8, <2>9, <2>10 DEF ChainInv
<1>22. ASSUME NEW d \in Drivers, OfferAccepted(d) PROVE ChainInv'
  <2>1. UNCHANGED <<searches, kept, forked>>
    BY <1>22 DEF OfferAccepted
  <2>4. UniqueIds'
    BY <1>22, IdsLeft DEF OfferAccepted
  <2>5. SearchNumbers'
    BY <1>22, <2>1, NumbersLeft DEF OfferAccepted
  <2>6. NothingYet'
    BY <1>1, <1>22, <2>1, NothingLeft DEF OfferAccepted
  <2>69. UNCHANGED asked
    BY <1>22 DEF OfferAccepted
  <2>68. OffersOnlyGo
    BY <1>22
       DEF OffersOnlyGo, Types, KeyTypes, NoOffer, OfferAccepted, Answering, TakeLeg
  <2>70. OffersOnlyGo /\ RequestsOnlyEnd
    BY <1>22, <2>68, TakenRequests
  <2>7. StaysUnasked
    BY <1>22, <2>69, <2>70, NoneIsNobody, UnaskedStays DEF OfferAccepted
  <2>8. FirstSearch'
    BY <1>22, <2>1, <2>7, Facts, SearchesStay DEF JobFacts, OfferAccepted
  <2>9. TakenIsFinal'
    BY <1>1, <2>70, TakenStays
  <2>10. OneChain'
    BY <1>22, <2>1, ChainLeft DEF OfferAccepted
  <2> QED BY <2>4, <2>5, <2>6, <2>8, <2>9, <2>10 DEF ChainInv
<1>23. ASSUME NEW d \in Drivers, OfferSettled(d) PROVE ChainInv'
  <2>1. UNCHANGED <<searches, kept, forked>>
    BY <1>23 DEF OfferSettled
  <2>4. UniqueIds'
    BY <1>23, OfferSettledJobs, IdsLeft
  <2>5. SearchNumbers'
    BY <1>23, OfferSettledJobs, <2>1, NumbersLeft
  <2>6. NothingYet'
    BY <1>1, <1>23, <2>1, NothingLeft, OfferSettledJobs
  <2>69. UNCHANGED asked
    BY <1>23 DEF OfferSettled
  <2>70. OffersOnlyGo /\ RequestsOnlyEnd
    BY <1>23, SettledOffers
  <2>7. StaysUnasked
    BY <1>23, OfferSettledJobs, <2>69, <2>70, NoneIsNobody, UnaskedStays
       DEF Moves, Adds, OfferSettled
  <2>8. FirstSearch'
    BY <1>23, OfferSettledJobs, <2>1, <2>7, Facts, SearchesStay
       DEF JobFacts, Moves, Adds
  <2>9. TakenIsFinal'
    BY <1>1, <2>70, TakenStays
  <2>10. OneChain'
    BY <1>23, OfferSettledJobs, <2>1, ChainLeft
  <2> QED BY <2>4, <2>5, <2>6, <2>8, <2>9, <2>10 DEF ChainInv
<1>24. ASSUME NEW d \in Drivers, RideRejected(d) PROVE ChainInv'
  <2>1. UNCHANGED <<searches, kept>>
    BY <1>24 DEF RideRejected
  <2>3. /\ request[d].b \in Bookings /\ forked \subseteq forked'
        /\ request[d].b \in forked' /\ leg[request[d].b] # "none"
    BY <1>24, Facts
       DEF RideRejected, Types, BookingTypes, Answering, NothingYet, FirstSearch,
           Unasked
  <2>4. UniqueIds'
    BY <1>24, RideRejectedJobs, IdsMoved, IdsAdded, IdsLeft
  <2>5. SearchNumbers'
    BY <1>24, RideRejectedJobs, <2>1, <2>3, Facts, NumbersAdded DEF JobFacts, Types
  <2>6. NothingYet'
    BY <1>1, <1>24, RideRejectedJobs, <2>1, <2>3, NothingAdded DEF LegGoesOn
  <2>70. OffersOnlyGo /\ RequestsOnlyEnd /\ UNCHANGED asked
    BY <1>24
       DEF RideRejected, Answering, ClearOffer, OfferTo, OffersOnlyGo,
           RequestsOnlyEnd, Types, KeyTypes, RestTypes, NoOffer, Idle
  <2>71. ~Unasked(request[d].b)
    BY <1>24 DEF Unasked
  <2>72. \A k \in jobs' : k \in jobs \/ k.b = request[d].b
    BY <1>24, RideRejectedJobs DEF Adds
  <2>7. StaysUnasked
    BY <2>70, <2>71, <2>72, NoneIsNobody
       DEF StaysUnasked, Unasked, OffersOnlyGo, RequestsOnlyEnd
  <2>8. FirstSearch'
    BY <1>24, RideRejectedJobs, <2>1, <2>7, Facts, SearchesStay
       DEF JobFacts, Moves, Adds
  <2>9. TakenIsFinal'
    BY <1>1, <2>70, TakenStays
  <2>10. OneChain'
    BY <1>24, RideRejectedJobs, <2>1, <2>3, ChainAdded DEF NothingYet
  <2> QED BY <2>4, <2>5, <2>6, <2>8, <2>9, <2>10 DEF ChainInv
<1>25. ASSUME NEW d \in Drivers, OfferRejected(d) PROVE ChainInv'
  <2>1. UNCHANGED <<searches, kept, forked>>
    BY <1>25 DEF OfferRejected
  <2>4. UniqueIds'
    BY <1>25, IdsLeft DEF OfferRejected
  <2>5. SearchNumbers'
    BY <1>25, <2>1, NumbersLeft DEF OfferRejected
  <2>6. NothingYet'
    BY <1>1, <1>25, <2>1, NothingLeft DEF OfferRejected
  <2>69. UNCHANGED asked
    BY <1>25 DEF OfferRejected
  <2>68. OffersOnlyGo
    BY <1>25 DEF OffersOnlyGo, Types, KeyTypes, NoOffer, OfferRejected, Answering
  <2>67. RequestsOnlyEnd
    BY <1>25 DEF RequestsOnlyEnd, Types, RestTypes, Idle, OfferRejected, Answering
  <2>70. OffersOnlyGo /\ RequestsOnlyEnd
    BY <2>67, <2>68
  <2>7. StaysUnasked
    BY <1>25, <2>69, <2>70, NoneIsNobody, UnaskedStays DEF OfferRejected
  <2>8. FirstSearch'
    BY <1>25, <2>1, <2>7, Facts, SearchesStay DEF JobFacts, OfferRejected
  <2>9. TakenIsFinal'
    BY <1>1, <2>70, TakenStays
  <2>10. OneChain'
    BY <1>25, <2>1, ChainLeft DEF OfferRejected
  <2> QED BY <2>4, <2>5, <2>6, <2>8, <2>9, <2>10 DEF ChainInv
<1>26. ASSUME NEW d \in Drivers, GoOffline(d) PROVE ChainInv'
  <2>1. UNCHANGED <<searches, kept, forked>>
    BY <1>26 DEF GoOffline
  <2>4. UniqueIds'
    BY <1>26, IdsLeft DEF GoOffline
  <2>5. SearchNumbers'
    BY <1>26, <2>1, NumbersLeft DEF GoOffline
  <2>6. NothingYet'
    BY <1>1, <1>26, <2>1, NothingLeft DEF GoOffline
  <2>69. UNCHANGED asked
    BY <1>26 DEF GoOffline
  <2>68. OffersOnlyGo
    BY <1>26 DEF OffersOnlyGo, Types, KeyTypes, NoOffer, GoOffline
  <2>67. RequestsOnlyEnd
    BY <1>26 DEF RequestsOnlyEnd, Types, RestTypes, Idle, GoOffline
  <2>70. OffersOnlyGo /\ RequestsOnlyEnd
    BY <2>67, <2>68
  <2>7. StaysUnasked
    BY <1>26, <2>69, <2>70, NoneIsNobody, UnaskedStays DEF GoOffline
  <2>8. FirstSearch'
    BY <1>26, <2>1, <2>7, Facts, SearchesStay DEF JobFacts, GoOffline
  <2>9. TakenIsFinal'
    BY <1>1, <2>70, TakenStays
  <2>10. OneChain'
    BY <1>26, <2>1, ChainLeft DEF GoOffline
  <2> QED BY <2>4, <2>5, <2>6, <2>8, <2>9, <2>10 DEF ChainInv
<1>27. ASSUME NEW d \in Drivers, LockExpires(d) PROVE ChainInv'
  <2>1. UNCHANGED <<searches, kept, forked>>
    BY <1>27 DEF LockExpires
  <2>4. UniqueIds'
    BY <1>27, IdsLeft DEF LockExpires
  <2>5. SearchNumbers'
    BY <1>27, <2>1, NumbersLeft DEF LockExpires
  <2>6. NothingYet'
    BY <1>1, <1>27, <2>1, NothingLeft DEF LockExpires
  <2>69. UNCHANGED asked
    BY <1>27 DEF LockExpires
  <2>68. OffersOnlyGo
    BY <1>27 DEF OffersOnlyGo, Types, KeyTypes, NoOffer, LockExpires
  <2>67. RequestsOnlyEnd
    BY <1>27 DEF RequestsOnlyEnd, Types, RestTypes, Idle, LockExpires
  <2>70. OffersOnlyGo /\ RequestsOnlyEnd
    BY <2>67, <2>68
  <2>7. StaysUnasked
    BY <1>27, <2>69, <2>70, NoneIsNobody, UnaskedStays DEF LockExpires
  <2>8. FirstSearch'
    BY <1>27, <2>1, <2>7, Facts, SearchesStay DEF JobFacts, LockExpires
  <2>9. TakenIsFinal'
    BY <1>1, <2>70, TakenStays
  <2>10. OneChain'
    BY <1>27, <2>1, ChainLeft DEF LockExpires
  <2> QED BY <2>4, <2>5, <2>6, <2>8, <2>9, <2>10 DEF ChainInv
<1>28. ASSUME NEW d \in Drivers, NEW b \in Bookings, LateReject(d, b) PROVE ChainInv'
  <2>1. UNCHANGED <<searches, kept, forked>>
    BY <1>28 DEF LateReject
  <2>4. UniqueIds'
    BY <1>28, IdsLeft DEF LateReject
  <2>5. SearchNumbers'
    BY <1>28, <2>1, NumbersLeft DEF LateReject
  <2>6. NothingYet'
    BY <1>1, <1>28, <2>1, NothingLeft DEF LateReject
  <2>7. StaysUnasked
    BY <1>28, NoneIsNobody DEF StaysUnasked, Unasked, LateReject, Types, RestTypes
  <2>8. FirstSearch'
    BY <1>28, <2>1, <2>7, Facts, SearchesStay DEF JobFacts, LateReject
  <2>9. TakenIsFinal'
    BY <1>28, <1>1
       DEF TakenIsFinal, LegGoesOn, LateReject, Types, KeyTypes, RestTypes, Replies
  <2>10. OneChain'
    BY <1>28, <2>1, ChainLeft DEF LateReject
  <2> QED BY <2>4, <2>5, <2>6, <2>8, <2>9, <2>10 DEF ChainInv
<1>29. ASSUME NEW d \in Drivers, NEW b \in Bookings, NEW do \in Replies,
               ReadsOffer(d, b, do) PROVE ChainInv'
  <2>1. UNCHANGED <<searches, kept, forked>>
    BY <1>29 DEF ReadsOffer, Ask
  <2>4. UniqueIds'
    BY <1>29, IdsLeft DEF ReadsOffer, Ask
  <2>5. SearchNumbers'
    BY <1>29, <2>1, NumbersLeft DEF ReadsOffer, Ask
  <2>6. NothingYet'
    BY <1>1, <1>29, <2>1, NothingLeft DEF ReadsOffer, Ask
  <2>7. StaysUnasked
    BY <1>29, NoneIsNobody DEF StaysUnasked, Unasked, ReadsOffer, Ask, Types, RestTypes
  <2>8. FirstSearch'
    BY <1>29, <2>1, <2>7, Facts, SearchesStay DEF JobFacts, ReadsOffer, Ask
  <2>9. TakenIsFinal'
    BY <1>29, <1>1
       DEF TakenIsFinal, LegGoesOn, ReadsOffer, Ask, Types, KeyTypes, RestTypes,
           Replies
  <2>10. OneChain'
    BY <1>29, <2>1, ChainLeft DEF ReadsOffer, Ask
  <2> QED BY <2>4, <2>5, <2>6, <2>8, <2>9, <2>10 DEF ChainInv
<1>30. CASE UNCHANGED vars
  <2>1. UNCHANGED <<booking, keys, fleet, queue, request, history>>
    BY <1>30 DEF vars
  <2> QED BY <2>1
             DEF ChainInv, UniqueIds, SearchNumbers, NothingYet, FirstSearch,
                 TakenIsFinal,
             OneChain, Unasked, JobsOf, Id
<1> QED
  BY <1>2, <1>3, <1>4, <1>5, <1>6, <1>7, <1>8, <1>9, <1>10, <1>11, <1>12, <1>13,
     <1>14, <1>15, <1>16, <1>17, <1>17a, <1>18, <1>19, <1>20, <1>21, <1>22, <1>23, <1>24,
     <1>25, <1>26, <1>27, <1>28, <1>29, <1>30
  DEF Next, JobRuns, DriverReplies

------------------------------------------------------------------------------
(* No leg is forgotten. *)

\* The search's lock is free while its job waits in the queue.
SearchLock ==
    crashes = 0 =>
        \A j \in jobs : j.name = "search" /\ j.at = "queued" /\ j.b \notin forked
            => j.b \notin searching

\* A failed job in its listener.
Ending(j) == j.at = "fail" /\ InListener(j)

\* A job that failed for good is the end of the first search.
KeptJobs ==
    /\ \A i \in kept : searches[i[2]] # 0
    /\ \A j \in jobs :
          j.b \notin forked /\ searches[j.b] <= 1 /\ KeptOf(j.b) # {}
              => Ending(j) \/ j.name = "return"

\* The timeout of an offer finds that offer, or none.
Times(j) == j.at = "arm" \/ j.name = "timeout"

\* The job that waits for an answer finds its own offer, or none.
OfferOfChain ==
    \A j \in jobs : Times(j) /\ j.b \notin forked => offer[j.b].to \in {None, j.d}

\* What keeps a waiting leg from being forgotten.
WaitInv == SearchLock /\ KeptJobs /\ OfferOfChain /\ NeverForgotten

\* It holds in the beginning.
LEMMA WaitInit == Init => WaitInv
  BY DEF Init, WaitInv, SearchLock, KeptJobs, OfferOfChain, NeverForgotten, Awaiting

\* A search job only waits in the queue while its lock is free.
LEMMA LockMoved ==
    ASSUME SearchLock, \A k \in jobs' : k.name = "search" /\ k.at = "queued"
                           => (k \in jobs /\ k.b \notin searching' \ searching)
                              \/ k.b \notin searching' \/ crashes' # 0 \/ k.b \in forked',
           crashes' = 0 => crashes = 0, forked \subseteq forked'
    PROVE  SearchLock'
  BY DEF SearchLock

\* The ids of failed jobs mean the same after a step that keeps none,
LEMMA KeptStay ==
    ASSUME KeptJobs, ChainInv, kept' = kept, searches' = searches, forked \subseteq forked',
           \A j \in jobs : j.b \in Bookings,
           \A k \in jobs' : \/ k \in jobs \/ k.name = "return" \/ k.b \in forked'
                            \/ \E i \in jobs : i.b = k.b /\ ~Ending(i) /\ i.name # "return"
    PROVE  KeptJobs'
  BY DEF KeptJobs, KeptOf, Ending, InListener

\* and after one that begins a search.
LEMMA KeptAdded ==
    ASSUME KeptJobs, UNCHANGED <<kept, forked>>, NEW b \in Bookings,
           \A c \in Bookings : searches[c] \in Nat
                /\ searches'[c] = IF c = b THEN searches[c] + 1 ELSE searches[c],
           \A k \in jobs' : k \in jobs \/ k.b = b,
           \A i \in kept : i[2] \in Bookings, \A j \in jobs : j.b \in Bookings
    PROVE  KeptJobs'
<1>1. \A i \in kept : searches'[i[2]] # 0
  BY DEF KeptJobs
<1>2. searches'[b] <= 1 => KeptOf(b) = {}
  BY DEF KeptJobs, KeptOf
<1>3. \A c : KeptOf(c)' = KeptOf(c)
  BY DEF KeptOf
<1>4. \A k \in jobs' : k.b # b /\ k.b \notin forked /\ searches'[k.b] <= 1 /\ KeptOf(k.b) # {}
                      => Ending(k) \/ k.name = "return"
  BY DEF KeptJobs, Ending, InListener
<1> QED BY <1>1, <1>2, <1>3, <1>4 DEF KeptJobs, Ending, InListener

\* An offer is found by the jobs that expect it, if none is made.
LEMMA OffersFound ==
    ASSUME OfferOfChain, OffersOnlyGo, forked \subseteq forked', \A j \in jobs : j.b \in Bookings,
           \A k \in jobs' : Times(k) =>
              k \in jobs \/ \E i \in jobs : Times(i) /\ i.b = k.b /\ i.d = k.d
    PROVE  OfferOfChain'
  BY DEF OfferOfChain, OffersOnlyGo

\* A job is queued, if no failed job has its id.
LEMMA Replaced ==
    ASSUME NEW js, NEW name, NEW b, NEW n, NEW d, Adds(js, name, b, n, d),
           \A k : k.name = name /\ k.b = b /\ k.n = n => Id(k) \notin kept
    PROVE  \E k \in jobs' : k.b = b
  BY DEF Adds, Id

\* Bookings whose search is over: it was given up, or its giving up failed.
Dropped == gaveUp \cup lost

\* A booking whose jobs stay, or are replaced, is not forgotten.
LEMMA WaitsOn ==
    ASSUME NeverForgotten, kept \subseteq kept', forked \subseteq forked',
           crashes' = 0 => crashes = 0,
           \A c \in Bookings : searches[c] \in Nat /\ searches'[c] \in {searches[c], searches[c] + 1},
           \A c \in Bookings : leg'[c] = "awaiting" /\ c \notin Dropped' /\ c \notin forked' /\ crashes' = 0
                                /\ (searches'[c] > 1 => KeptOf(c)' = {}) =>
               \/ \E k \in jobs' : k.b = c
               \/ leg[c] = "awaiting" /\ c \notin Dropped /\ \A j \in jobs : j.b # c
    PROVE  NeverForgotten'
<1> SUFFICES ASSUME crashes' = 0, NEW c \in Bookings, c \notin forked', leg'[c] = "awaiting",
                    c \notin Dropped', searches'[c] > 1 => KeptOf(c)' = {}
             PROVE  \E k \in jobs' : k.b = c
  BY DEF NeverForgotten, Awaiting, JobsOf, Dropped
<1>1. searches[c] > 1 => KeptOf(c) = {}
  BY DEF KeptOf
<1> QED BY <1>1 DEF NeverForgotten, Awaiting, JobsOf, Dropped

\* Every action keeps a waiting leg from being forgotten.
LEMMA WaitStep == Types /\ ChainInv /\ WaitInv /\ [Next]_vars => WaitInv'
<1> SUFFICES ASSUME Types, ChainInv, WaitInv, [Next]_vars PROVE WaitInv'
  OBVIOUS
<1> USE DEF keys, booking, fleet, queue, history, WaitInv, Dropped
<1>1. LegGoesOn
  BY LegGoesOnStep
<1>2. ChainInv
  OBVIOUS
<1>3. \A j \in jobs : JobFacts(j)
  BY Facts
<1>4. ASSUME NEW b \in Bookings, PickupPaid(b) PROVE WaitInv'
  <2>1. UNCHANGED <<kept, forked>> /\ forked \subseteq forked'
    BY <1>4 DEF PickupPaid
  <2>2. crashes' = 0 => crashes = 0 /\ kept \subseteq kept'
    BY <1>4 DEF PickupPaid
  <2>41. \A k \in jobs' : k \in jobs \/ k.b = b
    BY <1>4, PickupPaidJobs DEF Adds
  <2>42. searching' = searching \ {b} /\ crashes' = crashes
    BY <1>4 DEF PickupPaid, ScheduleSearch
  <2>4. SearchLock'
    BY <2>1, <2>41, <2>42 DEF SearchLock
  <2>51. \A c \in Bookings : searches[c] \in Nat
             /\ searches'[c] = IF c = b THEN searches[c] + 1 ELSE searches[c]
    BY <1>4 DEF PickupPaid, ScheduleSearch, Types, RestTypes
  <2>52. \A k \in jobs' : k \in jobs \/ k.b = b
    BY <1>4, PickupPaidJobs DEF Adds
  <2>53. \A i \in kept : i[2] \in Bookings
    BY DEF Types, QueueTypes
  <2>5. KeptJobs'
    BY <1>3, <2>1, <2>51, <2>52, <2>53, KeptAdded DEF JobFacts
  <2>60. OffersOnlyGo
    BY <1>4 DEF OffersOnlyGo, Types, KeyTypes, NoOffer, PickupPaid, ScheduleSearch
  <2>61. \A k \in jobs' : Times(k) =>
             k \in jobs \/ \E i \in jobs : Times(i) /\ i.b = k.b /\ i.d = k.d
    BY <1>4, PickupPaidJobs, <1>3 DEF JobFacts, Moves, Adds, Times
  <2>6. OfferOfChain'
    BY <1>3, <2>1, <2>60, <2>61, OffersFound DEF JobFacts
  <2>70. \A k : k.name = "search" /\ k.b = b /\ k.n = searches[b] + 1 => Id(k) \notin kept
    BY <1>4, <1>2, Facts DEF Id, ChainInv, SearchNumbers
  <2>71. (\E k \in jobs' : k.b = b) /\ jobs \subseteq jobs'
    BY <1>4, PickupPaidJobs, <2>70, Replaced DEF Adds
  <2>72. \A c \in Bookings : c # b => leg'[c] = leg[c] /\ (c \notin Dropped' => c \notin Dropped)
    BY <1>4 DEF PickupPaid, Types, BookingTypes
  <2>73. \A c \in Bookings : searches[c] \in Nat /\ searches'[c] \in {searches[c], searches[c] + 1}
    BY <1>4 DEF PickupPaid, ScheduleSearch, Types, RestTypes
  <2>74. kept \subseteq kept' /\ (crashes' = 0 => crashes = 0)
    BY <2>1, <1>4 DEF PickupPaid
  <2>7. NeverForgotten'
    BY <2>1, <2>74, <2>71, <2>72, <2>73, WaitsOn
  <2> QED BY <2>4, <2>5, <2>6, <2>7 DEF WaitInv
<1>5. ASSUME NEW b \in Bookings, ReturnRequested(b) PROVE WaitInv'
  <2>1. UNCHANGED <<searches, kept>> /\ forked \subseteq forked'
    BY <1>5 DEF ReturnRequested
  <2>2. crashes' = 0 => crashes = 0 /\ kept \subseteq kept'
    BY <1>5 DEF ReturnRequested
  <2>41. searching' \subseteq searching /\ crashes' = crashes
    BY <1>5 DEF ReturnRequested
  <2>42. \A k \in jobs' : k.name = "search" /\ k.at = "queued" => k \in jobs
    BY <1>5, ReturnRequestedJobs DEF Moves, Adds
  <2>4. SearchLock'
    BY <2>1, <2>41, <2>42, LockMoved
  <2>5. KeptJobs'
    BY <1>5, ReturnRequestedJobs, <1>2, <1>3, <2>1, KeptStay DEF JobFacts, Adds
  <2>60. OffersOnlyGo
    BY <1>5 DEF OffersOnlyGo, Types, KeyTypes, NoOffer, ReturnRequested
  <2>61. \A k \in jobs' : Times(k) =>
             k \in jobs \/ \E i \in jobs : Times(i) /\ i.b = k.b /\ i.d = k.d
    BY <1>5, ReturnRequestedJobs, <1>3 DEF JobFacts, Moves, Adds, Times
  <2>6. OfferOfChain'
    BY <1>3, <2>1, <2>60, <2>61, OffersFound DEF JobFacts
  <2>70. \A k : k.name = "return" => Id(k) \notin kept
    BY <1>5, <1>2, Facts DEF Id, ChainInv, SearchNumbers
  <2>75. \E k \in jobs' : k.b = b
    BY <1>5, ReturnRequestedJobs, <2>70, Replaced
  <2>71. (\E k \in jobs' : k.b = b) /\ jobs \subseteq jobs'
    BY <1>5, ReturnRequestedJobs, <2>75 DEF Adds
  <2>72. \A c \in Bookings : c # b => leg'[c] = leg[c] /\ (c \notin Dropped' => c \notin Dropped)
    BY <1>5 DEF ReturnRequested, Types, BookingTypes
  <2>73. \A c \in Bookings : searches[c] \in Nat /\ searches'[c] \in {searches[c], searches[c] + 1}
    BY <1>5 DEF ReturnRequested, ScheduleSearch, Types, RestTypes
  <2>74. kept \subseteq kept' /\ (crashes' = 0 => crashes = 0)
    BY <2>1, <1>5 DEF ReturnRequested
  <2>7. NeverForgotten'
    BY <2>1, <2>74, <2>71, <2>72, <2>73, WaitsOn
  <2> QED BY <2>4, <2>5, <2>6, <2>7 DEF WaitInv
<1>6. ASSUME NEW b \in Bookings, UserCancels(b) PROVE WaitInv'
  <2>1. UNCHANGED <<searches, kept, forked>> /\ forked \subseteq forked'
    BY <1>6 DEF UserCancels
  <2>2. crashes' = 0 => crashes = 0 /\ kept \subseteq kept'
    BY <1>6 DEF UserCancels
  <2>3. \A c \in Bookings : /\ leg'[c] = "awaiting" => leg[c] = "awaiting"
                            /\ c \notin Dropped' => c \notin Dropped
    BY <1>6 DEF Types, BookingTypes, UserCancels, RunAgain
  <2>41. searching' \subseteq searching /\ crashes' = crashes
    BY <1>6 DEF UserCancels
  <2>42. \A k \in jobs' : k.name = "search" /\ k.at = "queued" => k \in jobs
    BY <1>6 DEF Moves, Adds, UserCancels
  <2>4. SearchLock'
    BY <2>1, <2>41, <2>42, LockMoved
  <2>5. KeptJobs'
    BY <1>6, <1>2, <1>3, <2>1, KeptStay DEF JobFacts, UserCancels
  <2>60. OffersOnlyGo
    BY <1>6 DEF OffersOnlyGo, Types, KeyTypes, NoOffer, UserCancels
  <2>61. \A k \in jobs' : Times(k) =>
             k \in jobs \/ \E i \in jobs : Times(i) /\ i.b = k.b /\ i.d = k.d
    BY <1>6, <1>3 DEF JobFacts, UserCancels
  <2>6. OfferOfChain'
    BY <1>3, <2>1, <2>60, <2>61, OffersFound DEF JobFacts
  <2>71. /\ kept \subseteq kept' /\ crashes' = crashes
         /\ \A c \in Bookings :
              searches[c] \in Nat /\ searches'[c] \in {searches[c], searches[c] + 1}
    BY <1>6 DEF UserCancels, Types, RestTypes
  <2>72. \A c \in Bookings :
           /\ leg'[c] = "awaiting" /\ c \notin Dropped' /\ c \notin forked' /\ crashes' = 0
           /\ searches'[c] > 1 => KeptOf(c)' = {}
           /\ \E i \in jobs : i.b = c
           => \E k \in jobs' : k.b = c
    BY <1>6 DEF UserCancels
  <2>7. NeverForgotten'
    BY <2>1, <2>3, <2>71, <2>72, WaitsOn
  <2> QED BY <2>4, <2>5, <2>6, <2>7 DEF WaitInv
<1>7. ASSUME NEW b \in Bookings, OfferExpires(b) PROVE WaitInv'
  <2>1. UNCHANGED <<searches, kept, forked>> /\ forked \subseteq forked'
    BY <1>7 DEF OfferExpires
  <2>2. crashes' = 0 => crashes = 0 /\ kept \subseteq kept'
    BY <1>7 DEF OfferExpires
  <2>3. \A c \in Bookings : /\ leg'[c] = "awaiting" => leg[c] = "awaiting"
                            /\ c \notin Dropped' => c \notin Dropped
    BY <1>7 DEF Types, BookingTypes, OfferExpires, RunAgain
  <2>41. searching' \subseteq searching /\ crashes' = crashes
    BY <1>7 DEF OfferExpires
  <2>42. \A k \in jobs' : k.name = "search" /\ k.at = "queued" => k \in jobs
    BY <1>7 DEF Moves, Adds, OfferExpires
  <2>4. SearchLock'
    BY <2>1, <2>41, <2>42, LockMoved
  <2>5. KeptJobs'
    BY <1>7, <1>2, <1>3, <2>1, KeptStay DEF JobFacts, OfferExpires
  <2>60. OffersOnlyGo
    BY <1>7 DEF OffersOnlyGo, Types, KeyTypes, NoOffer, OfferExpires
  <2>61. \A k \in jobs' : Times(k) =>
             k \in jobs \/ \E i \in jobs : Times(i) /\ i.b = k.b /\ i.d = k.d
    BY <1>7, <1>3 DEF JobFacts, OfferExpires
  <2>6. OfferOfChain'
    BY <1>3, <2>1, <2>60, <2>61, OffersFound DEF JobFacts
  <2>71. /\ kept \subseteq kept' /\ crashes' = crashes
         /\ \A c \in Bookings :
              searches[c] \in Nat /\ searches'[c] \in {searches[c], searches[c] + 1}
    BY <1>7 DEF OfferExpires, Types, RestTypes
  <2>72. \A c \in Bookings :
           /\ leg'[c] = "awaiting" /\ c \notin Dropped' /\ c \notin forked' /\ crashes' = 0
           /\ searches'[c] > 1 => KeptOf(c)' = {}
           /\ \E i \in jobs : i.b = c
           => \E k \in jobs' : k.b = c
    BY <1>7 DEF OfferExpires
  <2>7. NeverForgotten'
    BY <2>1, <2>3, <2>71, <2>72, WaitsOn
  <2> QED BY <2>4, <2>5, <2>6, <2>7 DEF WaitInv
<1>8. ASSUME NEW j \in jobs, ReturnJob(j) PROVE WaitInv'
  <2>1. UNCHANGED <<kept, forked>> /\ forked \subseteq forked'
    BY <1>8 DEF ReturnJob
  <2>2. crashes' = 0 => crashes = 0 /\ kept \subseteq kept'
    BY <1>8 DEF ReturnJob
  <2>3. \A c \in Bookings : /\ leg'[c] = "awaiting" => leg[c] = "awaiting"
                            /\ c \notin Dropped' => c \notin Dropped
    BY <1>8 DEF Types, BookingTypes, ReturnJob, ScheduleSearch, Done, RunAgain
  <2>4. SearchLock'
    <3>1. CASE Awaiting(j.b)
      <4>1. searching' = searching \ {j.b} /\ crashes' = crashes
        BY <1>8, <3>1 DEF ReturnJob, ScheduleSearch
      <4>2. \A k \in jobs' : k \in jobs \/ k.b = j.b
        BY <1>8, ReturnJobJobs DEF Adds
      <4> QED BY <2>1, <4>1, <4>2, LockMoved
    <3>2. CASE ~Awaiting(j.b)
      <4>1. UNCHANGED <<searching, crashes>> /\ jobs' \subseteq jobs
        BY <1>8, <3>2 DEF ReturnJob, Done
      <4> QED BY <2>1, <4>1, LockMoved
    <3> QED BY <3>1, <3>2
  <2>53. \A i \in kept : i[2] \in Bookings
    BY DEF Types, QueueTypes
  <2>5. KeptJobs'
    <3>1. CASE Awaiting(j.b)
      <4>1. searches' = [searches EXCEPT ![j.b] = @ + 1]
        BY <1>8, <3>1 DEF ReturnJob, ScheduleSearch
      <4>2. \A c \in Bookings : searches[c] \in Nat
              /\ searches'[c] = IF c = j.b THEN searches[c] + 1 ELSE searches[c]
        BY <4>1 DEF Types, RestTypes
      <4>3. \A k \in jobs' : k \in jobs \/ k.b = j.b
        BY <1>8, ReturnJobJobs DEF Adds
      <4> QED BY <1>3, <2>1, <2>53, <4>2, <4>3, KeptAdded DEF JobFacts
    <3>2. CASE ~Awaiting(j.b)
      <4>1. UNCHANGED searches /\ jobs' \subseteq jobs
        BY <1>8, <3>2 DEF ReturnJob, Done
      <4> QED BY <2>1, <4>1 DEF KeptJobs, KeptOf, Ending, InListener
    <3> QED BY <3>1, <3>2
  <2>60. OffersOnlyGo
    BY <1>8 DEF OffersOnlyGo, Types, KeyTypes, NoOffer, ReturnJob, ScheduleSearch, Done
  <2>61. \A k \in jobs' : Times(k) =>
             k \in jobs \/ \E i \in jobs : Times(i) /\ i.b = k.b /\ i.d = k.d
    BY <1>8, ReturnJobJobs, <1>3 DEF JobFacts, Moves, Adds, Times, ReturnJob
  <2>6. OfferOfChain'
    BY <1>3, <2>1, <2>60, <2>61, OffersFound DEF JobFacts
  <2>71. /\ kept \subseteq kept' /\ crashes' = crashes
         /\ \A c \in Bookings :
              searches[c] \in Nat /\ searches'[c] \in {searches[c], searches[c] + 1}
    BY <1>8 DEF ReturnJob, Types, RestTypes, ScheduleSearch
  <2>72. ASSUME NEW c \in Bookings, leg'[c] = "awaiting", c \notin Dropped', c \notin forked',
                crashes' = 0, searches'[c] > 1 => KeptOf(c)' = {}, NEW i \in jobs, i.b = c
         PROVE  \E k \in jobs' : k.b = c
    <3>1. CASE i # j
      BY <1>8, ReturnJobJobs, <2>72, <3>1 DEF Moves, Adds
    <3>2. CASE i = j
      <4>1. searches'[c] <= 1 => KeptOf(c) = {}
        BY <1>8, <1>3, <2>1, <2>71, <2>72, <3>2
           DEF KeptJobs, ReturnJob, JobFacts, ScheduleSearch, Types, RestTypes,
               Awaiting, KeptOf
      <4>2. KeptOf(c) = {}
        BY <2>1, <2>71, <2>72, <4>1 DEF KeptOf
      <4>3. \A k : k.b = c => Id(k) \notin kept
        BY <4>2 DEF KeptOf, Id
      <4>4. \/ Moves(j, "fail", Named(j))
            \/ \E name, n, d : Adds(jobs \ {j}, name, j.b, n, d)
        BY <1>8, ReturnJobJobs, <2>3, <2>72, <3>2 DEF Awaiting
      <4> QED BY <2>72, <3>2, <4>3, <4>4, Replaced DEF Moves
    <3> QED BY <3>1, <3>2
  <2>7. NeverForgotten'
    BY <2>1, <2>3, <2>71, <2>72, WaitsOn
  <2> QED BY <2>4, <2>5, <2>6, <2>7 DEF WaitInv
<1>9. ASSUME NEW j \in jobs, SearchBegins(j) PROVE WaitInv'
  <2>1. UNCHANGED <<searches, kept, forked>> /\ forked \subseteq forked'
    BY <1>9 DEF SearchBegins
  <2>2. crashes' = 0 => crashes = 0 /\ kept \subseteq kept'
    BY <1>9 DEF SearchBegins
  <2>3. \A c \in Bookings : /\ leg'[c] = "awaiting" => leg[c] = "awaiting"
                            /\ c \notin Dropped' => c \notin Dropped
    BY <1>9 DEF Types, BookingTypes, SearchBegins, Done, RunAgain
  <2>41. \A k \in jobs' : k.at = "queued" => k \in jobs \ {j}
    BY <1>9, SearchBeginsJobs DEF Moves
  <2>42. crashes' = crashes /\ (searching' = searching \/ searching' = searching \cup {j.b})
    BY <1>9 DEF SearchBegins
  <2>4. SearchLock'
    BY <1>9, <2>1, <2>41, <2>42, <1>2, <1>3
       DEF SearchLock, ChainInv, OneChain, JobsOf, JobFacts
  <2>5. KeptJobs'
    BY <1>9, SearchBeginsJobs, <1>2, <1>3, <2>1, KeptStay
       DEF JobFacts, Ending, Moves, Adds, SearchBegins
  <2>60. OffersOnlyGo
    BY <1>9 DEF OffersOnlyGo, Types, KeyTypes, NoOffer, SearchBegins, Done
  <2>61. \A k \in jobs' : Times(k) =>
             k \in jobs \/ \E i \in jobs : Times(i) /\ i.b = k.b /\ i.d = k.d
    BY <1>9, SearchBeginsJobs, <1>3 DEF JobFacts, Moves, Adds, Times, SearchBegins
  <2>6. OfferOfChain'
    BY <1>3, <2>1, <2>60, <2>61, OffersFound DEF JobFacts
  <2>71. /\ kept \subseteq kept' /\ crashes' = crashes
         /\ \A c \in Bookings :
              searches[c] \in Nat /\ searches'[c] \in {searches[c], searches[c] + 1}
    BY <1>9 DEF SearchBegins, Types, RestTypes
  <2>72. ASSUME NEW c \in Bookings, leg'[c] = "awaiting", c \notin Dropped', c \notin forked',
                crashes' = 0, searches'[c] > 1 => KeptOf(c)' = {}, NEW i \in jobs, i.b = c
         PROVE  \E k \in jobs' : k.b = c
    <3>1. CASE i # j
      BY <1>9, SearchBeginsJobs, <2>72, <3>1 DEF Moves, Adds
    <3>2. CASE i = j
      <4>1. Awaiting(j.b) /\ j.b \notin searching
        BY <1>9, <1>3, <2>1, <2>3, <2>71, <2>72, <3>2
           DEF SearchBegins, SearchLock, Awaiting
      <4> QED BY <1>9, <1>3, <2>72, <3>2, <4>1, Stepped
                 DEF SearchBegins, Moves, JobFacts, Places
    <3> QED BY <3>1, <3>2
  <2>7. NeverForgotten'
    BY <2>1, <2>3, <2>71, <2>72, WaitsOn
  <2> QED BY <2>4, <2>5, <2>6, <2>7 DEF WaitInv
<1>10. ASSUME NEW j \in jobs, SearchFinds(j) PROVE WaitInv'
  <2>1. UNCHANGED <<searches, kept, forked>> /\ forked \subseteq forked'
    BY <1>10 DEF SearchFinds
  <2>2. crashes' = 0 => crashes = 0 /\ kept \subseteq kept'
    BY <1>10 DEF SearchFinds
  <2>3. \A c \in Bookings : /\ leg'[c] = "awaiting" => leg[c] = "awaiting"
                            /\ c \notin Dropped' => c \notin Dropped
    BY <1>10 DEF Types, BookingTypes, SearchFinds, OfferTo, RunAgain
  <2>41. searching' \subseteq searching /\ crashes' = crashes
    BY <1>10 DEF SearchFinds, OfferTo
  <2>42. \A k \in jobs' : k.name = "search" /\ k.at = "queued" => k \in jobs
    BY <1>10, SearchFindsJobs DEF Moves, Adds
  <2>4. SearchLock'
    BY <2>1, <2>41, <2>42, LockMoved
  <2>5. KeptJobs'
    BY <1>10, SearchFindsJobs, <1>2, <1>3, <2>1, KeptStay
       DEF JobFacts, Ending, Moves, Adds, SearchFinds
  <2>60. OffersOnlyGo
    BY <1>10 DEF OffersOnlyGo, Types, KeyTypes, NoOffer, SearchFinds, OfferTo
  <2>61. \A k \in jobs' : Times(k) =>
             k \in jobs \/ \E i \in jobs : Times(i) /\ i.b = k.b /\ i.d = k.d
    BY <1>10, SearchFindsJobs, <1>3 DEF JobFacts, Moves, Adds, Times, SearchFinds
  <2>6. OfferOfChain'
    BY <1>3, <2>1, <2>60, <2>61, OffersFound DEF JobFacts
  <2>71. /\ kept \subseteq kept' /\ crashes' = crashes
         /\ \A c \in Bookings :
              searches[c] \in Nat /\ searches'[c] \in {searches[c], searches[c] + 1}
    BY <1>10 DEF SearchFinds, Types, RestTypes
  <2>72. ASSUME NEW c \in Bookings, leg'[c] = "awaiting", c \notin Dropped', c \notin forked',
                crashes' = 0, searches'[c] > 1 => KeptOf(c)' = {}, NEW i \in jobs, i.b = c
         PROVE  \E k \in jobs' : k.b = c
    <3>1. CASE i # j
      BY <1>10, SearchFindsJobs, <2>72, <3>1 DEF Moves, Adds
    <3>2. CASE i = j
      <4>1. searches'[c] <= 1 => KeptOf(c) = {}
        BY <1>10, <1>3, <2>1, <2>71, <2>72, <3>2
           DEF KeptJobs, Ending, SearchFinds, JobFacts
      <4>2. KeptOf(c) = {}
        BY <2>1, <2>71, <2>72, <4>1 DEF KeptOf
      <4>3. \A k : k.b = c => Id(k) \notin kept
        BY <4>2 DEF KeptOf, Id
      <4>4. \/ Moves(j, "fail", Named(j))
            \/ \E name, n, d : Adds(jobs \ {j}, name, j.b, n, d)
        BY <1>10, SearchFindsJobs
      <4> QED BY <2>72, <3>2, <4>3, <4>4, Replaced DEF Moves
    <3> QED BY <3>1, <3>2
  <2>7. NeverForgotten'
    BY <2>1, <2>3, <2>71, <2>72, WaitsOn
  <2> QED BY <2>4, <2>5, <2>6, <2>7 DEF WaitInv
<1>11. ASSUME NEW j \in jobs, OfferBegins(j) PROVE WaitInv'
  <2>1. UNCHANGED <<searches, kept, forked>> /\ forked \subseteq forked'
    BY <1>11 DEF OfferBegins
  <2>2. crashes' = 0 => crashes = 0 /\ kept \subseteq kept'
    BY <1>11 DEF OfferBegins
  <2>3. \A c \in Bookings : /\ leg'[c] = "awaiting" => leg[c] = "awaiting"
                            /\ c \notin Dropped' => c \notin Dropped
    BY <1>11 DEF Types, BookingTypes, OfferBegins, Done, Cleanup, RunAgain
  <2>41. searching' \subseteq searching /\ crashes' = crashes
    BY <1>11 DEF OfferBegins, Done, Cleanup
  <2>42. \A k \in jobs' : k.name = "search" /\ k.at = "queued" => k \in jobs
    BY <1>11, OfferBeginsJobs DEF Moves, Adds
  <2>4. SearchLock'
    BY <2>1, <2>41, <2>42, LockMoved
  <2>5. KeptJobs'
    BY <1>11, OfferBeginsJobs, <1>2, <1>3, <2>1, KeptStay
       DEF JobFacts, Ending, Moves, Adds, OfferBegins
  <2>60. OffersOnlyGo
    BY <1>11 DEF OffersOnlyGo, Types, KeyTypes, NoOffer, OfferBegins, Done, Cleanup
  <2>61. \A k \in jobs' : Times(k) =>
             k \in jobs \/ \E i \in jobs : Times(i) /\ i.b = k.b /\ i.d = k.d
    BY <1>11, OfferBeginsJobs, <1>3 DEF JobFacts, Moves, Adds, Times, OfferBegins
  <2>6. OfferOfChain'
    BY <1>3, <2>1, <2>60, <2>61, OffersFound DEF JobFacts
  <2>71. /\ kept \subseteq kept' /\ crashes' = crashes
         /\ \A c \in Bookings :
              searches[c] \in Nat /\ searches'[c] \in {searches[c], searches[c] + 1}
    BY <1>11 DEF OfferBegins, Types, RestTypes
  <2>72. ASSUME NEW c \in Bookings, leg'[c] = "awaiting", c \notin Dropped', c \notin forked',
                crashes' = 0, searches'[c] > 1 => KeptOf(c)' = {}, NEW i \in jobs, i.b = c
         PROVE  \E k \in jobs' : k.b = c
    <3>1. CASE i # j
      BY <1>11, OfferBeginsJobs, <2>72, <3>1 DEF Moves, Adds
    <3>2. CASE i = j
      <4>1. Awaiting(j.b)
        BY <2>3, <2>72, <3>2 DEF Awaiting
      <4> QED BY <1>11, <1>3, <2>72, <3>2, <4>1, Stepped
                 DEF OfferBegins, Moves, JobFacts, Places
    <3> QED BY <3>1, <3>2
  <2>7. NeverForgotten'
    BY <2>1, <2>3, <2>71, <2>72, WaitsOn
  <2> QED BY <2>4, <2>5, <2>6, <2>7 DEF WaitInv
<1>12. ASSUME NEW j \in jobs, PopCandidate(j) PROVE WaitInv'
  <2>1. UNCHANGED <<searches, kept, forked>> /\ forked \subseteq forked'
    BY <1>12 DEF PopCandidate
  <2>2. crashes' = 0 => crashes = 0 /\ kept \subseteq kept'
    BY <1>12 DEF PopCandidate
  <2>3. \A c \in Bookings : /\ leg'[c] = "awaiting" => leg[c] = "awaiting"
                            /\ c \notin Dropped' => c \notin Dropped
    BY <1>12 DEF Types, BookingTypes, PopCandidate, RunAgain
  <2>41. searching' \subseteq searching /\ crashes' = crashes
    BY <1>12 DEF PopCandidate
  <2>42. \A k \in jobs' : k.name = "search" /\ k.at = "queued" => k \in jobs
    BY <1>12, PopCandidateJobs DEF Moves, Adds
  <2>4. SearchLock'
    BY <2>1, <2>41, <2>42, LockMoved
  <2>5. KeptJobs'
    BY <1>12, PopCandidateJobs, <1>2, <1>3, <2>1, KeptStay
       DEF JobFacts, Ending, Moves, Adds, PopCandidate
  <2>60. OffersOnlyGo
    BY <1>12 DEF OffersOnlyGo, Types, KeyTypes, NoOffer, PopCandidate
  <2>61. \A k \in jobs' : Times(k) =>
             k \in jobs \/ \E i \in jobs : Times(i) /\ i.b = k.b /\ i.d = k.d
    BY <1>12, PopCandidateJobs, <1>3 DEF JobFacts, Moves, Adds, Times, PopCandidate
  <2>6. OfferOfChain'
    BY <1>3, <2>1, <2>60, <2>61, OffersFound DEF JobFacts
  <2>71. /\ kept \subseteq kept' /\ crashes' = crashes
         /\ \A c \in Bookings :
              searches[c] \in Nat /\ searches'[c] \in {searches[c], searches[c] + 1}
    BY <1>12 DEF PopCandidate, Types, RestTypes
  <2>72. \A c \in Bookings :
           /\ leg'[c] = "awaiting" /\ c \notin Dropped' /\ c \notin forked' /\ crashes' = 0
           /\ searches'[c] > 1 => KeptOf(c)' = {}
           /\ \E i \in jobs : i.b = c
           => \E k \in jobs' : k.b = c
    BY <1>12, PopCandidateJobs DEF Moves
  <2>7. NeverForgotten'
    BY <2>1, <2>3, <2>71, <2>72, WaitsOn
  <2> QED BY <2>4, <2>5, <2>6, <2>7 DEF WaitInv
<1>13. ASSUME NEW j \in jobs, CheckCandidate(j) PROVE WaitInv'
  <2>1. UNCHANGED <<searches, kept, forked>> /\ forked \subseteq forked'
    BY <1>13 DEF CheckCandidate
  <2>2. crashes' = 0 => crashes = 0 /\ kept \subseteq kept'
    BY <1>13 DEF CheckCandidate
  <2>3. \A c \in Bookings : /\ leg'[c] = "awaiting" => leg[c] = "awaiting"
                            /\ c \notin Dropped' => c \notin Dropped
    BY <1>13 DEF Types, BookingTypes, CheckCandidate, RunAgain
  <2>41. searching' \subseteq searching /\ crashes' = crashes
    BY <1>13 DEF CheckCandidate
  <2>42. \A k \in jobs' : k.name = "search" /\ k.at = "queued" => k \in jobs
    BY <1>13, CheckCandidateJobs DEF Moves, Adds
  <2>4. SearchLock'
    BY <2>1, <2>41, <2>42, LockMoved
  <2>5. KeptJobs'
    BY <1>13, CheckCandidateJobs, <1>2, <1>3, <2>1, KeptStay
       DEF JobFacts, Ending, Moves, Adds, CheckCandidate
  <2>60. OffersOnlyGo
    BY <1>13 DEF OffersOnlyGo, Types, KeyTypes, NoOffer, CheckCandidate
  <2>61. \A k \in jobs' : Times(k) =>
             k \in jobs \/ \E i \in jobs : Times(i) /\ i.b = k.b /\ i.d = k.d
    BY <1>13, CheckCandidateJobs, <1>3
       DEF JobFacts, Moves, Adds, Times, CheckCandidate
  <2>6. OfferOfChain'
    BY <1>3, <2>1, <2>60, <2>61, OffersFound DEF JobFacts
  <2>71. /\ kept \subseteq kept' /\ crashes' = crashes
         /\ \A c \in Bookings :
              searches[c] \in Nat /\ searches'[c] \in {searches[c], searches[c] + 1}
    BY <1>13 DEF CheckCandidate, Types, RestTypes
  <2>72. \A c \in Bookings :
           /\ leg'[c] = "awaiting" /\ c \notin Dropped' /\ c \notin forked' /\ crashes' = 0
           /\ searches'[c] > 1 => KeptOf(c)' = {}
           /\ \E i \in jobs : i.b = c
           => \E k \in jobs' : k.b = c
    BY <1>13, CheckCandidateJobs DEF Moves
  <2>7. NeverForgotten'
    BY <2>1, <2>3, <2>71, <2>72, WaitsOn
  <2> QED BY <2>4, <2>5, <2>6, <2>7 DEF WaitInv
<1>14. ASSUME NEW j \in jobs, CreateOffer(j) PROVE WaitInv'
  <2>1. UNCHANGED <<searches, kept, forked>> /\ forked \subseteq forked'
    BY <1>14 DEF CreateOffer
  <2>2. crashes' = 0 => crashes = 0 /\ kept \subseteq kept'
    BY <1>14 DEF CreateOffer
  <2>3. \A c \in Bookings : /\ leg'[c] = "awaiting" => leg[c] = "awaiting"
                            /\ c \notin Dropped' => c \notin Dropped
    BY <1>14 DEF Types, BookingTypes, CreateOffer, RunAgain
  <2>41. searching' \subseteq searching /\ crashes' = crashes
    BY <1>14 DEF CreateOffer
  <2>42. \A k \in jobs' : k.name = "search" /\ k.at = "queued" => k \in jobs
    BY <1>14, CreateOfferJobs DEF Moves, Adds
  <2>4. SearchLock'
    BY <2>1, <2>41, <2>42, LockMoved
  <2>51. j.at = "write" /\ j.name = "offer"
    BY <1>14 DEF CreateOffer
  <2>5. KeptJobs'
    BY <1>14, CreateOfferJobs, <1>2, <1>3, <2>1, <2>51, KeptStay
       DEF JobFacts, Moves, Ending
  <2>61. /\ j \in jobs /\ j.b \in Bookings
         /\ offer'[j.b].to = j.d /\ \A c \in Bookings : c # j.b => offer'[c] = offer[c]
    BY <1>14, <1>3 DEF CreateOffer, Types, KeyTypes, JobFacts
  <2>62. \A k \in jobs' : k \in jobs \ {j} \/ (k.b = j.b /\ k.d = j.d)
    BY <1>14, CreateOfferJobs DEF Moves
  <2>6. OfferOfChain'
    BY <1>2, <1>3, <2>1, <2>61, <2>62
       DEF OfferOfChain, ChainInv, OneChain, JobsOf, JobFacts
  <2>71. /\ kept \subseteq kept' /\ crashes' = crashes
         /\ \A c \in Bookings :
              searches[c] \in Nat /\ searches'[c] \in {searches[c], searches[c] + 1}
    BY <1>14 DEF CreateOffer, Types, RestTypes
  <2>72. \A c \in Bookings :
           /\ leg'[c] = "awaiting" /\ c \notin Dropped' /\ c \notin forked' /\ crashes' = 0
           /\ searches'[c] > 1 => KeptOf(c)' = {}
           /\ \E i \in jobs : i.b = c
           => \E k \in jobs' : k.b = c
    BY <1>14, CreateOfferJobs DEF Moves
  <2>7. NeverForgotten'
    BY <2>1, <2>3, <2>71, <2>72, WaitsOn
  <2> QED BY <2>4, <2>5, <2>6, <2>7 DEF WaitInv
<1>15. ASSUME NEW j \in jobs, ArmTimeout(j) PROVE WaitInv'
  <2>1. UNCHANGED <<searches, kept, forked>> /\ forked \subseteq forked'
    BY <1>15 DEF ArmTimeout
  <2>2. crashes' = 0 => crashes = 0 /\ kept \subseteq kept'
    BY <1>15 DEF ArmTimeout
  <2>3. \A c \in Bookings : /\ leg'[c] = "awaiting" => leg[c] = "awaiting"
                            /\ c \notin Dropped' => c \notin Dropped
    BY <1>15 DEF Types, BookingTypes, ArmTimeout, RunAgain
  <2>41. searching' \subseteq searching /\ crashes' = crashes
    BY <1>15 DEF ArmTimeout
  <2>42. \A k \in jobs' : k.name = "search" /\ k.at = "queued" => k \in jobs
    BY <1>15, ArmTimeoutJobs DEF Moves, Adds
  <2>4. SearchLock'
    BY <2>1, <2>41, <2>42, LockMoved
  <2>5. KeptJobs'
    BY <1>15, ArmTimeoutJobs, <1>2, <1>3, <2>1, KeptStay
       DEF JobFacts, Ending, Moves, Adds, ArmTimeout
  <2>60. OffersOnlyGo
    BY <1>15 DEF OffersOnlyGo, Types, KeyTypes, NoOffer, ArmTimeout
  <2>61. \A k \in jobs' : Times(k) =>
             k \in jobs \/ \E i \in jobs : Times(i) /\ i.b = k.b /\ i.d = k.d
    BY <1>15, ArmTimeoutJobs, <1>3 DEF JobFacts, Moves, Adds, Times, ArmTimeout
  <2>6. OfferOfChain'
    BY <1>3, <2>1, <2>60, <2>61, OffersFound DEF JobFacts
  <2>71. /\ kept \subseteq kept' /\ crashes' = crashes
         /\ \A c \in Bookings :
              searches[c] \in Nat /\ searches'[c] \in {searches[c], searches[c] + 1}
    BY <1>15 DEF ArmTimeout, Types, RestTypes
  <2>72. ASSUME NEW c \in Bookings, leg'[c] = "awaiting", c \notin Dropped', c \notin forked',
                crashes' = 0, searches'[c] > 1 => KeptOf(c)' = {}, NEW i \in jobs, i.b = c
         PROVE  \E k \in jobs' : k.b = c
    <3>1. CASE i # j
      BY <1>15, ArmTimeoutJobs, <2>72, <3>1 DEF Moves, Adds
    <3>2. CASE i = j
      <4>1. searches'[c] <= 1 => KeptOf(c) = {}
        BY <1>15, <1>3, <2>1, <2>71, <2>72, <3>2
           DEF KeptJobs, Ending, ArmTimeout, JobFacts
      <4>2. KeptOf(c) = {}
        BY <2>1, <2>71, <2>72, <4>1 DEF KeptOf
      <4>3. \A k : k.b = c => Id(k) \notin kept
        BY <4>2 DEF KeptOf, Id
      <4>4. \/ Moves(j, "fail", Named(j))
            \/ \E name, n, d : Adds(jobs \ {j}, name, j.b, n, d)
        BY <1>15, ArmTimeoutJobs
      <4> QED BY <2>72, <3>2, <4>3, <4>4, Replaced DEF Moves
    <3> QED BY <3>1, <3>2
  <2>7. NeverForgotten'
    BY <2>1, <2>3, <2>71, <2>72, WaitsOn
  <2> QED BY <2>4, <2>5, <2>6, <2>7 DEF WaitInv
<1>16. ASSUME NEW j \in jobs, SkipCandidate(j) PROVE WaitInv'
  <2>1. UNCHANGED <<searches, kept, forked>> /\ forked \subseteq forked'
    BY <1>16 DEF SkipCandidate
  <2>2. crashes' = 0 => crashes = 0 /\ kept \subseteq kept'
    BY <1>16 DEF SkipCandidate
  <2>3. \A c \in Bookings : /\ leg'[c] = "awaiting" => leg[c] = "awaiting"
                            /\ c \notin Dropped' => c \notin Dropped
    BY <1>16 DEF Types, BookingTypes, SkipCandidate, MoveOn, OfferTo, RunAgain
  <2>41. searching' \subseteq searching /\ crashes' = crashes
    BY <1>16 DEF SkipCandidate, MoveOn, OfferTo
  <2>42. \A k \in jobs' : k.name = "search" /\ k.at = "queued" => k \in jobs
    BY <1>16, SkipCandidateJobs DEF Moves, Adds
  <2>4. SearchLock'
    BY <2>1, <2>41, <2>42, LockMoved
  <2>5. KeptJobs'
    BY <1>16, SkipCandidateJobs, <1>2, <1>3, <2>1, KeptStay
       DEF JobFacts, Ending, Moves, Adds, SkipCandidate
  <2>60. OffersOnlyGo
    BY <1>16 DEF OffersOnlyGo, Types, KeyTypes, NoOffer, SkipCandidate, MoveOn, OfferTo
  <2>61. \A k \in jobs' : Times(k) =>
             k \in jobs \/ \E i \in jobs : Times(i) /\ i.b = k.b /\ i.d = k.d
    BY <1>16, SkipCandidateJobs, <1>3 DEF JobFacts, Moves, Adds, Times, SkipCandidate
  <2>6. OfferOfChain'
    BY <1>3, <2>1, <2>60, <2>61, OffersFound DEF JobFacts
  <2>71. /\ kept \subseteq kept' /\ crashes' = crashes
         /\ \A c \in Bookings :
              searches[c] \in Nat /\ searches'[c] \in {searches[c], searches[c] + 1}
    BY <1>16 DEF SkipCandidate, Types, RestTypes
  <2>72. ASSUME NEW c \in Bookings, leg'[c] = "awaiting", c \notin Dropped', c \notin forked',
                crashes' = 0, searches'[c] > 1 => KeptOf(c)' = {}, NEW i \in jobs, i.b = c
         PROVE  \E k \in jobs' : k.b = c
    <3>1. CASE i # j
      BY <1>16, SkipCandidateJobs, <2>72, <3>1 DEF Moves, Adds
    <3>2. CASE i = j
      <4>1. searches'[c] <= 1 => KeptOf(c) = {}
        BY <1>16, <1>3, <2>1, <2>71, <2>72, <3>2
           DEF KeptJobs, Ending, SkipCandidate, JobFacts
      <4>2. KeptOf(c) = {}
        BY <2>1, <2>71, <2>72, <4>1 DEF KeptOf
      <4>3. \A k : k.b = c => Id(k) \notin kept
        BY <4>2 DEF KeptOf, Id
      <4>4. \/ Moves(j, "fail", Named(j))
            \/ \E name, n, d : Adds(jobs \ {j}, name, j.b, n, d)
        BY <1>16, SkipCandidateJobs
      <4> QED BY <2>72, <3>2, <4>3, <4>4, Replaced DEF Moves
    <3> QED BY <3>1, <3>2
  <2>7. NeverForgotten'
    BY <2>1, <2>3, <2>71, <2>72, WaitsOn
  <2> QED BY <2>4, <2>5, <2>6, <2>7 DEF WaitInv
<1>17. ASSUME NEW j \in jobs, TimeoutReads(j) PROVE WaitInv'
  <2>1. UNCHANGED <<searches, kept, forked>> /\ forked \subseteq forked'
    BY <1>17 DEF TimeoutReads
  <2>2. crashes' = 0 => crashes = 0 /\ kept \subseteq kept'
    BY <1>17 DEF TimeoutReads
  <2>3. \A c \in Bookings : /\ leg'[c] = "awaiting" => leg[c] = "awaiting"
                            /\ c \notin Dropped' => c \notin Dropped
    BY <1>17 DEF Types, BookingTypes, TimeoutReads, ClearOffer, Done, RunAgain
  <2>41. searching' \subseteq searching /\ crashes' = crashes
    BY <1>17 DEF TimeoutReads, ClearOffer, Done
  <2>42. \A k \in jobs' : k.name = "search" /\ k.at = "queued" => k \in jobs
    BY <1>17, TimeoutReadsJobs DEF Moves, Adds
  <2>4. SearchLock'
    BY <2>1, <2>41, <2>42, LockMoved
  <2>5. KeptJobs'
    BY <1>17, TimeoutReadsJobs, <1>2, <1>3, <2>1, KeptStay
       DEF JobFacts, Ending, Moves, Adds, TimeoutReads
  <2>60. OffersOnlyGo
    BY <1>17 DEF OffersOnlyGo, Types, KeyTypes, NoOffer, TimeoutReads, ClearOffer, Done
  <2>61. \A k \in jobs' : Times(k) =>
             k \in jobs \/ \E i \in jobs : Times(i) /\ i.b = k.b /\ i.d = k.d
    BY <1>17, TimeoutReadsJobs, <1>3 DEF JobFacts, Moves, Adds, Times, TimeoutReads
  <2>6. OfferOfChain'
    BY <1>3, <2>1, <2>60, <2>61, OffersFound DEF JobFacts
  <2>71. /\ kept \subseteq kept' /\ crashes' = crashes
         /\ \A c \in Bookings :
              searches[c] \in Nat /\ searches'[c] \in {searches[c], searches[c] + 1}
    BY <1>17 DEF TimeoutReads, Types, RestTypes
  <2>72. ASSUME NEW c \in Bookings, leg'[c] = "awaiting", c \notin Dropped', c \notin forked',
                crashes' = 0, searches'[c] > 1 => KeptOf(c)' = {}, NEW i \in jobs, i.b = c
         PROVE  \E k \in jobs' : k.b = c
    <3>1. CASE i # j
      BY <1>17, TimeoutReadsJobs, <2>72, <3>1 DEF Moves, Adds
    <3>2. CASE i = j
      <4>1. Awaiting(j.b) /\ j.d \in Drivers
        BY <1>17, <1>3, <2>3, <2>72, <3>2 DEF Awaiting, TimeoutReads, JobFacts
      <4>2. offer[j.b].to \in {None, j.d} /\ ~offer[j.b].accepted
        BY <1>17, <1>2, <1>3, <2>1, <2>72, <3>2, <4>1
           DEF TimeoutReads, OfferOfChain, Times, ChainInv, TakenIsFinal, Awaiting, JobFacts
      <4> QED BY <1>17, <1>3, <2>72, <3>2, <4>1, <4>2, Stepped
                 DEF TimeoutReads, Moves, JobFacts, Places
    <3> QED BY <3>1, <3>2
  <2>7. NeverForgotten'
    BY <2>1, <2>3, <2>71, <2>72, WaitsOn
  <2> QED BY <2>4, <2>5, <2>6, <2>7 DEF WaitInv
<1>18. ASSUME NEW j \in jobs, TimeoutActs(j) PROVE WaitInv'
  <2>1. UNCHANGED <<searches, kept, forked>> /\ forked \subseteq forked'
    BY <1>18 DEF TimeoutActs
  <2>2. crashes' = 0 => crashes = 0 /\ kept \subseteq kept'
    BY <1>18 DEF TimeoutActs
  <2>3. \A c \in Bookings : /\ leg'[c] = "awaiting" => leg[c] = "awaiting"
                            /\ c \notin Dropped' => c \notin Dropped
    BY <1>18 DEF Types, BookingTypes, TimeoutActs, ClearOffer, MoveOn, OfferTo, RunAgain
  <2>41. searching' \subseteq searching /\ crashes' = crashes
    BY <1>18 DEF TimeoutActs, ClearOffer, MoveOn, OfferTo
  <2>42. \A k \in jobs' : k.name = "search" /\ k.at = "queued" => k \in jobs
    BY <1>18, TimeoutActsJobs DEF Moves, Adds
  <2>4. SearchLock'
    BY <2>1, <2>41, <2>42, LockMoved
  <2>5. KeptJobs'
    BY <1>18, TimeoutActsJobs, <1>2, <1>3, <2>1, KeptStay
       DEF JobFacts, Ending, Moves, Adds, TimeoutActs
  <2>60. OffersOnlyGo
    BY <1>18
       DEF OffersOnlyGo, Types, KeyTypes, NoOffer, TimeoutActs, ClearOffer, MoveOn,
           OfferTo
  <2>61. \A k \in jobs' : Times(k) =>
             k \in jobs \/ \E i \in jobs : Times(i) /\ i.b = k.b /\ i.d = k.d
    BY <1>18, TimeoutActsJobs, <1>3
       DEF JobFacts, Moves, Adds, Times, Named, TimeoutActs
  <2>6. OfferOfChain'
    BY <1>3, <2>1, <2>60, <2>61, OffersFound DEF JobFacts
  <2>71. /\ kept \subseteq kept' /\ crashes' = crashes
         /\ \A c \in Bookings :
              searches[c] \in Nat /\ searches'[c] \in {searches[c], searches[c] + 1}
    BY <1>18 DEF TimeoutActs, Types, RestTypes
  <2>72. ASSUME NEW c \in Bookings, leg'[c] = "awaiting", c \notin Dropped', c \notin forked',
                crashes' = 0, searches'[c] > 1 => KeptOf(c)' = {}, NEW i \in jobs, i.b = c
         PROVE  \E k \in jobs' : k.b = c
    <3>1. CASE i # j
      BY <1>18, TimeoutActsJobs, <2>72, <3>1 DEF Moves, Adds
    <3>2. CASE i = j
      <4>1. searches'[c] <= 1 => KeptOf(c) = {}
        BY <1>18, <1>3, <2>1, <2>71, <2>72, <3>2
           DEF KeptJobs, Ending, TimeoutActs, JobFacts
      <4>2. KeptOf(c) = {}
        BY <2>1, <2>71, <2>72, <4>1 DEF KeptOf
      <4>3. \A k : k.b = c => Id(k) \notin kept
        BY <4>2 DEF KeptOf, Id
      <4>4. \/ Moves(j, "fail", Named(j))
            \/ \E name, n, d : Adds(jobs \ {j}, name, j.b, n, d)
        BY <1>18, TimeoutActsJobs
      <4> QED BY <2>72, <3>2, <4>3, <4>4, Replaced DEF Moves
    <3> QED BY <3>1, <3>2
  <2>7. NeverForgotten'
    BY <2>1, <2>3, <2>71, <2>72, WaitsOn
  <2> QED BY <2>4, <2>5, <2>6, <2>7 DEF WaitInv
<1>19. ASSUME NEW j \in jobs, FailSearch(j) PROVE WaitInv'
  <2>1. UNCHANGED <<searches, kept, forked>> /\ forked \subseteq forked'
    BY <1>19 DEF FailSearch
  <2>2. crashes' = 0 => crashes = 0 /\ kept \subseteq kept'
    BY <1>19 DEF FailSearch
  <2>3. \A c \in Bookings : /\ leg'[c] = "awaiting" => leg[c] = "awaiting"
                            /\ c \notin Dropped' => c \notin Dropped
    BY <1>19
       DEF Types, BookingTypes, FailSearch, CancelPickup, MarkReturn, Unlocked, InListener, Cleanup, Done,
           RunAgain
  <2>41. searching' \subseteq searching /\ crashes' = crashes
    BY <1>19 DEF FailSearch, CancelPickup, MarkReturn, Unlocked, InListener, Cleanup, Done
  <2>42. \A k \in jobs' : k.name = "search" /\ k.at = "queued" => k \in jobs
    BY <1>19, FailSearchJobs DEF Moves, Adds, FailSearch
  <2>4. SearchLock'
    BY <2>1, <2>41, <2>42, LockMoved
  <2>5. KeptJobs'
    BY <1>19, FailSearchJobs, <1>2, <1>3, <2>1, KeptStay
       DEF JobFacts, Ending, Moves, Adds, FailSearch
  <2>60. OffersOnlyGo
    BY <1>19
       DEF OffersOnlyGo, Types, KeyTypes, NoOffer, FailSearch, CancelPickup,
           MarkReturn, Unlocked, InListener, Cleanup, Done
  <2>61. \A k \in jobs' : Times(k) =>
             k \in jobs \/ \E i \in jobs : Times(i) /\ i.b = k.b /\ i.d = k.d
    BY <1>19, FailSearchJobs, <1>3 DEF JobFacts, Moves, Adds, Times, FailSearch
  <2>6. OfferOfChain'
    BY <1>3, <2>1, <2>60, <2>61, OffersFound DEF JobFacts
  <2>71. /\ kept \subseteq kept' /\ crashes' = crashes
         /\ \A c \in Bookings :
              searches[c] \in Nat /\ searches'[c] \in {searches[c], searches[c] + 1}
    BY <1>19 DEF FailSearch, Types, RestTypes
  <2>72. ASSUME NEW c \in Bookings, leg'[c] = "awaiting", c \notin Dropped', c \notin forked',
                crashes' = 0, searches'[c] > 1 => KeptOf(c)' = {}, NEW i \in jobs, i.b = c
         PROVE  \E k \in jobs' : k.b = c
    <3>1. CASE i # j
      BY <1>19, FailSearchJobs, <2>72, <3>1 DEF Moves, Adds
    <3>2. CASE i = j
      <4> QED BY <1>19, <1>3, <2>3, <2>72, <3>2
              DEF FailSearch, CancelPickup, MarkReturn, Unlocked, InListener, JobFacts, Types, BookingTypes
    <3> QED BY <3>1, <3>2
  <2>7. NeverForgotten'
    BY <2>1, <2>3, <2>71, <2>72, WaitsOn
  <2> QED BY <2>4, <2>5, <2>6, <2>7 DEF WaitInv
<1>19a. ASSUME NEW j \in jobs, GivingUpFails(j) PROVE WaitInv'
  <2>1. UNCHANGED <<searches, kept, forked>> /\ forked \subseteq forked'
    BY <1>19a DEF GivingUpFails
  <2>2. crashes' = 0 => crashes = 0 /\ kept \subseteq kept'
    BY <1>19a DEF GivingUpFails
  <2>3. \A c \in Bookings : /\ leg'[c] = "awaiting" => leg[c] = "awaiting"
                            /\ c \notin Dropped' => c \notin Dropped
    BY <1>19a
       DEF Types, BookingTypes, GivingUpFails, Unlocked, InListener, Done,
           RunAgain
  <2>41. searching' \subseteq searching /\ crashes' = crashes
    BY <1>19a DEF GivingUpFails, Unlocked, InListener, Done
  <2>42. \A k \in jobs' : k.name = "search" /\ k.at = "queued" => k \in jobs
    BY <1>19a, GivingUpFailsJobs DEF Moves, Adds, GivingUpFails
  <2>4. SearchLock'
    BY <2>1, <2>41, <2>42, LockMoved
  <2>5. KeptJobs'
    BY <1>19a, GivingUpFailsJobs, <1>2, <1>3, <2>1, KeptStay
       DEF JobFacts, Ending, Moves, Adds, GivingUpFails
  <2>60. OffersOnlyGo
    BY <1>19a
       DEF OffersOnlyGo, Types, KeyTypes, NoOffer, GivingUpFails, Unlocked,
           InListener, Done
  <2>61. \A k \in jobs' : Times(k) =>
             k \in jobs \/ \E i \in jobs : Times(i) /\ i.b = k.b /\ i.d = k.d
    BY <1>19a, GivingUpFailsJobs, <1>3 DEF JobFacts, Moves, Adds, Times, GivingUpFails
  <2>6. OfferOfChain'
    BY <1>3, <2>1, <2>60, <2>61, OffersFound DEF JobFacts
  <2>71. /\ kept \subseteq kept' /\ crashes' = crashes
         /\ \A c \in Bookings :
              searches[c] \in Nat /\ searches'[c] \in {searches[c], searches[c] + 1}
    BY <1>19a DEF GivingUpFails, Types, RestTypes
  <2>72. ASSUME NEW c \in Bookings, leg'[c] = "awaiting", c \notin Dropped', c \notin forked',
                crashes' = 0, searches'[c] > 1 => KeptOf(c)' = {}, NEW i \in jobs, i.b = c
         PROVE  \E k \in jobs' : k.b = c
    <3>1. CASE i # j
      BY <1>19a, GivingUpFailsJobs, <2>72, <3>1 DEF Moves, Adds
    <3>2. CASE i = j
      BY <1>19a, <2>72, <3>2 DEF GivingUpFails
    <3> QED BY <3>1, <3>2
  <2>7. NeverForgotten'
    BY <2>1, <2>3, <2>71, <2>72, WaitsOn
  <2> QED BY <2>4, <2>5, <2>6, <2>7 DEF WaitInv
<1>20. ASSUME NEW j \in jobs, JobThrows(j) PROVE WaitInv'
  <2>0. RunAgain(j) /\ j.name # "return"
    BY <1>20, Facts DEF JobThrows, RunAgain, JobFacts, AJob, Shape, Places
  <2>1. UNCHANGED <<searches, forked>> /\ forked \subseteq forked'
    BY <1>20 DEF JobThrows, RunAgain
  <2>2. crashes' = 0 => crashes = 0 /\ kept \subseteq kept'
    BY <1>20 DEF JobThrows, RunAgain
  <2>3. \A c \in Bookings : /\ leg'[c] = "awaiting" => leg[c] = "awaiting"
                            /\ c \notin Dropped' => c \notin Dropped
    BY <1>20 DEF Types, BookingTypes, JobThrows, RunAgain, RunAgain
  <2>41. \A k \in jobs' : k.name = "search" => k \in jobs \/ (j.name = "search" /\ k.b = j.b)
    BY <2>0, RunAgainJobs DEF Moves
  <2>42. /\ searching' \subseteq searching
         /\ j.name = "search" => j.b \notin searching'
         /\ crashes' = crashes
    BY <1>20 DEF JobThrows
  <2>4. SearchLock'
    <3> SUFFICES ASSUME crashes' = 0, NEW k \in jobs', k.name = "search", k.at = "queued",
                        k.b \notin forked'
                 PROVE  k.b \notin searching'
      BY DEF SearchLock
    <3>1. CASE k \in jobs
      BY <2>1, <2>42, <3>1 DEF SearchLock
    <3>2. CASE j.name = "search" /\ k.b = j.b
      BY <2>42, <3>2
    <3> QED BY <2>41, <3>1, <3>2
  <2>5. KeptJobs'
    <3>1. searches[j.b] # 0
      BY <2>0, <1>2, Facts DEF ChainInv, FirstSearch, SearchNumbers, Unasked, JobFacts
    <3>2. CASE kept' = kept \cup {Id(j)} /\ Moves(j, "fail", Named(j))
      <4>1. kept' = kept \cup {Id(j)}
        BY <3>2
      <4>2. \A c : c # j.b => KeptOf(c)' = KeptOf(c)
        BY <2>0, <4>1 DEF KeptOf, Id, RunAgain
      <4>3. \A i \in kept' : searches'[i[2]] # 0
        BY <2>1, <3>1, <4>1 DEF KeptJobs, Id
      <4>4. \A k \in jobs' : k.b \notin forked' /\ k.b = j.b => Ending(k)'
        BY <1>2, <1>3, <2>1, <3>2
           DEF ChainInv, OneChain, JobsOf, Moves, JobFacts, Ending, InListener, Id
      <4>5. \A k \in jobs' : k.b # j.b => k \in jobs
        BY <3>2 DEF Moves
      <4>6. \A k \in jobs : Ending(k) => Ending(k)'
        BY <4>1 DEF Ending, InListener
      <4> QED BY <2>1, <4>2, <4>3, <4>4, <4>5, <4>6 DEF KeptJobs
    <3>3. CASE kept' = kept /\ \E d : Moves(j, "queued", d)
      <4>1. ~Ending(j) /\ j.name # "return"
        BY <2>0 DEF Ending, RunAgain
      <4> QED BY <1>2, <1>3, <2>1, <3>3, <4>1, KeptStay DEF Moves, JobFacts
    <3> QED BY <2>0, RunAgainJobs, <3>2, <3>3
  <2>60. OffersOnlyGo
    BY <1>20 DEF OffersOnlyGo, Types, KeyTypes, NoOffer, JobThrows, RunAgain
  <2>61. \A k \in jobs' : Times(k) =>
             k \in jobs \/ \E i \in jobs : Times(i) /\ i.b = k.b /\ i.d = k.d
    BY <2>0, RunAgainJobs DEF Moves, Times, Named
  <2>6. OfferOfChain'
    BY <1>3, <2>1, <2>60, <2>61, OffersFound DEF JobFacts
  <2>71. /\ kept \subseteq kept' /\ crashes' = crashes
         /\ \A c \in Bookings :
              searches[c] \in Nat /\ searches'[c] \in {searches[c], searches[c] + 1}
    BY <1>20 DEF JobThrows, RunAgain, Types, RestTypes
  <2>72. \A c \in Bookings :
           /\ leg'[c] = "awaiting" /\ c \notin Dropped' /\ c \notin forked' /\ crashes' = 0
           /\ searches'[c] > 1 => KeptOf(c)' = {}
           /\ \E i \in jobs : i.b = c
           => \E k \in jobs' : k.b = c
    BY <1>20, RunAgainJobs DEF Moves, JobThrows
  <2>7. NeverForgotten'
    BY <2>1, <2>3, <2>71, <2>72, WaitsOn
  <2> QED BY <2>4, <2>5, <2>6, <2>7 DEF WaitInv
<1>21. ASSUME NEW j \in jobs, WorkerDies(j) PROVE WaitInv'
  <2>0. RunAgain(j) /\ j.name # "return"
    BY <1>21, Facts DEF WorkerDies, RunAgain, JobFacts, AJob, Shape, Places
  <2>1. UNCHANGED <<searches, forked>> /\ forked \subseteq forked'
    BY <1>21 DEF WorkerDies, RunAgain
  <2>2. crashes' # 0 /\ kept \subseteq kept'
    BY <1>21 DEF WorkerDies, RunAgain, Types, RestTypes
  <2>3. \A c \in Bookings : /\ leg'[c] = "awaiting" => leg[c] = "awaiting"
                            /\ c \notin Dropped' => c \notin Dropped
    BY <1>21 DEF Types, BookingTypes, WorkerDies, RunAgain, RunAgain
  <2>4. SearchLock'
    BY <2>2 DEF SearchLock
  <2>5. KeptJobs'
    <3>1. searches[j.b] # 0
      BY <2>0, <1>2, Facts DEF ChainInv, FirstSearch, SearchNumbers, Unasked, JobFacts
    <3>2. CASE kept' = kept \cup {Id(j)} /\ Moves(j, "fail", Named(j))
      <4>1. kept' = kept \cup {Id(j)}
        BY <3>2
      <4>2. \A c : c # j.b => KeptOf(c)' = KeptOf(c)
        BY <2>0, <4>1 DEF KeptOf, Id, RunAgain
      <4>3. \A i \in kept' : searches'[i[2]] # 0
        BY <2>1, <3>1, <4>1 DEF KeptJobs, Id
      <4>4. \A k \in jobs' : k.b \notin forked' /\ k.b = j.b => Ending(k)'
        BY <1>2, <1>3, <2>1, <3>2
           DEF ChainInv, OneChain, JobsOf, Moves, JobFacts, Ending, InListener, Id
      <4>5. \A k \in jobs' : k.b # j.b => k \in jobs
        BY <3>2 DEF Moves
      <4>6. \A k \in jobs : Ending(k) => Ending(k)'
        BY <4>1 DEF Ending, InListener
      <4> QED BY <2>1, <4>2, <4>3, <4>4, <4>5, <4>6 DEF KeptJobs
    <3>3. CASE kept' = kept /\ \E d : Moves(j, "queued", d)
      <4>1. ~Ending(j) /\ j.name # "return"
        BY <2>0 DEF Ending, RunAgain
      <4> QED BY <1>2, <1>3, <2>1, <3>3, <4>1, KeptStay DEF Moves, JobFacts
    <3> QED BY <2>0, RunAgainJobs, <3>2, <3>3
  <2>60. OffersOnlyGo
    BY <1>21 DEF OffersOnlyGo, Types, KeyTypes, NoOffer, WorkerDies, RunAgain
  <2>61. \A k \in jobs' : Times(k) =>
             k \in jobs \/ \E i \in jobs : Times(i) /\ i.b = k.b /\ i.d = k.d
    BY <2>0, RunAgainJobs DEF Moves, Times, Named
  <2>6. OfferOfChain'
    BY <1>3, <2>1, <2>60, <2>61, OffersFound DEF JobFacts
  <2>7. NeverForgotten'
    BY <2>2 DEF NeverForgotten
  <2> QED BY <2>4, <2>5, <2>6, <2>7 DEF WaitInv
<1>22. ASSUME NEW d \in Drivers, RideAccepted(d) PROVE WaitInv'
  <2>1. UNCHANGED <<searches, kept, forked>> /\ forked \subseteq forked'
    BY <1>22 DEF RideAccepted
  <2>2. crashes' = 0 => crashes = 0 /\ kept \subseteq kept'
    BY <1>22 DEF RideAccepted
  <2>3. \A c \in Bookings : /\ leg'[c] = "awaiting" => leg[c] = "awaiting"
                            /\ c \notin Dropped' => c \notin Dropped
    BY <1>22
       DEF Types, BookingTypes, RideAccepted, Answering, TakeLeg, ClearOffer,
           RunAgain
  <2>41. searching' \subseteq searching /\ crashes' = crashes
    BY <1>22 DEF RideAccepted, Answering, TakeLeg, ClearOffer
  <2>42. \A k \in jobs' : k.name = "search" /\ k.at = "queued" => k \in jobs
    BY <1>22 DEF Moves, Adds, RideAccepted
  <2>4. SearchLock'
    BY <2>1, <2>41, <2>42, LockMoved
  <2>5. KeptJobs'
    BY <1>22, <1>2, <1>3, <2>1, KeptStay DEF JobFacts, RideAccepted
  <2>60. OffersOnlyGo
    BY <1>22
       DEF OffersOnlyGo, Types, KeyTypes, NoOffer, RideAccepted, Answering, TakeLeg,
           ClearOffer
  <2>61. \A k \in jobs' : Times(k) =>
             k \in jobs \/ \E i \in jobs : Times(i) /\ i.b = k.b /\ i.d = k.d
    BY <1>22, <1>3 DEF JobFacts, RideAccepted
  <2>6. OfferOfChain'
    BY <1>3, <2>1, <2>60, <2>61, OffersFound DEF JobFacts
  <2>71. /\ kept \subseteq kept' /\ crashes' = crashes
         /\ \A c \in Bookings :
              searches[c] \in Nat /\ searches'[c] \in {searches[c], searches[c] + 1}
    BY <1>22 DEF RideAccepted, Types, RestTypes
  <2>72. \A c \in Bookings :
           /\ leg'[c] = "awaiting" /\ c \notin Dropped' /\ c \notin forked' /\ crashes' = 0
           /\ searches'[c] > 1 => KeptOf(c)' = {}
           /\ \E i \in jobs : i.b = c
           => \E k \in jobs' : k.b = c
    BY <1>22 DEF RideAccepted
  <2>7. NeverForgotten'
    BY <2>1, <2>3, <2>71, <2>72, WaitsOn
  <2> QED BY <2>4, <2>5, <2>6, <2>7 DEF WaitInv
<1>23. ASSUME NEW d \in Drivers, RideSettled(d) PROVE WaitInv'
  <2>1. UNCHANGED <<searches, kept, forked>> /\ forked \subseteq forked'
    BY <1>23 DEF RideSettled
  <2>2. crashes' = 0 => crashes = 0 /\ kept \subseteq kept'
    BY <1>23 DEF RideSettled
  <2>3. \A c \in Bookings : /\ leg'[c] = "awaiting" => leg[c] = "awaiting"
                            /\ c \notin Dropped' => c \notin Dropped
    BY <1>23 DEF Types, BookingTypes, RideSettled, Answering, Cleanup, RunAgain
  <2>41. searching' \subseteq searching /\ crashes' = crashes
    BY <1>23 DEF RideSettled, Answering, Cleanup
  <2>42. \A k \in jobs' : k.name = "search" /\ k.at = "queued" => k \in jobs
    BY <1>23 DEF Moves, Adds, RideSettled
  <2>4. SearchLock'
    BY <2>1, <2>41, <2>42, LockMoved
  <2>5. KeptJobs'
    BY <1>23, <1>2, <1>3, <2>1, KeptStay DEF JobFacts, RideSettled
  <2>60. OffersOnlyGo
    BY <1>23 DEF OffersOnlyGo, Types, KeyTypes, NoOffer, RideSettled, Answering, Cleanup
  <2>61. \A k \in jobs' : Times(k) =>
             k \in jobs \/ \E i \in jobs : Times(i) /\ i.b = k.b /\ i.d = k.d
    BY <1>23, <1>3 DEF JobFacts, RideSettled
  <2>6. OfferOfChain'
    BY <1>3, <2>1, <2>60, <2>61, OffersFound DEF JobFacts
  <2>71. /\ kept \subseteq kept' /\ crashes' = crashes
         /\ \A c \in Bookings :
              searches[c] \in Nat /\ searches'[c] \in {searches[c], searches[c] + 1}
    BY <1>23 DEF RideSettled, Types, RestTypes
  <2>72. \A c \in Bookings :
           /\ leg'[c] = "awaiting" /\ c \notin Dropped' /\ c \notin forked' /\ crashes' = 0
           /\ searches'[c] > 1 => KeptOf(c)' = {}
           /\ \E i \in jobs : i.b = c
           => \E k \in jobs' : k.b = c
    BY <1>23 DEF RideSettled
  <2>7. NeverForgotten'
    BY <2>1, <2>3, <2>71, <2>72, WaitsOn
  <2> QED BY <2>4, <2>5, <2>6, <2>7 DEF WaitInv
<1>24. ASSUME NEW d \in Drivers, OfferAccepted(d) PROVE WaitInv'
  <2>1. UNCHANGED <<searches, kept, forked>> /\ forked \subseteq forked'
    BY <1>24 DEF OfferAccepted
  <2>2. crashes' = 0 => crashes = 0 /\ kept \subseteq kept'
    BY <1>24 DEF OfferAccepted
  <2>3. \A c \in Bookings : /\ leg'[c] = "awaiting" => leg[c] = "awaiting"
                            /\ c \notin Dropped' => c \notin Dropped
    BY <1>24 DEF Types, BookingTypes, OfferAccepted, Answering, TakeLeg, RunAgain
  <2>41. searching' \subseteq searching /\ crashes' = crashes
    BY <1>24 DEF OfferAccepted, Answering, TakeLeg
  <2>42. \A k \in jobs' : k.name = "search" /\ k.at = "queued" => k \in jobs
    BY <1>24 DEF Moves, Adds, OfferAccepted
  <2>4. SearchLock'
    BY <2>1, <2>41, <2>42, LockMoved
  <2>5. KeptJobs'
    BY <1>24, <1>2, <1>3, <2>1, KeptStay DEF JobFacts, OfferAccepted
  <2>60. OffersOnlyGo
    BY <1>24
       DEF OffersOnlyGo, Types, KeyTypes, NoOffer, OfferAccepted, Answering, TakeLeg
  <2>61. \A k \in jobs' : Times(k) =>
             k \in jobs \/ \E i \in jobs : Times(i) /\ i.b = k.b /\ i.d = k.d
    BY <1>24, <1>3 DEF JobFacts, OfferAccepted
  <2>6. OfferOfChain'
    BY <1>3, <2>1, <2>60, <2>61, OffersFound DEF JobFacts
  <2>71. /\ kept \subseteq kept' /\ crashes' = crashes
         /\ \A c \in Bookings :
              searches[c] \in Nat /\ searches'[c] \in {searches[c], searches[c] + 1}
    BY <1>24 DEF OfferAccepted, Types, RestTypes
  <2>72. \A c \in Bookings :
           /\ leg'[c] = "awaiting" /\ c \notin Dropped' /\ c \notin forked' /\ crashes' = 0
           /\ searches'[c] > 1 => KeptOf(c)' = {}
           /\ \E i \in jobs : i.b = c
           => \E k \in jobs' : k.b = c
    BY <1>24 DEF OfferAccepted
  <2>7. NeverForgotten'
    BY <2>1, <2>3, <2>71, <2>72, WaitsOn
  <2> QED BY <2>4, <2>5, <2>6, <2>7 DEF WaitInv
<1>25. ASSUME NEW d \in Drivers, OfferSettled(d) PROVE WaitInv'
  <2>1. UNCHANGED <<searches, kept, forked>> /\ forked \subseteq forked'
    BY <1>25 DEF OfferSettled
  <2>2. crashes' = 0 => crashes = 0 /\ kept \subseteq kept'
    BY <1>25 DEF OfferSettled
  <2>3. \A c \in Bookings : /\ leg'[c] = "awaiting" => leg[c] = "awaiting"
                            /\ c \notin Dropped' => c \notin Dropped
    BY <1>25 DEF Types, BookingTypes, OfferSettled, Answering, RunAgain
  <2>41. searching' \subseteq searching /\ crashes' = crashes
    BY <1>25 DEF OfferSettled, Answering
  <2>42. \A k \in jobs' : k.name = "search" /\ k.at = "queued" => k \in jobs
    BY <1>25, OfferSettledJobs DEF Moves, Adds, OfferSettled
  <2>4. SearchLock'
    BY <2>1, <2>41, <2>42, LockMoved
  <2>5. KeptJobs'
    BY <1>25, OfferSettledJobs, <1>2, <1>3, <2>1, KeptStay DEF JobFacts, OfferSettled
  <2>60. OffersOnlyGo
    BY <1>25, <1>2, SettledOffers DEF ChainInv
  <2>61. \A k \in jobs' : Times(k) =>
             k \in jobs \/ \E i \in jobs : Times(i) /\ i.b = k.b /\ i.d = k.d
    BY <1>25, OfferSettledJobs, <1>3 DEF JobFacts, Moves, Adds, Times, OfferSettled
  <2>6. OfferOfChain'
    BY <1>3, <2>1, <2>60, <2>61, OffersFound DEF JobFacts
  <2>71. /\ kept \subseteq kept' /\ crashes' = crashes
         /\ \A c \in Bookings :
              searches[c] \in Nat /\ searches'[c] \in {searches[c], searches[c] + 1}
    BY <1>25 DEF OfferSettled, Types, RestTypes
  <2>72. \A c \in Bookings :
           /\ leg'[c] = "awaiting" /\ c \notin Dropped' /\ c \notin forked' /\ crashes' = 0
           /\ searches'[c] > 1 => KeptOf(c)' = {}
           /\ \E i \in jobs : i.b = c
           => \E k \in jobs' : k.b = c
    BY <1>25, <1>2, <2>3 DEF OfferSettled, Answering, ChainInv, TakenIsFinal, Id
  <2>7. NeverForgotten'
    BY <2>1, <2>3, <2>71, <2>72, WaitsOn
  <2> QED BY <2>4, <2>5, <2>6, <2>7 DEF WaitInv
<1>26. ASSUME NEW d \in Drivers, RideRejected(d) PROVE WaitInv'
  <2>1. UNCHANGED <<searches, kept>> /\ forked \subseteq forked'
    BY <1>26 DEF RideRejected
  <2>2. crashes' = 0 => crashes = 0 /\ kept \subseteq kept'
    BY <1>26 DEF RideRejected
  <2>3. \A c \in Bookings : /\ leg'[c] = "awaiting" => leg[c] = "awaiting"
                            /\ c \notin Dropped' => c \notin Dropped
    BY <1>26
       DEF Types, BookingTypes, RideRejected, Answering, ClearOffer, OfferTo,
           RunAgain
  <2>41. searching' \subseteq searching /\ crashes' = crashes
    BY <1>26 DEF RideRejected, Answering, ClearOffer, OfferTo
  <2>42. \A k \in jobs' : k.name = "search" /\ k.at = "queued" => k \in jobs
    BY <1>26, RideRejectedJobs DEF Moves, Adds
  <2>4. SearchLock'
    BY <2>1, <2>41, <2>42, LockMoved
  <2>5. KeptJobs'
    BY <1>26, RideRejectedJobs, <1>2, <1>3, <2>1, KeptStay
       DEF JobFacts, Ending, Adds, RideRejected
  <2>60. OffersOnlyGo
    BY <1>26, Facts
       DEF OffersOnlyGo, Types, KeyTypes, NoOffer, RideRejected, Answering,
           ClearOffer, OfferTo
  <2>61. \A k \in jobs' : Times(k) =>
             k \in jobs \/ \E i \in jobs : Times(i) /\ i.b = k.b /\ i.d = k.d
    BY <1>26, RideRejectedJobs DEF Adds, Times
  <2>6. OfferOfChain'
    BY <1>3, <2>1, <2>60, <2>61, OffersFound DEF JobFacts
  <2>71. /\ kept \subseteq kept' /\ crashes' = crashes
         /\ \A c \in Bookings :
              searches[c] \in Nat /\ searches'[c] \in {searches[c], searches[c] + 1}
    BY <1>26 DEF RideRejected, Types, RestTypes
  <2>72. \A c \in Bookings :
           /\ leg'[c] = "awaiting" /\ c \notin Dropped' /\ c \notin forked' /\ crashes' = 0
           /\ searches'[c] > 1 => KeptOf(c)' = {}
           /\ \E i \in jobs : i.b = c
           => \E k \in jobs' : k.b = c
    BY <1>26, RideRejectedJobs DEF Adds
  <2>7. NeverForgotten'
    BY <2>1, <2>3, <2>71, <2>72, WaitsOn
  <2> QED BY <2>4, <2>5, <2>6, <2>7 DEF WaitInv
<1>27. ASSUME NEW d \in Drivers, OfferRejected(d) PROVE WaitInv'
  <2>1. UNCHANGED <<searches, kept, forked>> /\ forked \subseteq forked'
    BY <1>27 DEF OfferRejected
  <2>2. crashes' = 0 => crashes = 0 /\ kept \subseteq kept'
    BY <1>27 DEF OfferRejected
  <2>3. \A c \in Bookings : /\ leg'[c] = "awaiting" => leg[c] = "awaiting"
                            /\ c \notin Dropped' => c \notin Dropped
    BY <1>27 DEF Types, BookingTypes, OfferRejected, Answering, RunAgain
  <2>41. searching' \subseteq searching /\ crashes' = crashes
    BY <1>27 DEF OfferRejected, Answering
  <2>42. \A k \in jobs' : k.name = "search" /\ k.at = "queued" => k \in jobs
    BY <1>27 DEF Moves, Adds, OfferRejected
  <2>4. SearchLock'
    BY <2>1, <2>41, <2>42, LockMoved
  <2>5. KeptJobs'
    BY <1>27, <1>2, <1>3, <2>1, KeptStay DEF JobFacts, OfferRejected
  <2>60. OffersOnlyGo
    BY <1>27, Facts DEF OffersOnlyGo, Types, KeyTypes, NoOffer, OfferRejected, Answering
  <2>61. \A k \in jobs' : Times(k) =>
             k \in jobs \/ \E i \in jobs : Times(i) /\ i.b = k.b /\ i.d = k.d
    BY <1>27, <1>3 DEF JobFacts, OfferRejected
  <2>6. OfferOfChain'
    BY <1>3, <2>1, <2>60, <2>61, OffersFound DEF JobFacts
  <2>71. /\ kept \subseteq kept' /\ crashes' = crashes
         /\ \A c \in Bookings :
              searches[c] \in Nat /\ searches'[c] \in {searches[c], searches[c] + 1}
    BY <1>27 DEF OfferRejected, Types, RestTypes
  <2>72. \A c \in Bookings :
           /\ leg'[c] = "awaiting" /\ c \notin Dropped' /\ c \notin forked' /\ crashes' = 0
           /\ searches'[c] > 1 => KeptOf(c)' = {}
           /\ \E i \in jobs : i.b = c
           => \E k \in jobs' : k.b = c
    BY <1>27 DEF OfferRejected
  <2>7. NeverForgotten'
    BY <2>1, <2>3, <2>71, <2>72, WaitsOn
  <2> QED BY <2>4, <2>5, <2>6, <2>7 DEF WaitInv
<1>28. ASSUME NEW d \in Drivers, GoOffline(d) PROVE WaitInv'
  <2>1. UNCHANGED <<searches, kept, forked>> /\ forked \subseteq forked'
    BY <1>28 DEF GoOffline
  <2>2. crashes' = 0 => crashes = 0 /\ kept \subseteq kept'
    BY <1>28 DEF GoOffline
  <2>3. \A c \in Bookings : /\ leg'[c] = "awaiting" => leg[c] = "awaiting"
                            /\ c \notin Dropped' => c \notin Dropped
    BY <1>28 DEF Types, BookingTypes, GoOffline, RunAgain
  <2>41. searching' \subseteq searching /\ crashes' = crashes
    BY <1>28 DEF GoOffline
  <2>42. \A k \in jobs' : k.name = "search" /\ k.at = "queued" => k \in jobs
    BY <1>28 DEF Moves, Adds, GoOffline
  <2>4. SearchLock'
    BY <2>1, <2>41, <2>42, LockMoved
  <2>5. KeptJobs'
    BY <1>28, <1>2, <1>3, <2>1, KeptStay DEF JobFacts, GoOffline
  <2>60. OffersOnlyGo
    BY <1>28 DEF OffersOnlyGo, Types, KeyTypes, NoOffer, GoOffline
  <2>61. \A k \in jobs' : Times(k) =>
             k \in jobs \/ \E i \in jobs : Times(i) /\ i.b = k.b /\ i.d = k.d
    BY <1>28, <1>3 DEF JobFacts, GoOffline
  <2>6. OfferOfChain'
    BY <1>3, <2>1, <2>60, <2>61, OffersFound DEF JobFacts
  <2>71. /\ kept \subseteq kept' /\ crashes' = crashes
         /\ \A c \in Bookings :
              searches[c] \in Nat /\ searches'[c] \in {searches[c], searches[c] + 1}
    BY <1>28 DEF GoOffline, Types, RestTypes
  <2>72. \A c \in Bookings :
           /\ leg'[c] = "awaiting" /\ c \notin Dropped' /\ c \notin forked' /\ crashes' = 0
           /\ searches'[c] > 1 => KeptOf(c)' = {}
           /\ \E i \in jobs : i.b = c
           => \E k \in jobs' : k.b = c
    BY <1>28 DEF GoOffline
  <2>7. NeverForgotten'
    BY <2>1, <2>3, <2>71, <2>72, WaitsOn
  <2> QED BY <2>4, <2>5, <2>6, <2>7 DEF WaitInv
<1>29. ASSUME NEW d \in Drivers, LockExpires(d) PROVE WaitInv'
  <2>1. UNCHANGED <<searches, kept, forked>> /\ forked \subseteq forked'
    BY <1>29 DEF LockExpires
  <2>2. crashes' = 0 => crashes = 0 /\ kept \subseteq kept'
    BY <1>29 DEF LockExpires
  <2>3. \A c \in Bookings : /\ leg'[c] = "awaiting" => leg[c] = "awaiting"
                            /\ c \notin Dropped' => c \notin Dropped
    BY <1>29 DEF Types, BookingTypes, LockExpires, RunAgain
  <2>41. searching' \subseteq searching /\ crashes' = crashes
    BY <1>29 DEF LockExpires
  <2>42. \A k \in jobs' : k.name = "search" /\ k.at = "queued" => k \in jobs
    BY <1>29 DEF Moves, Adds, LockExpires
  <2>4. SearchLock'
    BY <2>1, <2>41, <2>42, LockMoved
  <2>5. KeptJobs'
    BY <1>29, <1>2, <1>3, <2>1, KeptStay DEF JobFacts, LockExpires
  <2>60. OffersOnlyGo
    BY <1>29 DEF OffersOnlyGo, Types, KeyTypes, NoOffer, LockExpires
  <2>61. \A k \in jobs' : Times(k) =>
             k \in jobs \/ \E i \in jobs : Times(i) /\ i.b = k.b /\ i.d = k.d
    BY <1>29, <1>3 DEF JobFacts, LockExpires
  <2>6. OfferOfChain'
    BY <1>3, <2>1, <2>60, <2>61, OffersFound DEF JobFacts
  <2>71. /\ kept \subseteq kept' /\ crashes' = crashes
         /\ \A c \in Bookings :
              searches[c] \in Nat /\ searches'[c] \in {searches[c], searches[c] + 1}
    BY <1>29 DEF LockExpires, Types, RestTypes
  <2>72. \A c \in Bookings :
           /\ leg'[c] = "awaiting" /\ c \notin Dropped' /\ c \notin forked' /\ crashes' = 0
           /\ searches'[c] > 1 => KeptOf(c)' = {}
           /\ \E i \in jobs : i.b = c
           => \E k \in jobs' : k.b = c
    BY <1>29 DEF LockExpires
  <2>7. NeverForgotten'
    BY <2>1, <2>3, <2>71, <2>72, WaitsOn
  <2> QED BY <2>4, <2>5, <2>6, <2>7 DEF WaitInv
<1>30. ASSUME NEW d \in Drivers, NEW b \in Bookings, LateReject(d, b) PROVE WaitInv'
  <2>1. UNCHANGED <<searches, kept, forked>> /\ forked \subseteq forked'
    BY <1>30 DEF LateReject
  <2>2. crashes' = 0 => crashes = 0 /\ kept \subseteq kept'
    BY <1>30 DEF LateReject
  <2>3. \A c \in Bookings : /\ leg'[c] = "awaiting" => leg[c] = "awaiting"
                            /\ c \notin Dropped' => c \notin Dropped
    BY <1>30 DEF Types, BookingTypes, LateReject, RunAgain
  <2>41. searching' \subseteq searching /\ crashes' = crashes
    BY <1>30 DEF LateReject
  <2>42. \A k \in jobs' : k.name = "search" /\ k.at = "queued" => k \in jobs
    BY <1>30 DEF Moves, Adds, LateReject
  <2>4. SearchLock'
    BY <2>1, <2>41, <2>42, LockMoved
  <2>5. KeptJobs'
    BY <1>30, <1>2, <1>3, <2>1, KeptStay DEF JobFacts, LateReject
  <2>60. OffersOnlyGo
    BY <1>30 DEF OffersOnlyGo, Types, KeyTypes, NoOffer, LateReject
  <2>61. \A k \in jobs' : Times(k) =>
             k \in jobs \/ \E i \in jobs : Times(i) /\ i.b = k.b /\ i.d = k.d
    BY <1>30, <1>3 DEF JobFacts, LateReject
  <2>6. OfferOfChain'
    BY <1>3, <2>1, <2>60, <2>61, OffersFound DEF JobFacts
  <2>71. /\ kept \subseteq kept' /\ crashes' = crashes
         /\ \A c \in Bookings :
              searches[c] \in Nat /\ searches'[c] \in {searches[c], searches[c] + 1}
    BY <1>30 DEF LateReject, Types, RestTypes
  <2>72. \A c \in Bookings :
           /\ leg'[c] = "awaiting" /\ c \notin Dropped' /\ c \notin forked' /\ crashes' = 0
           /\ searches'[c] > 1 => KeptOf(c)' = {}
           /\ \E i \in jobs : i.b = c
           => \E k \in jobs' : k.b = c
    BY <1>30 DEF LateReject
  <2>7. NeverForgotten'
    BY <2>1, <2>3, <2>71, <2>72, WaitsOn
  <2> QED BY <2>4, <2>5, <2>6, <2>7 DEF WaitInv
<1>31. ASSUME NEW d \in Drivers, NEW b \in Bookings, NEW do \in Replies,
               ReadsOffer(d, b, do) PROVE WaitInv'
  <2>1. UNCHANGED <<searches, kept, forked>> /\ forked \subseteq forked'
    BY <1>31 DEF ReadsOffer, Ask
  <2>2. crashes' = 0 => crashes = 0 /\ kept \subseteq kept'
    BY <1>31 DEF ReadsOffer, Ask
  <2>3. \A c \in Bookings : /\ leg'[c] = "awaiting" => leg[c] = "awaiting"
                            /\ c \notin Dropped' => c \notin Dropped
    BY <1>31 DEF Types, BookingTypes, ReadsOffer, Ask, RunAgain
  <2>41. searching' \subseteq searching /\ crashes' = crashes
    BY <1>31 DEF ReadsOffer, Ask
  <2>42. \A k \in jobs' : k.name = "search" /\ k.at = "queued" => k \in jobs
    BY <1>31 DEF Moves, Adds, ReadsOffer, Ask
  <2>4. SearchLock'
    BY <2>1, <2>41, <2>42, LockMoved
  <2>5. KeptJobs'
    BY <1>31, <1>2, <1>3, <2>1, KeptStay DEF JobFacts, ReadsOffer, Ask
  <2>60. OffersOnlyGo
    BY <1>31 DEF OffersOnlyGo, Types, KeyTypes, NoOffer, ReadsOffer, Ask
  <2>61. \A k \in jobs' : Times(k) =>
             k \in jobs \/ \E i \in jobs : Times(i) /\ i.b = k.b /\ i.d = k.d
    BY <1>31, <1>3 DEF JobFacts, ReadsOffer, Ask
  <2>6. OfferOfChain'
    BY <1>3, <2>1, <2>60, <2>61, OffersFound DEF JobFacts
  <2>71. /\ kept \subseteq kept' /\ crashes' = crashes
         /\ \A c \in Bookings :
              searches[c] \in Nat /\ searches'[c] \in {searches[c], searches[c] + 1}
    BY <1>31 DEF ReadsOffer, Ask, Types, RestTypes
  <2>72. \A c \in Bookings :
           /\ leg'[c] = "awaiting" /\ c \notin Dropped' /\ c \notin forked' /\ crashes' = 0
           /\ searches'[c] > 1 => KeptOf(c)' = {}
           /\ \E i \in jobs : i.b = c
           => \E k \in jobs' : k.b = c
    BY <1>31 DEF ReadsOffer, Ask
  <2>7. NeverForgotten'
    BY <2>1, <2>3, <2>71, <2>72, WaitsOn
  <2> QED BY <2>4, <2>5, <2>6, <2>7 DEF WaitInv
<1>32. CASE UNCHANGED vars
  <2>1. UNCHANGED <<booking, keys, fleet, queue, request, history>>
    BY <1>32 DEF vars
  <2> QED BY <2>1
             DEF WaitInv, SearchLock, KeptJobs, KeptOf, Ending, InListener, OfferOfChain,
                 NeverForgotten,
             Awaiting, JobsOf, Times
<1> QED
  BY <1>4, <1>5, <1>6, <1>7, <1>8, <1>9, <1>10, <1>11, <1>12, <1>13, <1>14, <1>15,
     <1>16, <1>17, <1>18, <1>19, <1>19a, <1>20, <1>21, <1>22, <1>23, <1>24, <1>25, <1>26,
     <1>27, <1>28, <1>29, <1>30, <1>31, <1>32
  DEF Next, JobRuns, DriverReplies

------------------------------------------------------------------------------
(* Who is asked, and when the search gives up. *)

\* Nothing has failed yet.
Undisturbed == throws = 0 /\ crashes = 0

\* The job waits for the answer to its offer.
Expects(j) == j.at \in {"arm", "act"} \/ (j.name = "timeout" /\ j.at = "queued")

\* While nothing fails, an offer stands only as long as a job expects it, and
\* a search that ended, or begins, has no candidate.
Orderly ==
    Undisturbed =>
        /\ kept = {}
        /\ \A b \in Bookings \ forked :
              Awaiting(b) /\ (\A j \in jobs : j.b = b => ~Expects(j)) => offer[b].to = None
        /\ \A j \in jobs :
              Awaiting(j.b) /\ j.b \notin forked /\ (j.at = "fail" \/ j.name = "search")
                  => candidates[j.b] = {}

\* Two searches of the booking never met.
Apart(b) == b \in forked => searches[b] <= 1

\* A candidate was taken from the list, and not asked yet.
Picked(j) == j.at \in {"check", "write"}

\* Who was asked is no candidate, nor is who is about to be asked, and no two
\* jobs are about to ask the same driver.
Fairly ==
    /\ \A b \in Bookings : Apart(b) => candidates[b] \cap asked[b] = {}
    /\ \A j \in jobs : Apart(j.b) /\ Picked(j) => j.d \notin candidates[j.b] \cup asked[j.b]
    /\ \A j, k \in jobs : Apart(j.b) /\ Picked(j) /\ Picked(k) /\ j.b = k.b /\ j.d = k.d => j = k

\* What keeps anybody from being asked twice, and the search from ending early.
AskInv == Orderly /\ Fairly

\* A job that is new after a job was queued is that job.
LEMMA Added ==
    ASSUME NEW js, NEW name, NEW b, NEW n, NEW d, Adds(js, name, b, n, d)
    PROVE  \A k \in jobs' : k \in js \/ (k.at = "queued" /\ k.name = name /\ k.b = b)
  BY DEF Adds

\* A job that is new after a job went on is that job.
LEMMA Moved ==
    ASSUME NEW j, NEW at, NEW d, Moves(j, at, d)
    PROVE  \A k \in jobs' :
              k \in jobs \ {j} \/ (k.at = at /\ k.name = j.name /\ k.b = j.b /\ k.d = d)
  BY DEF Moves

\* It holds in the beginning.
LEMMA AskInit == Init => AskInv
  BY DEF Init, AskInv, Orderly, Fairly, Awaiting

\* Nothing new is asked for, nor is anybody.
LEMMA FairlyStays ==
    ASSUME Fairly, \A j \in jobs : j.b \in Bookings, UNCHANGED asked,
           \A c \in Bookings : Apart(c)' => Apart(c),
           \A c \in Bookings : candidates'[c] \subseteq candidates[c],
           \A k \in jobs' : Picked(k) => k \in jobs
    PROVE  Fairly'
<1>1. \A b \in Bookings : Apart(b)' => (candidates[b] \cap asked[b] = {})'
  BY DEF Fairly
<1>2. \A j \in jobs' : Apart(j.b)' /\ Picked(j) => j.d \notin (candidates[j.b] \cup asked[j.b])'
  BY DEF Fairly
<1>3. \A j, k \in jobs' :
         Apart(j.b)' /\ Picked(j) /\ Picked(k) /\ j.b = k.b /\ j.d = k.d => j = k
  BY DEF Fairly
<1> QED BY <1>1, <1>2, <1>3 DEF Fairly, Picked

\* An offer that stood without a job, or lost it, is gone.
LEMMA OrderlyStays ==
    ASSUME Orderly, OffersOnlyGo, \A j \in jobs : j.b \in Bookings,
           Undisturbed' => Undisturbed, kept' = kept, forked \subseteq forked',
           \A c \in Bookings : leg'[c] = "awaiting" /\ c \notin forked' =>
              /\ Awaiting(c) \/ (offer[c].to = None /\ candidates[c] = {})
              /\ candidates'[c] \subseteq candidates[c]
              /\ (\E i \in jobs : i.b = c /\ Expects(i)) =>
                    offer'[c].to = None \/ \E k \in jobs' : k.b = c /\ Expects(k),
           \A k \in jobs' : k.b \in Bookings /\ leg'[k.b] = "awaiting" /\ k.b \notin forked'
                            /\ (k.at = "fail" \/ k.name = "search") =>
              \/ candidates'[k.b] = {}
              \/ \E i \in jobs : i.b = k.b /\ (i.at = "fail" \/ i.name = "search"),
           \A k \in jobs' : k.b \in Bookings
    PROVE  Orderly'
<1> SUFFICES ASSUME Undisturbed' PROVE Orderly'
  BY DEF Orderly
<1>1. ASSUME NEW c \in Bookings, c \notin forked', Awaiting(c)',
             \A k \in jobs' : k.b = c => ~Expects(k)
      PROVE  offer'[c].to = None
  <2>1. CASE \E i \in jobs : i.b = c /\ Expects(i)
    BY <1>1, <2>1 DEF Awaiting
  <2>2. CASE \A i \in jobs : i.b = c => ~Expects(i)
    <3>1. offer[c].to = None
      BY <1>1, <2>2 DEF Orderly, Awaiting
    <3> QED BY <3>1 DEF OffersOnlyGo
  <2> QED BY <2>1, <2>2
<1>2. ASSUME NEW k \in jobs', Awaiting(k.b)', k.b \notin forked', k.at = "fail" \/ k.name = "search"
      PROVE  candidates'[k.b] = {}
  BY <1>2 DEF Orderly, Awaiting
<1> QED BY <1>1, <1>2 DEF Orderly, Expects
\* Every action keeps it.
LEMMA AskStep == Types /\ ChainInv /\ WaitInv /\ AskInv /\ [Next]_vars => AskInv'
<1> SUFFICES ASSUME Types, ChainInv, WaitInv, AskInv, [Next]_vars PROVE AskInv'
  OBVIOUS
<1> USE DEF keys, booking, fleet, queue, history, AskInv
<1>1. WaitInv
  OBVIOUS
<1>2. ChainInv
  OBVIOUS
<1>3. \A j \in jobs : JobFacts(j)
  BY Facts
<1>4. \A c \in Bookings : searches[c] \in Nat
  BY Facts
<1>5. ASSUME NEW b \in Bookings, PickupPaid(b) PROVE AskInv'
  <2>1. \A c \in Bookings : Apart(c)' => Apart(c)
    BY <1>5, <1>3 DEF Apart, PickupPaid, ScheduleSearch, Types, RestTypes
  <2>2. \A c \in Bookings : candidates'[c] \subseteq candidates[c]
    BY <1>5 DEF Types, KeyTypes, PickupPaid, ScheduleSearch
  <2>41. UNCHANGED asked /\ \A k \in jobs' : Picked(k) => k \in jobs
    BY <1>5, PickupPaidJobs DEF Picked, Moves, Adds, PickupPaid
  <2>4. Fairly'
    BY <1>3, <2>1, <2>2, <2>41, FairlyStays DEF JobFacts
  <2>5. Orderly'
    <3>1. UNCHANGED <<throws, crashes, kept>> /\ forked \subseteq forked'
      BY <1>5 DEF PickupPaid
    <3>2. \A k \in jobs' : k.b \in Bookings
      BY <1>3, PickupPaidJobs, <1>5, Added DEF JobFacts
    <3>3. /\ leg[b] = "none" /\ b \in Bookings /\ candidates'[b] = {}
          /\ \A c \in Bookings : c # b => leg'[c] = leg[c]
      BY <1>5 DEF PickupPaid, ScheduleSearch, Types, BookingTypes, KeyTypes
    <3>4. offer[b].to = None
      BY <1>2, <3>3 DEF ChainInv, NothingYet, FirstSearch, Unasked
    <3>5. \A k \in jobs' : k \in jobs \/ k.b = b
      BY <1>5, PickupPaidJobs DEF Adds
    <3>6. jobs \subseteq jobs'
      BY <1>5, PickupPaidJobs DEF Adds
    <3>7. UNCHANGED offer
      BY <1>5 DEF PickupPaid
    <3>8. \A j \in jobs : j.b # b
      BY <1>2, <3>3 DEF ChainInv, NothingYet, JobsOf
    <3> SUFFICES ASSUME Undisturbed' PROVE Orderly'
      BY DEF Orderly
    <3>9. \A c \in Bookings \ forked' :
            Awaiting(c)' /\ (\A k \in jobs' : k.b = c => ~Expects(k)) => offer'[c].to = None
      BY <3>1, <3>3, <3>4, <3>6, <3>7 DEF Orderly, Undisturbed, Awaiting
    <3>10. \A k \in jobs' : Awaiting(k.b)' /\ k.b \notin forked' /\ (k.at = "fail" \/ k.name = "search")
             => candidates'[k.b] = {}
      BY <1>3, <2>2, <3>1, <3>3, <3>5 DEF Orderly, Undisturbed, Awaiting, JobFacts
    <3> QED BY <3>1, <3>9, <3>10 DEF Orderly, Undisturbed, Expects
  <2> QED BY <2>4, <2>5 DEF AskInv
<1>6. ASSUME NEW b \in Bookings, ReturnRequested(b) PROVE AskInv'
  <2>1. \A c \in Bookings : Apart(c)' => Apart(c)
    BY <1>6, <1>3 DEF Apart, ReturnRequested, Types, RestTypes
  <2>2. \A c \in Bookings : candidates'[c] \subseteq candidates[c]
    BY <1>6 DEF Types, KeyTypes, ReturnRequested
  <2>40. UNCHANGED asked
    BY <1>6 DEF ReturnRequested
  <2>41. UNCHANGED asked /\ \A k \in jobs' : Picked(k) => k \in jobs
    BY <1>6, ReturnRequestedJobs, <2>40, Added DEF Picked
  <2>4. Fairly'
    BY <1>3, <2>1, <2>2, <2>41, FairlyStays DEF JobFacts
  <2>5. Orderly'
    <3>1. UNCHANGED <<throws, crashes, kept>> /\ forked \subseteq forked'
      BY <1>6 DEF ReturnRequested
    <3>2. \A k \in jobs' : k.b \in Bookings
      BY <1>3, ReturnRequestedJobs, <1>6, Added DEF JobFacts
    <3>3. /\ b \in Bookings /\ leg[b] \in {"none", "awaiting"}
          /\ \A c \in Bookings : c # b => leg'[c] = leg[c]
      BY <1>6 DEF ReturnRequested, Types, BookingTypes
    <3>4. leg[b] = "none" => offer[b].to = None
      BY <1>2, <3>3 DEF ChainInv, NothingYet, FirstSearch, Unasked
    <3>5. \A k \in jobs' : k \in jobs \/ (k.at = "queued" /\ k.name = "return")
      BY <1>6, ReturnRequestedJobs DEF Adds
    <3>6. jobs \subseteq jobs'
      BY <1>6, ReturnRequestedJobs DEF Adds
    <3>7. UNCHANGED <<offer, candidates>>
      BY <1>6 DEF ReturnRequested
    <3>8. leg[b] = "none" => \A j \in jobs : j.b # b
      BY <1>2, <3>3 DEF ChainInv, NothingYet, JobsOf
    <3> SUFFICES ASSUME Undisturbed' PROVE Orderly'
      BY DEF Orderly
    <3>9. \A c \in Bookings \ forked' :
            Awaiting(c)' /\ (\A k \in jobs' : k.b = c => ~Expects(k)) => offer'[c].to = None
      BY <3>1, <3>3, <3>4, <3>6, <3>7 DEF Orderly, Undisturbed, Awaiting
    <3>10. \A k \in jobs' : Awaiting(k.b)' /\ k.b \notin forked' /\ (k.at = "fail" \/ k.name = "search")
             => candidates'[k.b] = {}
      BY <1>3, <3>1, <3>3, <3>5, <3>7, <3>8 DEF Orderly, Undisturbed, Awaiting, JobFacts
    <3> QED BY <3>1, <3>9, <3>10 DEF Orderly, Undisturbed, Expects
  <2> QED BY <2>4, <2>5 DEF AskInv
<1>7. ASSUME NEW b \in Bookings, UserCancels(b) PROVE AskInv'
  <2>1. \A c \in Bookings : Apart(c)' => Apart(c)
    BY <1>7, <1>3 DEF Apart, UserCancels
  <2>2. \A c \in Bookings : candidates'[c] \subseteq candidates[c]
    BY <1>7 DEF Types, KeyTypes, UserCancels
  <2>41. UNCHANGED asked /\ \A k \in jobs' : Picked(k) => k \in jobs
    BY <1>7 DEF Picked, Moves, Adds, UserCancels
  <2>4. Fairly'
    BY <1>3, <2>1, <2>2, <2>41, FairlyStays DEF JobFacts
  <2>5. Orderly'
    <3>1. UNCHANGED <<throws, crashes, kept>> /\ forked \subseteq forked'
      BY <1>7 DEF UserCancels
    <3>2. \A k \in jobs' : k.b \in Bookings
      BY <1>3, <1>7 DEF JobFacts, UserCancels
    <3>3. OffersOnlyGo
      BY <1>7 DEF OffersOnlyGo, Types, KeyTypes, NoOffer, UserCancels
    <3>4. \A c \in Bookings : leg'[c] = "awaiting" => Awaiting(c)
      BY <1>7 DEF Awaiting, Types, BookingTypes, UserCancels
    <3>5. \A c \in Bookings : leg'[c] = "awaiting" /\ c \notin forked' /\ Undisturbed
            /\ (\E i \in jobs : i.b = c /\ Expects(i)) =>
                 offer'[c].to = None \/ \E k \in jobs' : k.b = c /\ Expects(k)
      BY <1>7 DEF UserCancels
    <3>6. \A k \in jobs' : k.b \in Bookings /\ leg'[k.b] = "awaiting" /\ k.b \notin forked'
            /\ (k.at = "fail" \/ k.name = "search") =>
               \/ candidates'[k.b] = {}
               \/ \E i \in jobs : i.b = k.b /\ (i.at = "fail" \/ i.name = "search")
      BY <1>7 DEF Moves, Adds, UserCancels
    <3>7. Undisturbed' => Undisturbed
      BY <3>1 DEF Undisturbed
    <3>8. CASE ~Undisturbed
      BY <3>7, <3>8 DEF Orderly
    <3>9. CASE Undisturbed
      BY <1>3, <2>2, <3>1, <3>2, <3>3, <3>4, <3>5, <3>6, <3>7, <3>9, OrderlyStays
         DEF JobFacts
    <3> QED BY <3>8, <3>9
  <2> QED BY <2>4, <2>5 DEF AskInv
<1>8. ASSUME NEW b \in Bookings, OfferExpires(b) PROVE AskInv'
  <2>1. \A c \in Bookings : Apart(c)' => Apart(c)
    BY <1>8, <1>3 DEF Apart, OfferExpires
  <2>2. \A c \in Bookings : candidates'[c] \subseteq candidates[c]
    BY <1>8 DEF Types, KeyTypes, OfferExpires
  <2>41. UNCHANGED asked /\ \A k \in jobs' : Picked(k) => k \in jobs
    BY <1>8 DEF Picked, Moves, Adds, OfferExpires
  <2>4. Fairly'
    BY <1>3, <2>1, <2>2, <2>41, FairlyStays DEF JobFacts
  <2>5. Orderly'
    <3>1. UNCHANGED <<throws, crashes, kept>> /\ forked \subseteq forked'
      BY <1>8 DEF OfferExpires
    <3>2. \A k \in jobs' : k.b \in Bookings
      BY <1>3, <1>8 DEF JobFacts, OfferExpires
    <3>3. OffersOnlyGo
      BY <1>8 DEF OffersOnlyGo, Types, KeyTypes, NoOffer, OfferExpires
    <3>4. \A c \in Bookings : leg'[c] = "awaiting" => Awaiting(c)
      BY <1>8 DEF Awaiting, Types, BookingTypes, OfferExpires
    <3>5. \A c \in Bookings : leg'[c] = "awaiting" /\ c \notin forked' /\ Undisturbed
            /\ (\E i \in jobs : i.b = c /\ Expects(i)) =>
                 offer'[c].to = None \/ \E k \in jobs' : k.b = c /\ Expects(k)
      BY <1>8 DEF OfferExpires
    <3>6. \A k \in jobs' : k.b \in Bookings /\ leg'[k.b] = "awaiting" /\ k.b \notin forked'
            /\ (k.at = "fail" \/ k.name = "search") =>
               \/ candidates'[k.b] = {}
               \/ \E i \in jobs : i.b = k.b /\ (i.at = "fail" \/ i.name = "search")
      BY <1>8 DEF Moves, Adds, OfferExpires
    <3>7. Undisturbed' => Undisturbed
      BY <3>1 DEF Undisturbed
    <3>8. CASE ~Undisturbed
      BY <3>7, <3>8 DEF Orderly
    <3>9. CASE Undisturbed
      BY <1>3, <2>2, <3>1, <3>2, <3>3, <3>4, <3>5, <3>6, <3>7, <3>9, OrderlyStays
         DEF JobFacts
    <3> QED BY <3>8, <3>9
  <2> QED BY <2>4, <2>5 DEF AskInv
<1>9. ASSUME NEW j \in jobs, ReturnJob(j) PROVE AskInv'
  <2>1. \A c \in Bookings : Apart(c)' => Apart(c)
    BY <1>9, <1>3 DEF Apart, ReturnJob, ScheduleSearch, Types, RestTypes
  <2>2. \A c \in Bookings : candidates'[c] \subseteq candidates[c]
    BY <1>9 DEF Types, KeyTypes, ReturnJob, ScheduleSearch, Done
  <2>41. UNCHANGED asked /\ \A k \in jobs' : Picked(k) => k \in jobs
    BY <1>9, ReturnJobJobs DEF Picked, Moves, Adds, ReturnJob
  <2>4. Fairly'
    BY <1>3, <2>1, <2>2, <2>41, FairlyStays DEF JobFacts
  <2>5. Orderly'
    <3>1. UNCHANGED <<throws, crashes, kept>> /\ forked \subseteq forked'
      BY <1>9 DEF ReturnJob
    <3>2. \A k \in jobs' : k.b \in Bookings
      BY <1>3, ReturnJobJobs, <1>9 DEF JobFacts, Moves, Adds, ReturnJob
    <3>3. OffersOnlyGo
      BY <1>9
         DEF OffersOnlyGo, Types, KeyTypes, NoOffer, ReturnJob, ScheduleSearch, Done
    <3>4. \A c \in Bookings : leg'[c] = "awaiting" => Awaiting(c)
      BY <1>9 DEF Awaiting, Types, BookingTypes, ReturnJob, ScheduleSearch, Done
    <3>5. \A c \in Bookings : leg'[c] = "awaiting" /\ c \notin forked' /\ Undisturbed
            /\ (\E i \in jobs : i.b = c /\ Expects(i)) =>
                 offer'[c].to = None \/ \E k \in jobs' : k.b = c /\ Expects(k)
      BY <1>9, ReturnJobJobs, <1>3 DEF Moves, Adds, Expects, ReturnJob, JobFacts, Done
    <3>6. ASSUME NEW k \in jobs', k.at = "fail" \/ k.name = "search"
          PROVE  candidates'[k.b] = {} \/ \E i \in jobs : i.b = k.b /\ (i.at = "fail" \/ i.name = "search")
      <4>1. CASE k \in jobs
        BY <3>6, <4>1
      <4>2. CASE k \notin jobs
        <5>1. Awaiting(j.b) /\ k.b = j.b
          BY <1>9, ReturnJobJobs, <4>2 DEF Adds
        <5>2. candidates'[j.b] = {}
          BY <1>9, <1>3, <5>1 DEF ReturnJob, ScheduleSearch, Types, KeyTypes, JobFacts
        <5> QED BY <5>1, <5>2
      <4> QED BY <4>1, <4>2
    <3>7. Undisturbed' => Undisturbed
      BY <3>1 DEF Undisturbed
    <3>8. CASE ~Undisturbed
      BY <3>7, <3>8 DEF Orderly
    <3>9. CASE Undisturbed
      BY <1>3, <2>2, <3>1, <3>2, <3>3, <3>4, <3>5, <3>6, <3>7, <3>9, OrderlyStays
         DEF JobFacts
    <3> QED BY <3>8, <3>9
  <2> QED BY <2>4, <2>5 DEF AskInv
<1>10. ASSUME NEW j \in jobs, SearchBegins(j) PROVE AskInv'
  <2>1. \A c \in Bookings : Apart(c)' => Apart(c)
    BY <1>10, <1>3 DEF Apart, SearchBegins
  <2>2. \A c \in Bookings : candidates'[c] \subseteq candidates[c]
    BY <1>10 DEF Types, KeyTypes, SearchBegins, Done
  <2>41. UNCHANGED asked /\ \A k \in jobs' : Picked(k) => k \in jobs
    BY <1>10, SearchBeginsJobs DEF Picked, Moves, Adds, SearchBegins
  <2>4. Fairly'
    BY <1>3, <2>1, <2>2, <2>41, FairlyStays DEF JobFacts
  <2>5. Orderly'
    <3>1. UNCHANGED <<throws, crashes, kept>> /\ forked \subseteq forked'
      BY <1>10 DEF SearchBegins
    <3>2. \A k \in jobs' : k.b \in Bookings
      BY <1>3, SearchBeginsJobs, <1>10 DEF JobFacts, Moves, Adds, SearchBegins
    <3>3. OffersOnlyGo
      BY <1>10 DEF OffersOnlyGo, Types, KeyTypes, NoOffer, SearchBegins, Done
    <3>4. \A c \in Bookings : leg'[c] = "awaiting" => Awaiting(c)
      BY <1>10 DEF Awaiting, Types, BookingTypes, SearchBegins, Done
    <3>5. \A c \in Bookings : leg'[c] = "awaiting" /\ c \notin forked' /\ Undisturbed
            /\ (\E i \in jobs : i.b = c /\ Expects(i)) =>
                 offer'[c].to = None \/ \E k \in jobs' : k.b = c /\ Expects(k)
      BY <1>10, SearchBeginsJobs, <1>3
         DEF Moves, Adds, Expects, SearchBegins, JobFacts, Done
    <3>6. \A k \in jobs' : k.b \in Bookings /\ leg'[k.b] = "awaiting" /\ k.b \notin forked'
            /\ (k.at = "fail" \/ k.name = "search") =>
               \/ candidates'[k.b] = {}
               \/ \E i \in jobs : i.b = k.b /\ (i.at = "fail" \/ i.name = "search")
      BY <1>10, SearchBeginsJobs DEF Moves, Adds, SearchBegins
    <3>7. Undisturbed' => Undisturbed
      BY <3>1 DEF Undisturbed
    <3>8. CASE ~Undisturbed
      BY <3>7, <3>8 DEF Orderly
    <3>9. CASE Undisturbed
      BY <1>3, <2>2, <3>1, <3>2, <3>3, <3>4, <3>5, <3>6, <3>7, <3>9, OrderlyStays
         DEF JobFacts
    <3> QED BY <3>8, <3>9
  <2> QED BY <2>4, <2>5 DEF AskInv
<1>11. ASSUME NEW j \in jobs, SearchFinds(j) PROVE AskInv'
  <2>1. \A c \in Bookings : Apart(c)' => Apart(c)
    BY <1>11, <1>3 DEF Apart, SearchFinds
  <2>3. j \in jobs /\ JobFacts(j) /\ j.b \in Bookings
    BY <1>11, <1>3 DEF JobFacts
  <2>4. Fairly'
    <3>1. CASE UNCHANGED <<asked, candidates>>
      <4>1. \A k \in jobs' : Picked(k) => k \in jobs
        BY <1>11, SearchFindsJobs DEF Moves, Adds, Picked
      <4> QED BY <1>3, <2>1, <3>1, <4>1, FairlyStays DEF JobFacts
    <3>2. CASE ~UNCHANGED <<asked, candidates>>
      <4>1. /\ asked' = [asked EXCEPT ![j.b] = {}]
            /\ \A c \in Bookings : c # j.b => candidates'[c] = candidates[c]
        BY <1>11, <2>3, <3>2 DEF SearchFinds, Types, KeyTypes
      <4>2. \A c \in Bookings : asked'[c] = IF c = j.b THEN {} ELSE asked[c]
        BY <2>3, <4>1 DEF Types, RestTypes
      <4>3. \A k \in jobs' : Picked(k) => k \in jobs \ {j}
        BY <1>11, SearchFindsJobs DEF Moves, Adds, Picked
      <4>4. ASSUME NEW k \in jobs \ {j}, Picked(k), k.b = j.b, Apart(j.b) PROVE FALSE
        <5>1. k.name = "offer" /\ JobFacts(k) /\ j.name = "search"
          BY <1>11, <1>3, <4>4 DEF JobFacts, Picked, SearchFinds
        <5>2. CASE j.b \in forked
          <6>1. searches[j.b] = 1
            BY <1>2, <1>4, <2>3, <4>4, <5>1, <5>2
               DEF Apart, ChainInv, SearchNumbers, JobFacts
          <6>2. Unasked(j.b)
            BY <1>2, <2>3, <5>1, <6>1 DEF ChainInv, FirstSearch
          <6> QED BY <4>4, <5>1, <6>2 DEF Unasked
        <5>3. CASE j.b \notin forked
          BY <1>2, <2>3, <4>4, <5>3 DEF ChainInv, OneChain, JobsOf
        <5> QED BY <5>2, <5>3
      <4>5. \A c \in Bookings : Apart(c)' => (candidates[c] \cap asked[c] = {})'
        BY <2>1, <4>1, <4>2 DEF Fairly
      <4>6. \A k \in jobs' : Apart(k.b)' /\ Picked(k) => k.b # j.b /\ k \in jobs /\ k.b \in Bookings
        BY <1>3, <2>1, <2>3, <4>3, <4>4 DEF JobFacts
      <4>7. \A k \in jobs' : Apart(k.b)' /\ Picked(k) => k.d \notin (candidates[k.b] \cup asked[k.b])'
        BY <2>1, <4>1, <4>2, <4>6 DEF Fairly
      <4>8. \A i, k \in jobs' :
              Apart(i.b)' /\ Picked(i) /\ Picked(k) /\ i.b = k.b /\ i.d = k.d => i = k
        BY <2>1, <4>6 DEF Fairly
      <4> QED BY <4>5, <4>7, <4>8 DEF Fairly, Picked
    <3> QED BY <3>1, <3>2
  <2>5. Orderly'
    <3>1. UNCHANGED <<throws, crashes, kept>> /\ forked \subseteq forked'
      BY <1>11 DEF SearchFinds
    <3>2. \A k \in jobs' : k.b \in Bookings
      BY <1>3, SearchFindsJobs, <1>11 DEF JobFacts, Moves, Adds, SearchFinds
    <3>3. OffersOnlyGo
      BY <1>11 DEF OffersOnlyGo, Types, KeyTypes, NoOffer, SearchFinds, OfferTo
    <3>4. \A c \in Bookings : leg'[c] = "awaiting" => Awaiting(c)
      BY <1>11 DEF Awaiting, Types, BookingTypes, SearchFinds, OfferTo
    <3>5. \A c \in Bookings : leg'[c] = "awaiting" /\ c \notin forked' /\ Undisturbed
            /\ (\E i \in jobs : i.b = c /\ Expects(i)) =>
                 offer'[c].to = None \/ \E k \in jobs' : k.b = c /\ Expects(k)
      BY <1>11, SearchFindsJobs, <1>3 DEF Moves, Adds, Expects, SearchFinds, JobFacts
    <3> SUFFICES ASSUME Undisturbed' PROVE Orderly'
      BY DEF Orderly
    <3>9. \A c \in Bookings \ forked' :
            Awaiting(c)' /\ (\A k \in jobs' : k.b = c => ~Expects(k)) => offer'[c].to = None
      BY <1>11, <3>1, <3>3, <3>4, <3>5
         DEF Orderly, Undisturbed, Awaiting, OffersOnlyGo, SearchFinds
    <3>6. \A c \in Bookings : c # j.b => candidates'[c] = candidates[c]
      BY <1>11, <2>3 DEF SearchFinds, Types, KeyTypes
    <3>7. \A m \in jobs \ {j} : j.b \notin forked => m.b # j.b
      BY <1>2, <2>3 DEF ChainInv, OneChain, JobsOf
    <3>8. \/ candidates' = candidates
          \/ \A k \in jobs' : k.at = "fail" \/ k.name = "search" => k \in jobs \ {j}
      <4>1. CASE UNCHANGED candidates
        BY <4>1
      <4>2. CASE jobs' = Put(jobs \ {j}, OfferTo(j.b, 1))
        <5>1. j.b \in Bookings /\ 1 \in Nat /\ None \in Drivers \cup {None}
          BY <2>3
        <5>2. Adds(jobs \ {j}, "offer", j.b, 1, None)
          BY <4>2, <5>1, Queued DEF OfferTo
        <5> QED BY <5>2, Added
      <4> QED BY <1>11, <4>1, <4>2 DEF SearchFinds
    <3>11. forked' = forked /\ \A k \in jobs' : k \in jobs \ {j} \/ k.b = j.b
      BY <1>11, SearchFindsJobs DEF SearchFinds, Adds, Moves
    <3>10. \A k \in jobs' : Awaiting(k.b)' /\ k.b \notin forked' /\ (k.at = "fail" \/ k.name = "search")
             => candidates'[k.b] = {}
      <4> SUFFICES ASSUME NEW k \in jobs', Awaiting(k.b)', k.b \notin forked',
                          k.at = "fail" \/ k.name = "search"
                   PROVE  candidates'[k.b] = {}
        OBVIOUS
      <4>1. CASE k.b # j.b
        BY <1>3, <3>1, <3>2, <3>4, <3>6, <3>11, <4>1
           DEF Orderly, Undisturbed, Awaiting, JobFacts
      <4>2. CASE k.b = j.b
        <5>1. candidates' = candidates
          BY <3>7, <3>8, <3>11, <4>2
        <5>2. candidates[j.b] = {}
          BY <1>11, <2>3, <3>1, <3>4, <3>11, <4>2
             DEF Orderly, Undisturbed, Awaiting, SearchFinds
        <5> QED BY <4>2, <5>1, <5>2
      <4> QED BY <4>1, <4>2
    <3>12. throws' = throws /\ crashes' = crashes /\ kept' = kept
      BY <3>1
    <3> QED BY <3>9, <3>10, <3>12 DEF Orderly, Undisturbed, Expects
  <2> QED BY <2>4, <2>5 DEF AskInv
<1>12. ASSUME NEW j \in jobs, OfferBegins(j) PROVE AskInv'
  <2>1. \A c \in Bookings : Apart(c)' => Apart(c)
    BY <1>12, <1>3 DEF Apart, OfferBegins
  <2>2. \A c \in Bookings : candidates'[c] \subseteq candidates[c]
    BY <1>12 DEF Types, KeyTypes, OfferBegins, Done, Cleanup
  <2>41. UNCHANGED asked /\ \A k \in jobs' : Picked(k) => k \in jobs
    BY <1>12, OfferBeginsJobs DEF Picked, Moves, Adds, OfferBegins
  <2>4. Fairly'
    BY <1>3, <2>1, <2>2, <2>41, FairlyStays DEF JobFacts
  <2>5. Orderly'
    <3>1. UNCHANGED <<throws, crashes, kept>> /\ forked \subseteq forked'
      BY <1>12 DEF OfferBegins
    <3>2. \A k \in jobs' : k.b \in Bookings
      BY <1>3, OfferBeginsJobs, <1>12 DEF JobFacts, Moves, Adds, OfferBegins
    <3>3. OffersOnlyGo
      BY <1>12 DEF OffersOnlyGo, Types, KeyTypes, NoOffer, OfferBegins, Done, Cleanup
    <3>4. \A c \in Bookings : leg'[c] = "awaiting" => Awaiting(c)
      BY <1>12 DEF Awaiting, Types, BookingTypes, OfferBegins, Done, Cleanup
    <3>5. \A c \in Bookings : leg'[c] = "awaiting" /\ c \notin forked' /\ Undisturbed
            /\ (\E i \in jobs : i.b = c /\ Expects(i)) =>
                 offer'[c].to = None \/ \E k \in jobs' : k.b = c /\ Expects(k)
      BY <1>12, OfferBeginsJobs, <1>3
         DEF Moves, Adds, Expects, OfferBegins, JobFacts, Done
    <3>6. \A k \in jobs' : k.b \in Bookings /\ leg'[k.b] = "awaiting" /\ k.b \notin forked'
            /\ (k.at = "fail" \/ k.name = "search") =>
               \/ candidates'[k.b] = {}
               \/ \E i \in jobs : i.b = k.b /\ (i.at = "fail" \/ i.name = "search")
      BY <1>12, OfferBeginsJobs DEF Moves, Adds, OfferBegins
    <3>7. Undisturbed' => Undisturbed
      BY <3>1 DEF Undisturbed
    <3>8. CASE ~Undisturbed
      BY <3>7, <3>8 DEF Orderly
    <3>9. CASE Undisturbed
      BY <1>3, <2>2, <3>1, <3>2, <3>3, <3>4, <3>5, <3>6, <3>7, <3>9, OrderlyStays
         DEF JobFacts
    <3> QED BY <3>8, <3>9
  <2> QED BY <2>4, <2>5 DEF AskInv
<1>13. ASSUME NEW j \in jobs, PopCandidate(j) PROVE AskInv'
  <2>1. \A c \in Bookings : Apart(c)' => Apart(c)
    BY <1>13, <1>3 DEF Apart, PopCandidate
  <2>2. \A c \in Bookings : candidates'[c] \subseteq candidates[c]
    BY <1>13 DEF Types, KeyTypes, PopCandidate
  <2>3. j \in jobs /\ JobFacts(j) /\ j.b \in Bookings
    BY <1>13, <1>3 DEF JobFacts
  <2>4. Fairly'
    <3>1. UNCHANGED asked
      BY <1>13 DEF PopCandidate
    <3>2. CASE Moves(j, "fail", Named(j))
      BY <1>3, <2>1, <2>2, <3>1, <3>2, FairlyStays DEF Moves, Picked, JobFacts
    <3>3. ASSUME NEW d \in candidates[j.b], Step(j, "check", d),
                 candidates' = [candidates EXCEPT ![j.b] = @ \ {d}]
          PROVE  Fairly'
      <4>1. d \in Drivers /\ d \notin candidates'[j.b]
        BY <2>3, <3>3 DEF Types, KeyTypes
      <4>2. PICK k : /\ k.b = j.b /\ k.d = d /\ jobs' = (jobs \ {j}) \cup {k}
        BY <1>13, <2>3, <3>3, <4>1, Stepped DEF PopCandidate, Moves, JobFacts, Places
      <4>3. \A c \in Bookings : Apart(c)' => (candidates[c] \cap asked[c] = {})'
        BY <2>1, <2>2, <3>1 DEF Fairly
      <4>4. Apart(j.b) => d \notin asked[j.b]
        BY <2>3, <3>3 DEF Fairly
      <4>5. \A i \in jobs : Apart(j.b) /\ Picked(i) /\ i.b = j.b => i.d # d
        BY <2>3, <3>3 DEF Fairly
      <4>6. \A i \in jobs' : Apart(i.b)' /\ Picked(i) => i.d \notin (candidates[i.b] \cup asked[i.b])'
        BY <1>3, <2>1, <2>2, <2>3, <3>1, <4>1, <4>2, <4>4 DEF Fairly, JobFacts
      <4>7. \A i, m \in jobs' :
              Apart(i.b)' /\ Picked(i) /\ Picked(m) /\ i.b = m.b /\ i.d = m.d => i = m
        BY <1>3, <2>1, <2>3, <4>2, <4>5 DEF Fairly, JobFacts
      <4> QED BY <4>3, <4>6, <4>7 DEF Fairly, Picked
    <3> QED BY <1>13, <2>3, <3>2, <3>3, Stepped DEF PopCandidate, Places, JobFacts, Named
  <2>5. Orderly'
    <3>1. UNCHANGED <<throws, crashes, kept>> /\ forked \subseteq forked'
      BY <1>13 DEF PopCandidate
    <3>2. \A k \in jobs' : k.b \in Bookings
      BY <1>3, PopCandidateJobs, <1>13 DEF JobFacts, Moves, Adds, PopCandidate
    <3>3. OffersOnlyGo
      BY <1>13 DEF OffersOnlyGo, Types, KeyTypes, NoOffer, PopCandidate
    <3>4. \A c \in Bookings : leg'[c] = "awaiting" => Awaiting(c)
      BY <1>13 DEF Awaiting, Types, BookingTypes, PopCandidate
    <3>5. \A c \in Bookings : leg'[c] = "awaiting" /\ c \notin forked' /\ Undisturbed
            /\ (\E i \in jobs : i.b = c /\ Expects(i)) =>
                 offer'[c].to = None \/ \E k \in jobs' : k.b = c /\ Expects(k)
      BY <1>13, PopCandidateJobs, <1>3 DEF Moves, Adds, Expects, PopCandidate, JobFacts
    <3>6. ASSUME NEW k \in jobs', k.at = "fail" \/ k.name = "search"
          PROVE  candidates'[k.b] = {} \/ \E i \in jobs : i.b = k.b /\ (i.at = "fail" \/ i.name = "search")
      <4>1. CASE k \in jobs
        BY <3>6, <4>1
      <4>2. CASE k \notin jobs
        <5>1. k.b = j.b /\ JobFacts(j) /\ j.name \in {"offer", "timeout"}
          BY <1>13, PopCandidateJobs, <1>3, <4>2, Moved, Added DEF PopCandidate
        <5>2. candidates[j.b] # {} => FALSE
          <6>1. ASSUME NEW d \in candidates[j.b], Step(j, "check", d) PROVE FALSE
            <7>1. d \in Drivers /\ j.name = "offer"
              BY <1>13, <5>1, <6>1 DEF Types, KeyTypes, JobFacts, PopCandidate
            <7>2. Moves(j, "check", d)
              BY <5>1, <6>1, <7>1, Stepped DEF Places, JobFacts
            <7> QED BY <3>6, <4>2, <5>1, <7>1, <7>2, Moved
          <6> QED BY <1>13, <6>1 DEF PopCandidate
        <5> QED BY <1>13, <5>1, <5>2 DEF PopCandidate
      <4> QED BY <4>1, <4>2
    <3>7. Undisturbed' => Undisturbed
      BY <3>1 DEF Undisturbed
    <3>8. CASE ~Undisturbed
      BY <3>7, <3>8 DEF Orderly
    <3>9. CASE Undisturbed
      BY <1>3, <2>2, <3>1, <3>2, <3>3, <3>4, <3>5, <3>6, <3>7, <3>9, OrderlyStays
         DEF JobFacts
    <3> QED BY <3>8, <3>9
  <2> QED BY <2>4, <2>5 DEF AskInv
<1>14. ASSUME NEW j \in jobs, CheckCandidate(j) PROVE AskInv'
  <2>1. \A c \in Bookings : Apart(c)' => Apart(c)
    BY <1>14, <1>3 DEF Apart, CheckCandidate
  <2>2. \A c \in Bookings : candidates'[c] \subseteq candidates[c]
    BY <1>14 DEF Types, KeyTypes, CheckCandidate
  <2>3. j \in jobs /\ JobFacts(j) /\ j.b \in Bookings
    BY <1>14, <1>3 DEF JobFacts
  <2>4. Fairly'
    <3>1. PICK k : /\ k.b = j.b /\ k.d = j.d /\ jobs' = (jobs \ {j}) \cup {k}
      BY <1>14, CheckCandidateJobs DEF Moves
    <3>2. Picked(j) /\ UNCHANGED candidates
      BY <1>14 DEF CheckCandidate, Picked
    <3>3. UNCHANGED asked
      BY <1>14 DEF CheckCandidate
    <3>4. \A c \in Bookings : Apart(c)' => (candidates[c] \cap asked[c] = {})'
      BY <2>1, <3>2, <3>3 DEF Fairly
    <3>5. \A i \in jobs' : Apart(i.b)' /\ Picked(i) => i.d \notin (candidates[i.b] \cup asked[i.b])'
      BY <1>3, <2>1, <2>3, <3>1, <3>2, <3>3 DEF Fairly, JobFacts
    <3>6. \A i, m \in jobs' :
            Apart(i.b)' /\ Picked(i) /\ Picked(m) /\ i.b = m.b /\ i.d = m.d => i = m
      BY <1>3, <2>1, <2>3, <3>1, <3>2 DEF Fairly, JobFacts
    <3> QED BY <3>4, <3>5, <3>6 DEF Fairly, Picked
  <2>5. Orderly'
    <3>1. UNCHANGED <<throws, crashes, kept>> /\ forked \subseteq forked'
      BY <1>14 DEF CheckCandidate
    <3>2. \A k \in jobs' : k.b \in Bookings
      BY <1>3, CheckCandidateJobs, <1>14 DEF JobFacts, Moves, Adds, CheckCandidate
    <3>3. OffersOnlyGo
      BY <1>14 DEF OffersOnlyGo, Types, KeyTypes, NoOffer, CheckCandidate
    <3>4. \A c \in Bookings : leg'[c] = "awaiting" => Awaiting(c)
      BY <1>14 DEF Awaiting, Types, BookingTypes, CheckCandidate
    <3>5. \A c \in Bookings : leg'[c] = "awaiting" /\ c \notin forked' /\ Undisturbed
            /\ (\E i \in jobs : i.b = c /\ Expects(i)) =>
                 offer'[c].to = None \/ \E k \in jobs' : k.b = c /\ Expects(k)
      BY <1>14, CheckCandidateJobs, <1>3
         DEF Moves, Adds, Expects, CheckCandidate, JobFacts
    <3>6. \A k \in jobs' : k.b \in Bookings /\ leg'[k.b] = "awaiting" /\ k.b \notin forked'
            /\ (k.at = "fail" \/ k.name = "search") =>
               \/ candidates'[k.b] = {}
               \/ \E i \in jobs : i.b = k.b /\ (i.at = "fail" \/ i.name = "search")
      BY <1>14, CheckCandidateJobs DEF Moves, Adds, CheckCandidate
    <3>7. Undisturbed' => Undisturbed
      BY <3>1 DEF Undisturbed
    <3>8. CASE ~Undisturbed
      BY <3>7, <3>8 DEF Orderly
    <3>9. CASE Undisturbed
      BY <1>3, <2>2, <3>1, <3>2, <3>3, <3>4, <3>5, <3>6, <3>7, <3>9, OrderlyStays
         DEF JobFacts
    <3> QED BY <3>8, <3>9
  <2> QED BY <2>4, <2>5 DEF AskInv
<1>15. ASSUME NEW j \in jobs, CreateOffer(j) PROVE AskInv'
  <2>1. \A c \in Bookings : Apart(c)' => Apart(c)
    BY <1>15, <1>3 DEF Apart, CreateOffer
  <2>2. \A c \in Bookings : candidates'[c] \subseteq candidates[c]
    BY <1>15 DEF Types, KeyTypes, CreateOffer
  <2>3. j \in jobs /\ JobFacts(j) /\ j.b \in Bookings
    BY <1>15, <1>3 DEF JobFacts
  <2>4. Fairly'
    <3>1. PICK k : /\ k.b = j.b /\ k.d = j.d /\ jobs' = (jobs \ {j}) \cup {k} /\ k.at = "arm"
      BY <1>15, CreateOfferJobs DEF Moves
    <3>2. Picked(j) /\ UNCHANGED candidates
      BY <1>15 DEF CreateOffer, Picked
    <3>3. \A c \in Bookings : asked'[c] = IF c = j.b THEN asked[c] \cup {j.d} ELSE asked[c]
      BY <1>15, <2>3 DEF CreateOffer, Types, RestTypes
    <3>4. Apart(j.b) => j.d \notin candidates[j.b]
      BY <2>3, <3>2 DEF Fairly
    <3>5. \A c \in Bookings : Apart(c)' => (candidates[c] \cap asked[c] = {})'
      BY <2>1, <3>2, <3>3, <3>4 DEF Fairly
    <3>6. \A i \in jobs' : Picked(i) => i \in jobs \ {j}
      BY <3>1 DEF Picked
    <3>7. \A i \in jobs \ {j} : Apart(j.b) /\ Picked(i) /\ i.b = j.b => i.d # j.d
      BY <2>3, <3>2 DEF Fairly
    <3>8. \A i \in jobs' : Apart(i.b)' /\ Picked(i) => i.d \notin (candidates[i.b] \cup asked[i.b])'
      <4> SUFFICES ASSUME NEW i \in jobs', Apart(i.b)', Picked(i)
                   PROVE  i.d \notin candidates'[i.b] /\ i.d \notin asked'[i.b]
        OBVIOUS
      <4>1. i \in jobs \ {j} /\ i.b \in Bookings /\ Apart(i.b)
        BY <1>3, <2>1, <3>6 DEF JobFacts
      <4>2. i.d \notin candidates[i.b] /\ i.d \notin asked[i.b]
        BY <4>1 DEF Fairly
      <4>3. i.b = j.b => i.d # j.d
        BY <3>7, <4>1
      <4> QED BY <3>2, <3>3, <4>1, <4>2, <4>3
    <3>9. \A i, m \in jobs' :
            Apart(i.b)' /\ Picked(i) /\ Picked(m) /\ i.b = m.b /\ i.d = m.d => i = m
      BY <1>3, <2>1, <3>6 DEF Fairly, JobFacts
    <3> QED BY <3>5, <3>8, <3>9 DEF Fairly, Picked
  <2>5. Orderly'
    <3>1. UNCHANGED <<throws, crashes, kept>> /\ forked \subseteq forked'
      BY <1>15 DEF CreateOffer
    <3>2. \A k \in jobs' : k.b \in Bookings
      BY <1>3, CreateOfferJobs, <1>15 DEF JobFacts, Moves, Adds, CreateOffer
    <3>3. /\ \A c \in Bookings : c # j.b => offer'[c] = offer[c]
          /\ UNCHANGED <<leg, candidates, forked>>
      BY <1>15, <2>3 DEF CreateOffer, Types, KeyTypes
    <3>4. \E k \in jobs' : k.b = j.b /\ Expects(k)
      BY <1>15, CreateOfferJobs DEF Moves, Expects
    <3>5. \A i \in jobs \ {j} : i \in jobs'
      BY <1>15, CreateOfferJobs DEF Moves
    <3>6. \A k \in jobs' : k \in jobs \/ (k.at = "arm" /\ k.name = j.name /\ j.name # "search")
      BY <1>15, CreateOfferJobs DEF Moves, CreateOffer
    <3> SUFFICES ASSUME Undisturbed' PROVE Orderly'
      BY DEF Orderly
    <3>9. \A c \in Bookings \ forked' :
            Awaiting(c)' /\ (\A k \in jobs' : k.b = c => ~Expects(k)) => offer'[c].to = None
      BY <3>1, <3>3, <3>4, <3>5 DEF Orderly, Undisturbed, Awaiting
    <3>10. \A k \in jobs' : Awaiting(k.b)' /\ k.b \notin forked' /\ (k.at = "fail" \/ k.name = "search")
             => candidates'[k.b] = {}
      BY <1>3, <3>1, <3>3, <3>6 DEF Orderly, Undisturbed, Awaiting, JobFacts
    <3> QED BY <3>1, <3>9, <3>10 DEF Orderly, Undisturbed, Expects
  <2> QED BY <2>4, <2>5 DEF AskInv
<1>16. ASSUME NEW j \in jobs, ArmTimeout(j) PROVE AskInv'
  <2>1. \A c \in Bookings : Apart(c)' => Apart(c)
    BY <1>16, <1>3 DEF Apart, ArmTimeout
  <2>2. \A c \in Bookings : candidates'[c] \subseteq candidates[c]
    BY <1>16 DEF Types, KeyTypes, ArmTimeout
  <2>41. UNCHANGED asked /\ \A k \in jobs' : Picked(k) => k \in jobs
    BY <1>16, ArmTimeoutJobs DEF Picked, Moves, Adds, ArmTimeout
  <2>4. Fairly'
    BY <1>3, <2>1, <2>2, <2>41, FairlyStays DEF JobFacts
  <2>5. Orderly'
    <3>1. UNCHANGED <<throws, crashes, kept>> /\ forked \subseteq forked'
      BY <1>16 DEF ArmTimeout
    <3>2. \A k \in jobs' : k.b \in Bookings
      BY <1>3, ArmTimeoutJobs, <1>16 DEF JobFacts, Moves, Adds, ArmTimeout
    <3>3. OffersOnlyGo
      BY <1>16 DEF OffersOnlyGo, Types, KeyTypes, NoOffer, ArmTimeout
    <3>4. \A c \in Bookings : leg'[c] = "awaiting" => Awaiting(c)
      BY <1>16 DEF Awaiting, Types, BookingTypes, ArmTimeout
    <3>5. ASSUME NEW c \in Bookings, leg'[c] = "awaiting", c \notin forked', Undisturbed,
                 NEW i \in jobs, i.b = c, Expects(i)
          PROVE  offer'[c].to = None \/ \E k \in jobs' : k.b = c /\ Expects(k)
      <4>1. CASE i # j
        BY <1>16, ArmTimeoutJobs, <3>5, <4>1 DEF Moves, Adds
      <4>2. CASE i = j
        <5>1. kept = {} /\ forked' = forked
          BY <1>16, <3>5 DEF Orderly, ArmTimeout
        <5>2. \A m \in jobs \ {j} : m.b # j.b
          BY <1>2, <1>3, <3>5, <4>2, <5>1 DEF ChainInv, OneChain, JobsOf
        <5>3. \A k : k.b = j.b => Id(k) \notin kept /\ \A m \in jobs \ {j} : Id(m) # Id(k)
          BY <5>1, <5>2 DEF Id
        <5> QED BY <1>16, ArmTimeoutJobs, <3>5, <4>2, <5>3 DEF Adds, Expects
      <4> QED BY <4>1, <4>2
    <3>6. \A k \in jobs' : k.b \in Bookings /\ leg'[k.b] = "awaiting" /\ k.b \notin forked'
            /\ (k.at = "fail" \/ k.name = "search") =>
               \/ candidates'[k.b] = {}
               \/ \E i \in jobs : i.b = k.b /\ (i.at = "fail" \/ i.name = "search")
      BY <1>16, ArmTimeoutJobs DEF Moves, Adds, ArmTimeout
    <3>7. Undisturbed' => Undisturbed
      BY <3>1 DEF Undisturbed
    <3>8. CASE ~Undisturbed
      BY <3>7, <3>8 DEF Orderly
    <3>9. CASE Undisturbed
      BY <1>3, <2>2, <3>1, <3>2, <3>3, <3>4, <3>5, <3>6, <3>7, <3>9, OrderlyStays
         DEF JobFacts
    <3> QED BY <3>8, <3>9
  <2> QED BY <2>4, <2>5 DEF AskInv
<1>17. ASSUME NEW j \in jobs, SkipCandidate(j) PROVE AskInv'
  <2>1. \A c \in Bookings : Apart(c)' => Apart(c)
    BY <1>17, <1>3 DEF Apart, SkipCandidate
  <2>2. \A c \in Bookings : candidates'[c] \subseteq candidates[c]
    BY <1>17 DEF Types, KeyTypes, SkipCandidate, MoveOn, OfferTo
  <2>41. UNCHANGED asked /\ \A k \in jobs' : Picked(k) => k \in jobs
    BY <1>17, SkipCandidateJobs DEF Picked, Moves, Adds, SkipCandidate
  <2>4. Fairly'
    BY <1>3, <2>1, <2>2, <2>41, FairlyStays DEF JobFacts
  <2>5. Orderly'
    <3>1. UNCHANGED <<throws, crashes, kept>> /\ forked \subseteq forked'
      BY <1>17 DEF SkipCandidate
    <3>2. \A k \in jobs' : k.b \in Bookings
      BY <1>3, SkipCandidateJobs, <1>17 DEF JobFacts, Moves, Adds, SkipCandidate
    <3>3. OffersOnlyGo
      BY <1>17
         DEF OffersOnlyGo, Types, KeyTypes, NoOffer, SkipCandidate, MoveOn, OfferTo
    <3>4. \A c \in Bookings : leg'[c] = "awaiting" => Awaiting(c)
      BY <1>17 DEF Awaiting, Types, BookingTypes, SkipCandidate, MoveOn, OfferTo
    <3>5. \A c \in Bookings : leg'[c] = "awaiting" /\ c \notin forked' /\ Undisturbed
            /\ (\E i \in jobs : i.b = c /\ Expects(i)) =>
                 offer'[c].to = None \/ \E k \in jobs' : k.b = c /\ Expects(k)
      BY <1>17, SkipCandidateJobs, <1>3
         DEF Moves, Adds, Expects, SkipCandidate, JobFacts
    <3>6. ASSUME NEW k \in jobs', k.at = "fail" \/ k.name = "search"
          PROVE  candidates'[k.b] = {} \/ \E i \in jobs : i.b = k.b /\ (i.at = "fail" \/ i.name = "search")
      <4>1. CASE k \in jobs
        BY <3>6, <4>1
      <4>2. CASE k \notin jobs
        <5>1. k.b = j.b /\ JobFacts(j) /\ j.name \in {"offer", "timeout"}
          <6>1. JobFacts(j) /\ j.name \in {"offer", "timeout"}
            BY <1>17, <1>3 DEF SkipCandidate
          <6>2. CASE Moves(j, "fail", Named(j))
            BY <4>2, <6>1, <6>2, Moved
          <6>3. CASE Adds(jobs \ {j}, "offer", j.b, j.n + 1, None)
            BY <3>6, <4>2, <6>1, <6>3, Added
          <6> QED BY <1>17, SkipCandidateJobs, <6>1, <6>2, <6>3
        <5>2. candidates[j.b] # {} => FALSE
          <6>1. ASSUME candidates[j.b] # {} PROVE FALSE
            <7>1. jobs' = Put(jobs \ {j}, OfferTo(j.b, j.n + 1)) /\ j.n + 1 \in Nat /\ j.b \in Bookings
              BY <1>17, <5>1, <6>1 DEF SkipCandidate, MoveOn, JobFacts
            <7>2. Adds(jobs \ {j}, "offer", j.b, j.n + 1, None)
              BY <7>1, Queued DEF OfferTo
            <7> QED BY <3>6, <4>2, <7>2, Added
          <6> QED BY <6>1
        <5> QED BY <1>17, <5>1, <5>2 DEF SkipCandidate, MoveOn
      <4> QED BY <4>1, <4>2
    <3>7. Undisturbed' => Undisturbed
      BY <3>1 DEF Undisturbed
    <3>8. CASE ~Undisturbed
      BY <3>7, <3>8 DEF Orderly
    <3>9. CASE Undisturbed
      BY <1>3, <2>2, <3>1, <3>2, <3>3, <3>4, <3>5, <3>6, <3>7, <3>9, OrderlyStays
         DEF JobFacts
    <3> QED BY <3>8, <3>9
  <2> QED BY <2>4, <2>5 DEF AskInv
<1>18. ASSUME NEW j \in jobs, TimeoutReads(j) PROVE AskInv'
  <2>1. \A c \in Bookings : Apart(c)' => Apart(c)
    BY <1>18, <1>3 DEF Apart, TimeoutReads
  <2>2. \A c \in Bookings : candidates'[c] \subseteq candidates[c]
    BY <1>18 DEF Types, KeyTypes, TimeoutReads, ClearOffer, Done
  <2>41. UNCHANGED asked /\ \A k \in jobs' : Picked(k) => k \in jobs
    BY <1>18, TimeoutReadsJobs DEF Picked, Moves, Adds, TimeoutReads
  <2>4. Fairly'
    BY <1>3, <2>1, <2>2, <2>41, FairlyStays DEF JobFacts
  <2>5. Orderly'
    <3>1. UNCHANGED <<throws, crashes, kept>> /\ forked \subseteq forked'
      BY <1>18 DEF TimeoutReads
    <3>2. \A k \in jobs' : k.b \in Bookings
      BY <1>3, TimeoutReadsJobs, <1>18 DEF JobFacts, Moves, Adds, TimeoutReads
    <3>3. OffersOnlyGo
      BY <1>18
         DEF OffersOnlyGo, Types, KeyTypes, NoOffer, TimeoutReads, ClearOffer, Done
    <3>4. \A c \in Bookings : leg'[c] = "awaiting" => Awaiting(c)
      BY <1>18 DEF Awaiting, Types, BookingTypes, TimeoutReads, ClearOffer, Done
    <3>5. ASSUME NEW c \in Bookings, leg'[c] = "awaiting", c \notin forked', Undisturbed,
                 NEW i \in jobs, i.b = c, Expects(i)
          PROVE  offer'[c].to = None \/ \E k \in jobs' : k.b = c /\ Expects(k)
      <4>1. CASE i # j
        BY <1>18, TimeoutReadsJobs, <3>5, <4>1 DEF Moves, Adds
      <4>2. CASE i = j
        <5>1. Awaiting(j.b) /\ JobFacts(j) /\ j.d \in Drivers /\ c \notin forked
          BY <1>18, <1>3, <3>4, <3>5, <4>2 DEF TimeoutReads, JobFacts
        <5>2. offer[j.b].to \in {None, j.d} /\ ~offer[j.b].accepted
          BY <1>1, <1>2, <3>5, <4>2, <5>1
             DEF WaitInv, OfferOfChain, Times, Expects, ChainInv, TakenIsFinal, Awaiting,
                 JobFacts
        <5>3. Step(j, "act", j.d)
          BY <1>18, <5>1, <5>2 DEF TimeoutReads
        <5> QED BY <1>18, <3>5, <4>2, <5>1, <5>3, Stepped
                   DEF TimeoutReads, Moves, Expects, JobFacts, Places
      <4> QED BY <4>1, <4>2
    <3>6. \A k \in jobs' : k.b \in Bookings /\ leg'[k.b] = "awaiting" /\ k.b \notin forked'
            /\ (k.at = "fail" \/ k.name = "search") =>
               \/ candidates'[k.b] = {}
               \/ \E i \in jobs : i.b = k.b /\ (i.at = "fail" \/ i.name = "search")
      BY <1>18, TimeoutReadsJobs DEF Moves, Adds, TimeoutReads
    <3>7. Undisturbed' => Undisturbed
      BY <3>1 DEF Undisturbed
    <3>8. CASE ~Undisturbed
      BY <3>7, <3>8 DEF Orderly
    <3>9. CASE Undisturbed
      BY <1>3, <2>2, <3>1, <3>2, <3>3, <3>4, <3>5, <3>6, <3>7, <3>9, OrderlyStays
         DEF JobFacts
    <3> QED BY <3>8, <3>9
  <2> QED BY <2>4, <2>5 DEF AskInv
<1>19. ASSUME NEW j \in jobs, TimeoutActs(j) PROVE AskInv'
  <2>1. \A c \in Bookings : Apart(c)' => Apart(c)
    BY <1>19, <1>3 DEF Apart, TimeoutActs
  <2>2. \A c \in Bookings : candidates'[c] \subseteq candidates[c]
    BY <1>19 DEF Types, KeyTypes, TimeoutActs, ClearOffer, MoveOn, OfferTo
  <2>41. UNCHANGED asked /\ \A k \in jobs' : Picked(k) => k \in jobs
    BY <1>19, TimeoutActsJobs DEF Picked, Moves, Adds, TimeoutActs
  <2>4. Fairly'
    BY <1>3, <2>1, <2>2, <2>41, FairlyStays DEF JobFacts
  <2>5. Orderly'
    <3>1. UNCHANGED <<throws, crashes, kept>> /\ forked \subseteq forked'
      BY <1>19 DEF TimeoutActs
    <3>2. \A k \in jobs' : k.b \in Bookings
      BY <1>3, TimeoutActsJobs, <1>19 DEF JobFacts, Moves, Adds, TimeoutActs
    <3>3. OffersOnlyGo
      BY <1>19
         DEF OffersOnlyGo, Types, KeyTypes, NoOffer, TimeoutActs, ClearOffer,
             MoveOn, OfferTo
    <3>4. \A c \in Bookings : leg'[c] = "awaiting" => Awaiting(c)
      BY <1>19
         DEF Awaiting, Types, BookingTypes, TimeoutActs, ClearOffer, MoveOn, OfferTo
    <3>5. ASSUME NEW c \in Bookings, leg'[c] = "awaiting", c \notin forked', Undisturbed,
                 NEW i \in jobs, i.b = c, Expects(i)
          PROVE  offer'[c].to = None \/ \E k \in jobs' : k.b = c /\ Expects(k)
      <4>1. CASE i # j
        BY <1>19, TimeoutActsJobs, <3>5, <4>1 DEF Moves, Adds
      <4>2. CASE i = j
        BY <1>19, <3>5, <4>2 DEF TimeoutActs, ClearOffer, NoOffer, Types, KeyTypes
      <4> QED BY <4>1, <4>2
    <3>6. ASSUME NEW k \in jobs', k.at = "fail" \/ k.name = "search"
          PROVE  candidates'[k.b] = {} \/ \E i \in jobs : i.b = k.b /\ (i.at = "fail" \/ i.name = "search")
      <4>1. CASE k \in jobs
        BY <3>6, <4>1
      <4>2. CASE k \notin jobs
        <5>1. k.b = j.b /\ JobFacts(j) /\ j.name \in {"offer", "timeout"}
          <6>1. JobFacts(j) /\ j.name \in {"offer", "timeout"}
            BY <1>19, <1>3 DEF TimeoutActs
          <6>2. CASE Moves(j, "fail", Named(j))
            BY <4>2, <6>1, <6>2, Moved
          <6>3. CASE Adds(jobs \ {j}, "offer", j.b, j.n + 1, None)
            BY <3>6, <4>2, <6>1, <6>3, Added
          <6> QED BY <1>19, TimeoutActsJobs, <6>1, <6>2, <6>3
        <5>2. candidates[j.b] # {} => FALSE
          <6>1. ASSUME candidates[j.b] # {} PROVE FALSE
            <7>1. jobs' = Put(jobs \ {j}, OfferTo(j.b, j.n + 1)) /\ j.n + 1 \in Nat /\ j.b \in Bookings
              BY <1>19, <5>1, <6>1 DEF TimeoutActs, MoveOn, JobFacts
            <7>2. Adds(jobs \ {j}, "offer", j.b, j.n + 1, None)
              BY <7>1, Queued DEF OfferTo
            <7> QED BY <3>6, <4>2, <7>2, Added
          <6> QED BY <6>1
        <5> QED BY <1>19, <5>1, <5>2 DEF TimeoutActs, MoveOn
      <4> QED BY <4>1, <4>2
    <3>7. Undisturbed' => Undisturbed
      BY <3>1 DEF Undisturbed
    <3>8. CASE ~Undisturbed
      BY <3>7, <3>8 DEF Orderly
    <3>9. CASE Undisturbed
      BY <1>3, <2>2, <3>1, <3>2, <3>3, <3>4, <3>5, <3>6, <3>7, <3>9, OrderlyStays
         DEF JobFacts
    <3> QED BY <3>8, <3>9
  <2> QED BY <2>4, <2>5 DEF AskInv
<1>20. ASSUME NEW j \in jobs, FailSearch(j) PROVE AskInv'
  <2>1. \A c \in Bookings : Apart(c)' => Apart(c)
    BY <1>20, <1>3 DEF Apart, FailSearch
  <2>2. \A c \in Bookings : candidates'[c] \subseteq candidates[c]
    BY <1>20 DEF Types, KeyTypes, FailSearch, CancelPickup, MarkReturn, Unlocked, InListener, Cleanup, Done
  <2>41. UNCHANGED asked /\ \A k \in jobs' : Picked(k) => k \in jobs
    BY <1>20, FailSearchJobs DEF Picked, Moves, Adds, FailSearch
  <2>4. Fairly'
    BY <1>3, <2>1, <2>2, <2>41, FairlyStays DEF JobFacts
  <2>5. Orderly'
    <3>1. UNCHANGED <<throws, crashes, kept>> /\ forked \subseteq forked'
      BY <1>20 DEF FailSearch
    <3>2. \A k \in jobs' : k.b \in Bookings
      BY <1>3, FailSearchJobs, <1>20 DEF JobFacts, Moves, Adds, FailSearch
    <3>3. OffersOnlyGo
      BY <1>20
         DEF OffersOnlyGo, Types, KeyTypes, NoOffer, FailSearch, CancelPickup,
             MarkReturn, Unlocked, InListener, Cleanup, Done
    <3>4. \A c \in Bookings : leg'[c] = "awaiting" => Awaiting(c)
      BY <1>20
         DEF Awaiting, Types, BookingTypes, FailSearch, CancelPickup, MarkReturn, Unlocked, InListener,
             Cleanup, Done
    <3>5. \A c \in Bookings : leg'[c] = "awaiting" /\ c \notin forked' /\ Undisturbed
            /\ (\E i \in jobs : i.b = c /\ Expects(i)) =>
                 offer'[c].to = None \/ \E k \in jobs' : k.b = c /\ Expects(k)
      BY <1>20, FailSearchJobs, <1>3
         DEF Moves, Adds, Expects, FailSearch, JobFacts, Done
    <3>6. \A k \in jobs' : k.b \in Bookings /\ leg'[k.b] = "awaiting" /\ k.b \notin forked'
            /\ (k.at = "fail" \/ k.name = "search") =>
               \/ candidates'[k.b] = {}
               \/ \E i \in jobs : i.b = k.b /\ (i.at = "fail" \/ i.name = "search")
      BY <1>20, FailSearchJobs DEF Moves, Adds, FailSearch
    <3>7. Undisturbed' => Undisturbed
      BY <3>1 DEF Undisturbed
    <3>8. CASE ~Undisturbed
      BY <3>7, <3>8 DEF Orderly
    <3>9. CASE Undisturbed
      BY <1>3, <2>2, <3>1, <3>2, <3>3, <3>4, <3>5, <3>6, <3>7, <3>9, OrderlyStays
         DEF JobFacts
    <3> QED BY <3>8, <3>9
  <2> QED BY <2>4, <2>5 DEF AskInv
<1>20a. ASSUME NEW j \in jobs, GivingUpFails(j) PROVE AskInv'
  <2>1. \A c \in Bookings : Apart(c)' => Apart(c)
    BY <1>20a, <1>3 DEF Apart, GivingUpFails
  <2>2. \A c \in Bookings : candidates'[c] \subseteq candidates[c]
    BY <1>20a DEF Types, KeyTypes, GivingUpFails, Unlocked, InListener, Done
  <2>41. UNCHANGED asked /\ \A k \in jobs' : Picked(k) => k \in jobs
    BY <1>20a, GivingUpFailsJobs DEF Picked, Moves, Adds, GivingUpFails
  <2>4. Fairly'
    BY <1>3, <2>1, <2>2, <2>41, FairlyStays DEF JobFacts
  <2>5. Orderly'
    BY <1>20a DEF GivingUpFails, Types, RestTypes, Orderly, Undisturbed
  <2> QED BY <2>4, <2>5 DEF AskInv
<1>21. ASSUME NEW j \in jobs, JobThrows(j) PROVE AskInv'
  <2>0. RunAgain(j)
    BY <1>21 DEF JobThrows
  <2>1. \A c \in Bookings : Apart(c)' => Apart(c)
    BY <1>21, <1>3 DEF Apart, JobThrows, RunAgain
  <2>2. \A c \in Bookings : candidates'[c] \subseteq candidates[c]
    BY <1>21 DEF Types, KeyTypes, JobThrows, RunAgain, RunAgain
  <2>41. UNCHANGED asked /\ \A k \in jobs' : Picked(k) => k \in jobs
    BY <1>21, RunAgainJobs, <2>0 DEF Picked, Moves, Adds, JobThrows, RunAgain
  <2>4. Fairly'
    BY <1>3, <2>1, <2>2, <2>41, FairlyStays DEF JobFacts
  <2>5. Orderly'
    BY <1>21 DEF Orderly, Undisturbed, JobThrows, Types, RestTypes
  <2> QED BY <2>4, <2>5 DEF AskInv
<1>22. ASSUME NEW j \in jobs, WorkerDies(j) PROVE AskInv'
  <2>0. RunAgain(j)
    BY <1>22 DEF WorkerDies
  <2>1. \A c \in Bookings : Apart(c)' => Apart(c)
    BY <1>22, <1>3 DEF Apart, WorkerDies, RunAgain
  <2>2. \A c \in Bookings : candidates'[c] \subseteq candidates[c]
    BY <1>22 DEF Types, KeyTypes, WorkerDies, RunAgain, RunAgain
  <2>41. UNCHANGED asked /\ \A k \in jobs' : Picked(k) => k \in jobs
    BY <1>22, RunAgainJobs, <2>0 DEF Picked, Moves, Adds, WorkerDies, RunAgain
  <2>4. Fairly'
    BY <1>3, <2>1, <2>2, <2>41, FairlyStays DEF JobFacts
  <2>5. Orderly'
    BY <1>22 DEF Orderly, Undisturbed, WorkerDies, Types, RestTypes
  <2> QED BY <2>4, <2>5 DEF AskInv
<1>23. ASSUME NEW d \in Drivers, RideAccepted(d) PROVE AskInv'
  <2>1. \A c \in Bookings : Apart(c)' => Apart(c)
    BY <1>23, <1>3 DEF Apart, RideAccepted
  <2>2. \A c \in Bookings : candidates'[c] \subseteq candidates[c]
    BY <1>23 DEF Types, KeyTypes, RideAccepted, Answering, TakeLeg, ClearOffer
  <2>41. UNCHANGED asked /\ \A k \in jobs' : Picked(k) => k \in jobs
    BY <1>23 DEF Picked, Moves, Adds, RideAccepted
  <2>4. Fairly'
    BY <1>3, <2>1, <2>2, <2>41, FairlyStays DEF JobFacts
  <2>5. Orderly'
    <3>1. UNCHANGED <<throws, crashes, kept>> /\ forked \subseteq forked'
      BY <1>23 DEF RideAccepted
    <3>2. \A k \in jobs' : k.b \in Bookings
      BY <1>3, <1>23 DEF JobFacts, RideAccepted
    <3>3. OffersOnlyGo
      BY <1>23
         DEF OffersOnlyGo, Types, KeyTypes, NoOffer, RideAccepted, Answering,
             TakeLeg, ClearOffer
    <3>4. \A c \in Bookings : leg'[c] = "awaiting" => Awaiting(c)
      BY <1>23
         DEF Awaiting, Types, BookingTypes, RideAccepted, Answering, TakeLeg,
             ClearOffer
    <3>5. \A c \in Bookings : leg'[c] = "awaiting" /\ c \notin forked' /\ Undisturbed
            /\ (\E i \in jobs : i.b = c /\ Expects(i)) =>
                 offer'[c].to = None \/ \E k \in jobs' : k.b = c /\ Expects(k)
      BY <1>23 DEF RideAccepted
    <3>6. \A k \in jobs' : k.b \in Bookings /\ leg'[k.b] = "awaiting" /\ k.b \notin forked'
            /\ (k.at = "fail" \/ k.name = "search") =>
               \/ candidates'[k.b] = {}
               \/ \E i \in jobs : i.b = k.b /\ (i.at = "fail" \/ i.name = "search")
      BY <1>23 DEF Moves, Adds, RideAccepted
    <3>7. Undisturbed' => Undisturbed
      BY <3>1 DEF Undisturbed
    <3>8. CASE ~Undisturbed
      BY <3>7, <3>8 DEF Orderly
    <3>9. CASE Undisturbed
      BY <1>3, <2>2, <3>1, <3>2, <3>3, <3>4, <3>5, <3>6, <3>7, <3>9, OrderlyStays
         DEF JobFacts
    <3> QED BY <3>8, <3>9
  <2> QED BY <2>4, <2>5 DEF AskInv
<1>24. ASSUME NEW d \in Drivers, RideSettled(d) PROVE AskInv'
  <2>1. \A c \in Bookings : Apart(c)' => Apart(c)
    BY <1>24, <1>3 DEF Apart, RideSettled
  <2>2. \A c \in Bookings : candidates'[c] \subseteq candidates[c]
    BY <1>24 DEF Types, KeyTypes, RideSettled, Answering, Cleanup
  <2>41. UNCHANGED asked /\ \A k \in jobs' : Picked(k) => k \in jobs
    BY <1>24 DEF Picked, Moves, Adds, RideSettled
  <2>4. Fairly'
    BY <1>3, <2>1, <2>2, <2>41, FairlyStays DEF JobFacts
  <2>5. Orderly'
    <3>1. UNCHANGED <<throws, crashes, kept>> /\ forked \subseteq forked'
      BY <1>24 DEF RideSettled
    <3>2. \A k \in jobs' : k.b \in Bookings
      BY <1>3, <1>24 DEF JobFacts, RideSettled
    <3>3. OffersOnlyGo
      BY <1>24
         DEF OffersOnlyGo, Types, KeyTypes, NoOffer, RideSettled, Answering, Cleanup
    <3>4. \A c \in Bookings : leg'[c] = "awaiting" => Awaiting(c)
      BY <1>24 DEF Awaiting, Types, BookingTypes, RideSettled, Answering, Cleanup
    <3>5. \A c \in Bookings : leg'[c] = "awaiting" /\ c \notin forked' /\ Undisturbed
            /\ (\E i \in jobs : i.b = c /\ Expects(i)) =>
                 offer'[c].to = None \/ \E k \in jobs' : k.b = c /\ Expects(k)
      BY <1>24 DEF RideSettled
    <3>6. \A k \in jobs' : k.b \in Bookings /\ leg'[k.b] = "awaiting" /\ k.b \notin forked'
            /\ (k.at = "fail" \/ k.name = "search") =>
               \/ candidates'[k.b] = {}
               \/ \E i \in jobs : i.b = k.b /\ (i.at = "fail" \/ i.name = "search")
      BY <1>24 DEF Moves, Adds, RideSettled
    <3>7. Undisturbed' => Undisturbed
      BY <3>1 DEF Undisturbed
    <3>8. CASE ~Undisturbed
      BY <3>7, <3>8 DEF Orderly
    <3>9. CASE Undisturbed
      BY <1>3, <2>2, <3>1, <3>2, <3>3, <3>4, <3>5, <3>6, <3>7, <3>9, OrderlyStays
         DEF JobFacts
    <3> QED BY <3>8, <3>9
  <2> QED BY <2>4, <2>5 DEF AskInv
<1>25. ASSUME NEW d \in Drivers, OfferAccepted(d) PROVE AskInv'
  <2>1. \A c \in Bookings : Apart(c)' => Apart(c)
    BY <1>25, <1>3 DEF Apart, OfferAccepted
  <2>2. \A c \in Bookings : candidates'[c] \subseteq candidates[c]
    BY <1>25 DEF Types, KeyTypes, OfferAccepted, Answering, TakeLeg
  <2>41. UNCHANGED asked /\ \A k \in jobs' : Picked(k) => k \in jobs
    BY <1>25 DEF Picked, Moves, Adds, OfferAccepted
  <2>4. Fairly'
    BY <1>3, <2>1, <2>2, <2>41, FairlyStays DEF JobFacts
  <2>5. Orderly'
    <3>1. UNCHANGED <<throws, crashes, kept>> /\ forked \subseteq forked'
      BY <1>25 DEF OfferAccepted
    <3>2. \A k \in jobs' : k.b \in Bookings
      BY <1>3, <1>25 DEF JobFacts, OfferAccepted
    <3>3. OffersOnlyGo
      BY <1>25
         DEF OffersOnlyGo, Types, KeyTypes, NoOffer, OfferAccepted, Answering,
             TakeLeg
    <3>4. \A c \in Bookings : leg'[c] = "awaiting" => Awaiting(c)
      BY <1>25 DEF Awaiting, Types, BookingTypes, OfferAccepted, Answering, TakeLeg
    <3>5. \A c \in Bookings : leg'[c] = "awaiting" /\ c \notin forked' /\ Undisturbed
            /\ (\E i \in jobs : i.b = c /\ Expects(i)) =>
                 offer'[c].to = None \/ \E k \in jobs' : k.b = c /\ Expects(k)
      BY <1>25 DEF OfferAccepted
    <3>6. \A k \in jobs' : k.b \in Bookings /\ leg'[k.b] = "awaiting" /\ k.b \notin forked'
            /\ (k.at = "fail" \/ k.name = "search") =>
               \/ candidates'[k.b] = {}
               \/ \E i \in jobs : i.b = k.b /\ (i.at = "fail" \/ i.name = "search")
      BY <1>25 DEF Moves, Adds, OfferAccepted
    <3>7. Undisturbed' => Undisturbed
      BY <3>1 DEF Undisturbed
    <3>8. CASE ~Undisturbed
      BY <3>7, <3>8 DEF Orderly
    <3>9. CASE Undisturbed
      BY <1>3, <2>2, <3>1, <3>2, <3>3, <3>4, <3>5, <3>6, <3>7, <3>9, OrderlyStays
         DEF JobFacts
    <3> QED BY <3>8, <3>9
  <2> QED BY <2>4, <2>5 DEF AskInv
<1>26. ASSUME NEW d \in Drivers, OfferSettled(d) PROVE AskInv'
  <2>1. \A c \in Bookings : Apart(c)' => Apart(c)
    BY <1>26, <1>3 DEF Apart, OfferSettled
  <2>2. \A c \in Bookings : candidates'[c] \subseteq candidates[c]
    BY <1>26 DEF Types, KeyTypes, OfferSettled, Answering
  <2>41. UNCHANGED asked /\ \A k \in jobs' : Picked(k) => k \in jobs
    BY <1>26, OfferSettledJobs DEF Picked, Moves, Adds, OfferSettled
  <2>4. Fairly'
    BY <1>3, <2>1, <2>2, <2>41, FairlyStays DEF JobFacts
  <2>5. Orderly'
    <3>1. UNCHANGED <<throws, crashes, kept>> /\ forked \subseteq forked'
      BY <1>26 DEF OfferSettled
    <3>2. \A k \in jobs' : k.b \in Bookings
      BY <1>3, OfferSettledJobs, <1>26 DEF JobFacts, Moves, Adds, OfferSettled
    <3>3. OffersOnlyGo
      BY <1>26, <1>2, SettledOffers DEF ChainInv
    <3>4. \A c \in Bookings : leg'[c] = "awaiting" => Awaiting(c)
      BY <1>26 DEF Awaiting, Types, BookingTypes, OfferSettled, Answering
    <3>5. \A c \in Bookings : leg'[c] = "awaiting" /\ c \notin forked' /\ Undisturbed
            /\ (\E i \in jobs : i.b = c /\ Expects(i)) =>
                 offer'[c].to = None \/ \E k \in jobs' : k.b = c /\ Expects(k)
      BY <1>26, <1>2, <3>4
         DEF OfferSettled, Answering, ChainInv, TakenIsFinal, Id, Awaiting
    <3>6. \A k \in jobs' : k.b \in Bookings /\ leg'[k.b] = "awaiting" /\ k.b \notin forked'
            /\ (k.at = "fail" \/ k.name = "search") =>
               \/ candidates'[k.b] = {}
               \/ \E i \in jobs : i.b = k.b /\ (i.at = "fail" \/ i.name = "search")
      BY <1>26, OfferSettledJobs DEF Moves, Adds, OfferSettled
    <3>7. Undisturbed' => Undisturbed
      BY <3>1 DEF Undisturbed
    <3>8. CASE ~Undisturbed
      BY <3>7, <3>8 DEF Orderly
    <3>9. CASE Undisturbed
      BY <1>3, <2>2, <3>1, <3>2, <3>3, <3>4, <3>5, <3>6, <3>7, <3>9, OrderlyStays
         DEF JobFacts
    <3> QED BY <3>8, <3>9
  <2> QED BY <2>4, <2>5 DEF AskInv
<1>27. ASSUME NEW d \in Drivers, RideRejected(d) PROVE AskInv'
  <2>1. \A c \in Bookings : Apart(c)' => Apart(c)
    BY <1>27, <1>3 DEF Apart, RideRejected, Types, RestTypes
  <2>2. \A c \in Bookings : candidates'[c] \subseteq candidates[c]
    BY <1>27 DEF Types, KeyTypes, RideRejected, Answering, ClearOffer, OfferTo
  <2>41. UNCHANGED asked /\ \A k \in jobs' : Picked(k) => k \in jobs
    BY <1>27, RideRejectedJobs DEF Picked, Moves, Adds, RideRejected
  <2>4. Fairly'
    BY <1>3, <2>1, <2>2, <2>41, FairlyStays DEF JobFacts
  <2>5. Orderly'
    <3>1. UNCHANGED <<throws, crashes, kept>> /\ forked \subseteq forked'
      BY <1>27 DEF RideRejected
    <3>2. \A k \in jobs' : k.b \in Bookings
      <4>1. request[d].b \in Bookings
        BY <1>27, Facts DEF RideRejected, Answering
      <4>2. \A k \in jobs' : k \in jobs \/ k.b = request[d].b
        BY <1>27, RideRejectedJobs, Added
      <4> QED BY <1>3, <4>1, <4>2 DEF JobFacts
    <3>3. /\ request[d].b \in Bookings /\ request[d].b \in forked'
          /\ \A c \in Bookings : c # request[d].b => offer'[c] = offer[c]
          /\ UNCHANGED <<leg, candidates>>
      BY <1>27, Facts DEF RideRejected, Answering, ClearOffer, OfferTo, Types, KeyTypes
    <3>4. jobs \subseteq jobs' /\ \A k \in jobs' : k \in jobs \/ k.b = request[d].b
      BY <1>27, RideRejectedJobs DEF Adds
    <3> SUFFICES ASSUME Undisturbed' PROVE Orderly'
      BY DEF Orderly
    <3>9. \A c \in Bookings \ forked' :
            Awaiting(c)' /\ (\A k \in jobs' : k.b = c => ~Expects(k)) => offer'[c].to = None
      BY <3>1, <3>3, <3>4 DEF Orderly, Undisturbed, Awaiting
    <3>10. \A k \in jobs' : Awaiting(k.b)' /\ k.b \notin forked' /\ (k.at = "fail" \/ k.name = "search")
             => candidates'[k.b] = {}
      BY <1>3, <3>1, <3>3, <3>4 DEF Orderly, Undisturbed, Awaiting, JobFacts
    <3>11. throws' = throws /\ crashes' = crashes /\ kept' = kept
      BY <3>1
    <3> QED BY <3>9, <3>10, <3>11 DEF Orderly, Undisturbed, Expects
  <2> QED BY <2>4, <2>5 DEF AskInv
<1>28. ASSUME NEW d \in Drivers, OfferRejected(d) PROVE AskInv'
  <2>1. \A c \in Bookings : Apart(c)' => Apart(c)
    BY <1>28, <1>3 DEF Apart, OfferRejected
  <2>2. \A c \in Bookings : candidates'[c] \subseteq candidates[c]
    BY <1>28 DEF Types, KeyTypes, OfferRejected, Answering
  <2>41. UNCHANGED asked /\ \A k \in jobs' : Picked(k) => k \in jobs
    BY <1>28 DEF Picked, Moves, Adds, OfferRejected
  <2>4. Fairly'
    BY <1>3, <2>1, <2>2, <2>41, FairlyStays DEF JobFacts
  <2>5. Orderly'
    <3>1. UNCHANGED <<throws, crashes, kept>> /\ forked \subseteq forked'
      BY <1>28 DEF OfferRejected
    <3>2. \A k \in jobs' : k.b \in Bookings
      BY <1>3, <1>28 DEF JobFacts, OfferRejected
    <3>3. OffersOnlyGo
      BY <1>28, Facts
         DEF OffersOnlyGo, Types, KeyTypes, NoOffer, OfferRejected, Answering
    <3>4. \A c \in Bookings : leg'[c] = "awaiting" => Awaiting(c)
      BY <1>28 DEF Awaiting, Types, BookingTypes, OfferRejected, Answering
    <3>5. \A c \in Bookings : leg'[c] = "awaiting" /\ c \notin forked' /\ Undisturbed
            /\ (\E i \in jobs : i.b = c /\ Expects(i)) =>
                 offer'[c].to = None \/ \E k \in jobs' : k.b = c /\ Expects(k)
      BY <1>28 DEF OfferRejected
    <3>6. \A k \in jobs' : k.b \in Bookings /\ leg'[k.b] = "awaiting" /\ k.b \notin forked'
            /\ (k.at = "fail" \/ k.name = "search") =>
               \/ candidates'[k.b] = {}
               \/ \E i \in jobs : i.b = k.b /\ (i.at = "fail" \/ i.name = "search")
      BY <1>28 DEF Moves, Adds, OfferRejected
    <3>7. Undisturbed' => Undisturbed
      BY <3>1 DEF Undisturbed
    <3>8. CASE ~Undisturbed
      BY <3>7, <3>8 DEF Orderly
    <3>9. CASE Undisturbed
      BY <1>3, <2>2, <3>1, <3>2, <3>3, <3>4, <3>5, <3>6, <3>7, <3>9, OrderlyStays
         DEF JobFacts
    <3> QED BY <3>8, <3>9
  <2> QED BY <2>4, <2>5 DEF AskInv
<1>29. ASSUME NEW d \in Drivers, GoOffline(d) PROVE AskInv'
  <2>1. \A c \in Bookings : Apart(c)' => Apart(c)
    BY <1>29, <1>3 DEF Apart, GoOffline
  <2>2. \A c \in Bookings : candidates'[c] \subseteq candidates[c]
    BY <1>29 DEF Types, KeyTypes, GoOffline
  <2>41. UNCHANGED asked /\ \A k \in jobs' : Picked(k) => k \in jobs
    BY <1>29 DEF Picked, Moves, Adds, GoOffline
  <2>4. Fairly'
    BY <1>3, <2>1, <2>2, <2>41, FairlyStays DEF JobFacts
  <2>5. Orderly'
    <3>1. UNCHANGED <<throws, crashes, kept>> /\ forked \subseteq forked'
      BY <1>29 DEF GoOffline
    <3>2. \A k \in jobs' : k.b \in Bookings
      BY <1>3, <1>29 DEF JobFacts, GoOffline
    <3>3. OffersOnlyGo
      BY <1>29 DEF OffersOnlyGo, Types, KeyTypes, NoOffer, GoOffline
    <3>4. \A c \in Bookings : leg'[c] = "awaiting" => Awaiting(c)
      BY <1>29 DEF Awaiting, Types, BookingTypes, GoOffline
    <3>5. \A c \in Bookings : leg'[c] = "awaiting" /\ c \notin forked' /\ Undisturbed
            /\ (\E i \in jobs : i.b = c /\ Expects(i)) =>
                 offer'[c].to = None \/ \E k \in jobs' : k.b = c /\ Expects(k)
      BY <1>29 DEF GoOffline
    <3>6. \A k \in jobs' : k.b \in Bookings /\ leg'[k.b] = "awaiting" /\ k.b \notin forked'
            /\ (k.at = "fail" \/ k.name = "search") =>
               \/ candidates'[k.b] = {}
               \/ \E i \in jobs : i.b = k.b /\ (i.at = "fail" \/ i.name = "search")
      BY <1>29 DEF Moves, Adds, GoOffline
    <3>7. Undisturbed' => Undisturbed
      BY <3>1 DEF Undisturbed
    <3>8. CASE ~Undisturbed
      BY <3>7, <3>8 DEF Orderly
    <3>9. CASE Undisturbed
      BY <1>3, <2>2, <3>1, <3>2, <3>3, <3>4, <3>5, <3>6, <3>7, <3>9, OrderlyStays
         DEF JobFacts
    <3> QED BY <3>8, <3>9
  <2> QED BY <2>4, <2>5 DEF AskInv
<1>30. ASSUME NEW d \in Drivers, LockExpires(d) PROVE AskInv'
  <2>1. \A c \in Bookings : Apart(c)' => Apart(c)
    BY <1>30, <1>3 DEF Apart, LockExpires
  <2>2. \A c \in Bookings : candidates'[c] \subseteq candidates[c]
    BY <1>30 DEF Types, KeyTypes, LockExpires
  <2>41. UNCHANGED asked /\ \A k \in jobs' : Picked(k) => k \in jobs
    BY <1>30 DEF Picked, Moves, Adds, LockExpires
  <2>4. Fairly'
    BY <1>3, <2>1, <2>2, <2>41, FairlyStays DEF JobFacts
  <2>5. Orderly'
    <3>1. UNCHANGED <<throws, crashes, kept>> /\ forked \subseteq forked'
      BY <1>30 DEF LockExpires
    <3>2. \A k \in jobs' : k.b \in Bookings
      BY <1>3, <1>30 DEF JobFacts, LockExpires
    <3>3. OffersOnlyGo
      BY <1>30 DEF OffersOnlyGo, Types, KeyTypes, NoOffer, LockExpires
    <3>4. \A c \in Bookings : leg'[c] = "awaiting" => Awaiting(c)
      BY <1>30 DEF Awaiting, Types, BookingTypes, LockExpires
    <3>5. \A c \in Bookings : leg'[c] = "awaiting" /\ c \notin forked' /\ Undisturbed
            /\ (\E i \in jobs : i.b = c /\ Expects(i)) =>
                 offer'[c].to = None \/ \E k \in jobs' : k.b = c /\ Expects(k)
      BY <1>30 DEF LockExpires
    <3>6. \A k \in jobs' : k.b \in Bookings /\ leg'[k.b] = "awaiting" /\ k.b \notin forked'
            /\ (k.at = "fail" \/ k.name = "search") =>
               \/ candidates'[k.b] = {}
               \/ \E i \in jobs : i.b = k.b /\ (i.at = "fail" \/ i.name = "search")
      BY <1>30 DEF Moves, Adds, LockExpires
    <3>7. Undisturbed' => Undisturbed
      BY <3>1 DEF Undisturbed
    <3>8. CASE ~Undisturbed
      BY <3>7, <3>8 DEF Orderly
    <3>9. CASE Undisturbed
      BY <1>3, <2>2, <3>1, <3>2, <3>3, <3>4, <3>5, <3>6, <3>7, <3>9, OrderlyStays
         DEF JobFacts
    <3> QED BY <3>8, <3>9
  <2> QED BY <2>4, <2>5 DEF AskInv
<1>31. ASSUME NEW d \in Drivers, NEW b \in Bookings, LateReject(d, b) PROVE AskInv'
  <2>1. \A c \in Bookings : Apart(c)' => Apart(c)
    BY <1>31, <1>3 DEF Apart, LateReject
  <2>2. \A c \in Bookings : candidates'[c] \subseteq candidates[c]
    BY <1>31 DEF Types, KeyTypes, LateReject
  <2>41. UNCHANGED asked /\ \A k \in jobs' : Picked(k) => k \in jobs
    BY <1>31 DEF Picked, Moves, Adds, LateReject
  <2>4. Fairly'
    BY <1>3, <2>1, <2>2, <2>41, FairlyStays DEF JobFacts
  <2>5. Orderly'
    <3>1. UNCHANGED <<throws, crashes, kept>> /\ forked \subseteq forked'
      BY <1>31 DEF LateReject
    <3>2. \A k \in jobs' : k.b \in Bookings
      BY <1>3, <1>31 DEF JobFacts, LateReject
    <3>3. OffersOnlyGo
      BY <1>31 DEF OffersOnlyGo, Types, KeyTypes, NoOffer, LateReject
    <3>4. \A c \in Bookings : leg'[c] = "awaiting" => Awaiting(c)
      BY <1>31 DEF Awaiting, Types, BookingTypes, LateReject
    <3>5. \A c \in Bookings : leg'[c] = "awaiting" /\ c \notin forked' /\ Undisturbed
            /\ (\E i \in jobs : i.b = c /\ Expects(i)) =>
                 offer'[c].to = None \/ \E k \in jobs' : k.b = c /\ Expects(k)
      BY <1>31 DEF LateReject
    <3>6. \A k \in jobs' : k.b \in Bookings /\ leg'[k.b] = "awaiting" /\ k.b \notin forked'
            /\ (k.at = "fail" \/ k.name = "search") =>
               \/ candidates'[k.b] = {}
               \/ \E i \in jobs : i.b = k.b /\ (i.at = "fail" \/ i.name = "search")
      BY <1>31 DEF Moves, Adds, LateReject
    <3>7. Undisturbed' => Undisturbed
      BY <3>1 DEF Undisturbed
    <3>8. CASE ~Undisturbed
      BY <3>7, <3>8 DEF Orderly
    <3>9. CASE Undisturbed
      BY <1>3, <2>2, <3>1, <3>2, <3>3, <3>4, <3>5, <3>6, <3>7, <3>9, OrderlyStays
         DEF JobFacts
    <3> QED BY <3>8, <3>9
  <2> QED BY <2>4, <2>5 DEF AskInv
<1>32. ASSUME NEW d \in Drivers, NEW b \in Bookings, NEW do \in Replies,
               ReadsOffer(d, b, do) PROVE AskInv'
  <2>1. \A c \in Bookings : Apart(c)' => Apart(c)
    BY <1>32, <1>3 DEF Apart, ReadsOffer, Ask
  <2>2. \A c \in Bookings : candidates'[c] \subseteq candidates[c]
    BY <1>32 DEF Types, KeyTypes, ReadsOffer, Ask
  <2>41. UNCHANGED asked /\ \A k \in jobs' : Picked(k) => k \in jobs
    BY <1>32 DEF Picked, Moves, Adds, ReadsOffer, Ask
  <2>4. Fairly'
    BY <1>3, <2>1, <2>2, <2>41, FairlyStays DEF JobFacts
  <2>5. Orderly'
    <3>1. UNCHANGED <<throws, crashes, kept>> /\ forked \subseteq forked'
      BY <1>32 DEF ReadsOffer, Ask
    <3>2. \A k \in jobs' : k.b \in Bookings
      BY <1>3, <1>32 DEF JobFacts, ReadsOffer, Ask
    <3>3. OffersOnlyGo
      BY <1>32 DEF OffersOnlyGo, Types, KeyTypes, NoOffer, ReadsOffer, Ask
    <3>4. \A c \in Bookings : leg'[c] = "awaiting" => Awaiting(c)
      BY <1>32 DEF Awaiting, Types, BookingTypes, ReadsOffer, Ask
    <3>5. \A c \in Bookings : leg'[c] = "awaiting" /\ c \notin forked' /\ Undisturbed
            /\ (\E i \in jobs : i.b = c /\ Expects(i)) =>
                 offer'[c].to = None \/ \E k \in jobs' : k.b = c /\ Expects(k)
      BY <1>32 DEF ReadsOffer, Ask
    <3>6. \A k \in jobs' : k.b \in Bookings /\ leg'[k.b] = "awaiting" /\ k.b \notin forked'
            /\ (k.at = "fail" \/ k.name = "search") =>
               \/ candidates'[k.b] = {}
               \/ \E i \in jobs : i.b = k.b /\ (i.at = "fail" \/ i.name = "search")
      BY <1>32 DEF Moves, Adds, ReadsOffer, Ask
    <3>7. Undisturbed' => Undisturbed
      BY <3>1 DEF Undisturbed
    <3>8. CASE ~Undisturbed
      BY <3>7, <3>8 DEF Orderly
    <3>9. CASE Undisturbed
      BY <1>3, <2>2, <3>1, <3>2, <3>3, <3>4, <3>5, <3>6, <3>7, <3>9, OrderlyStays
         DEF JobFacts
    <3> QED BY <3>8, <3>9
  <2> QED BY <2>4, <2>5 DEF AskInv
<1>33. CASE UNCHANGED vars
  <2>1. UNCHANGED <<booking, keys, fleet, queue, request, history>>
    BY <1>33 DEF vars
  <2> QED BY <2>1
             DEF AskInv, Orderly, Fairly, Undisturbed, Awaiting, Apart, Picked,
                 Expects
<1> QED
  BY <1>5, <1>6, <1>7, <1>8, <1>9, <1>10, <1>11, <1>12, <1>13, <1>14, <1>15, <1>16,
     <1>17, <1>18, <1>19, <1>20, <1>20a, <1>21, <1>22, <1>23, <1>24, <1>25, <1>26, <1>27,
     <1>28, <1>29, <1>30, <1>31, <1>32, <1>33
  DEF Next, JobRuns, DriverReplies

------------------------------------------------------------------------------
(* Who makes an offer. *)

\* An offer to somebody new is CreateOffer's.
OffersMade ==
    \/ \A c \in Bookings : offer'[c].to \in {offer[c].to, None}
    \/ \E j \in jobs : CreateOffer(j)

\* Every action but CreateOffer leaves offers as they are, or drops them.
LEMMA OffersMadeStep == Types /\ ChainInv /\ [Next]_vars => OffersMade
<1> SUFFICES ASSUME Types, ChainInv, [Next]_vars PROVE OffersMade
  OBVIOUS
<1> USE DEF keys
<1>1. ASSUME NEW b \in Bookings, PickupPaid(b) PROVE OffersMade
  BY <1>1 DEF OffersMade, Types, KeyTypes, NoOffer, PickupPaid, ScheduleSearch
<1>2. ASSUME NEW b \in Bookings, ReturnRequested(b) PROVE OffersMade
  BY <1>2 DEF OffersMade, Types, KeyTypes, NoOffer, ReturnRequested
<1>3. ASSUME NEW b \in Bookings, UserCancels(b) PROVE OffersMade
  BY <1>3 DEF OffersMade, Types, KeyTypes, NoOffer, UserCancels
<1>4. ASSUME NEW b \in Bookings, OfferExpires(b) PROVE OffersMade
  BY <1>4 DEF OffersMade, Types, KeyTypes, NoOffer, OfferExpires
<1>5. ASSUME NEW j \in jobs, ReturnJob(j) PROVE OffersMade
  BY <1>5 DEF OffersMade, Types, KeyTypes, NoOffer, ReturnJob, ScheduleSearch, Done
<1>6. ASSUME NEW j \in jobs, SearchBegins(j) PROVE OffersMade
  BY <1>6 DEF OffersMade, Types, KeyTypes, NoOffer, SearchBegins, Done
<1>7. ASSUME NEW j \in jobs, SearchFinds(j) PROVE OffersMade
  BY <1>7 DEF OffersMade, Types, KeyTypes, NoOffer, SearchFinds, OfferTo
<1>8. ASSUME NEW j \in jobs, OfferBegins(j) PROVE OffersMade
  BY <1>8 DEF OffersMade, Types, KeyTypes, NoOffer, OfferBegins, Done, Cleanup
<1>9. ASSUME NEW j \in jobs, PopCandidate(j) PROVE OffersMade
  BY <1>9 DEF OffersMade, Types, KeyTypes, NoOffer, PopCandidate
<1>10. ASSUME NEW j \in jobs, CheckCandidate(j) PROVE OffersMade
  BY <1>10 DEF OffersMade, Types, KeyTypes, NoOffer, CheckCandidate
<1>11. ASSUME NEW j \in jobs, CreateOffer(j) PROVE OffersMade
  BY <1>11 DEF OffersMade
<1>12. ASSUME NEW j \in jobs, ArmTimeout(j) PROVE OffersMade
  BY <1>12 DEF OffersMade, Types, KeyTypes, NoOffer, ArmTimeout
<1>13. ASSUME NEW j \in jobs, SkipCandidate(j) PROVE OffersMade
  BY <1>13 DEF OffersMade, Types, KeyTypes, NoOffer, SkipCandidate, MoveOn, OfferTo
<1>14. ASSUME NEW j \in jobs, TimeoutReads(j) PROVE OffersMade
  BY <1>14 DEF OffersMade, Types, KeyTypes, NoOffer, TimeoutReads, ClearOffer, Done
<1>15. ASSUME NEW j \in jobs, TimeoutActs(j) PROVE OffersMade
  BY <1>15
     DEF OffersMade, Types, KeyTypes, NoOffer, TimeoutActs, ClearOffer, MoveOn,
         OfferTo
<1>16. ASSUME NEW j \in jobs, FailSearch(j) PROVE OffersMade
  BY <1>16
     DEF OffersMade, Types, KeyTypes, NoOffer, FailSearch, CancelPickup, MarkReturn, Unlocked, InListener,
         Cleanup, Done
<1>16a. ASSUME NEW j \in jobs, GivingUpFails(j) PROVE OffersMade
  BY <1>16a
     DEF OffersMade, Types, KeyTypes, NoOffer, GivingUpFails, Unlocked, InListener,
         Cleanup, Done
<1>17. ASSUME NEW j \in jobs, JobThrows(j) PROVE OffersMade
  BY <1>17 DEF OffersMade, Types, KeyTypes, NoOffer, JobThrows, RunAgain
<1>18. ASSUME NEW j \in jobs, WorkerDies(j) PROVE OffersMade
  BY <1>18 DEF OffersMade, Types, KeyTypes, NoOffer, WorkerDies, RunAgain
<1>19. ASSUME NEW d \in Drivers, RideAccepted(d) PROVE OffersMade
  BY <1>19, Facts
     DEF OffersMade, Types, KeyTypes, NoOffer, RideAccepted, Answering, TakeLeg,
         ClearOffer
<1>20. ASSUME NEW d \in Drivers, RideSettled(d) PROVE OffersMade
  BY <1>20, Facts
     DEF OffersMade, Types, KeyTypes, NoOffer, RideSettled, Answering, Cleanup
<1>21. ASSUME NEW d \in Drivers, OfferAccepted(d) PROVE OffersMade
  BY <1>21 DEF OffersMade, Types, KeyTypes, NoOffer, OfferAccepted, Answering, TakeLeg
<1>22. ASSUME NEW d \in Drivers, OfferSettled(d) PROVE OffersMade
  BY <1>22, SettledOffers DEF OffersMade, OffersOnlyGo, ChainInv
<1>23. ASSUME NEW d \in Drivers, RideRejected(d) PROVE OffersMade
  BY <1>23, Facts
     DEF OffersMade, Types, KeyTypes, NoOffer, RideRejected, Answering, ClearOffer,
         OfferTo
<1>24. ASSUME NEW d \in Drivers, OfferRejected(d) PROVE OffersMade
  BY <1>24, Facts DEF OffersMade, Types, KeyTypes, NoOffer, OfferRejected, Answering
<1>25. ASSUME NEW d \in Drivers, GoOffline(d) PROVE OffersMade
  BY <1>25 DEF OffersMade, Types, KeyTypes, NoOffer, GoOffline
<1>26. ASSUME NEW d \in Drivers, LockExpires(d) PROVE OffersMade
  BY <1>26 DEF OffersMade, Types, KeyTypes, NoOffer, LockExpires
<1>27. ASSUME NEW d \in Drivers, NEW b \in Bookings, LateReject(d, b) PROVE OffersMade
  BY <1>27 DEF OffersMade, Types, KeyTypes, NoOffer, LateReject
<1>28. ASSUME NEW d \in Drivers, NEW b \in Bookings, NEW do \in Replies,
               ReadsOffer(d, b, do) PROVE OffersMade
  BY <1>28 DEF OffersMade, Types, KeyTypes, NoOffer, ReadsOffer, Ask
<1>29. CASE UNCHANGED vars
  BY <1>29 DEF OffersMade, vars
<1> QED
  BY <1>1, <1>2, <1>3, <1>4, <1>5, <1>6, <1>7, <1>8, <1>9, <1>10, <1>11, <1>12,
     <1>13, <1>14, <1>15, <1>16, <1>16a, <1>17, <1>18, <1>19, <1>20, <1>21, <1>22, <1>23,
     <1>24, <1>25, <1>26, <1>27, <1>28, <1>29
  DEF Next, JobRuns, DriverReplies

------------------------------------------------------------------------------
(* The theorems. *)

\* The inductive invariant of the module.
DispatchInv == Types /\ ChainInv /\ WaitInv /\ AskInv

\* The chain is one in the beginning.
LEMMA ChainInit == Init => ChainInv
  BY NoneIsNobody
  DEF Init, ChainInv, UniqueIds, SearchNumbers, NothingYet, FirstSearch, TakenIsFinal,
      OneChain, JobsOf, Unasked, NoOffer, Idle

\* Together they are inductive: types, one chain of jobs, its waiting leg kept
\* while no giving up is swallowed, and nobody asked twice.
THEOREM DispatchInvariant == Spec => []DispatchInv
<1>1. Init => DispatchInv
  BY TypeInit, ChainInit, WaitInit, AskInit DEF DispatchInv
<1>2. DispatchInv /\ [Next]_vars => DispatchInv'
  BY TypeStep, ChainStep, WaitStep, AskStep DEF DispatchInv
<1> QED BY <1>1, <1>2, PTL DEF Spec

\* Type correctness: every document, key, job and request keeps its shape.
THEOREM TypeCorrect == Spec => []TypeOK
<1>1. DispatchInv => TypeOK
  BY TypesAgree DEF DispatchInv
<1> QED BY <1>1, DispatchInvariant, PTL

\* The jobs of a leg's search are one chain: whatever throws, dies, expires or
\* is accepted, no two jobs of the booking are ever queued or under way unless
\* a rejection or a second request forked the search.
THEOREM SearchIsOneChain == Spec => []OneChain
<1>1. DispatchInv => OneChain
  BY DEF DispatchInv, ChainInv
<1> QED BY <1>1, DispatchInvariant, PTL

\* A leg that waits for a driver has a job, or its search was given up and the
\* user told, unless a worker died, a failed job holds an id of the search, or
\* giving it up failed and nobody looked.
THEOREM WaitingLegIsKept == Spec => []NeverForgotten
<1>1. DispatchInv => NeverForgotten
  BY DEF DispatchInv, WaitInv
<1> QED BY <1>1, DispatchInvariant, PTL

\* Within one search no driver is offered the leg twice.
THEOREM NobodyAskedTwice == Spec => AskedOnce
<1>1. DispatchInv /\ [Next]_vars =>
        [\A b \in Bookings, d \in Drivers :
            offer'[b].to = d /\ offer[b].to # d /\ (b \in forked => searches[b] = 1)
                => d \notin asked[b]]_vars
  <2> SUFFICES ASSUME DispatchInv, [Next]_vars, NEW b \in Bookings, NEW d \in Drivers,
                      offer'[b].to = d, offer[b].to # d, b \in forked => searches[b] = 1
               PROVE  d \notin asked[b]
    OBVIOUS
  <2>1. PICK j \in jobs : CreateOffer(j)
    BY OffersMadeStep, NoneIsNobody DEF OffersMade, DispatchInv
  <2>2. j.b = b /\ j.d = d
    <3>1. j.b \in Bookings /\ j.d \in Drivers
      BY <2>1, Facts DEF DispatchInv, JobFacts, CreateOffer
    <3> QED BY <2>1, <3>1 DEF CreateOffer, DispatchInv, Types, KeyTypes
  <2>3. Apart(b) /\ Picked(j)
    BY <2>1, Facts DEF Apart, Picked, CreateOffer, DispatchInv
  <2> QED BY <2>2, <2>3 DEF DispatchInv, AskInv, Fairly
<1> QED BY <1>1, DispatchInvariant, PTL DEF Spec, AskedOnce

\* While nothing fails, an unforked search is given up only with no candidate
\* left and no offer standing.
THEOREM GivenUpWhenExhausted == Spec => GivenUpOnlyExhausted
<1>1. DispatchInv =>
        \A j \in jobs :
            GivesUp(j) /\ throws = 0 /\ crashes = 0 /\ j.b \notin forked
                => candidates[j.b] = {} /\ offer[j.b].to = None
  <2> SUFFICES ASSUME DispatchInv, NEW j \in jobs, GivesUp(j), throws = 0, crashes = 0,
                      j.b \notin forked
               PROVE  candidates[j.b] = {} /\ offer[j.b].to = None
    OBVIOUS
  <2>1. Undisturbed /\ j.at = "fail" /\ Awaiting(j.b) /\ j.b \in Bookings
    BY Facts DEF Undisturbed, GivesUp, DispatchInv, JobFacts
  <2>2. candidates[j.b] = {}
    BY <2>1 DEF DispatchInv, AskInv, Orderly
  <2>3. \A k \in jobs : k.b = j.b => ~Expects(k)
    BY <2>1 DEF DispatchInv, ChainInv, OneChain, JobsOf, Expects
  <2>4. offer[j.b].to = None
    BY <2>1, <2>3 DEF DispatchInv, AskInv, Orderly
  <2> QED BY <2>2, <2>4
<1> QED BY <1>1, DispatchInvariant, PTL DEF GivenUpOnlyExhausted

==============================================================================
