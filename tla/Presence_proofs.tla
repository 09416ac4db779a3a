--------------------------- MODULE Presence_proofs ---------------------------
(* The index of free drivers and what MongoDB says of them, for any number of    *)
(* drivers, requests at once, restarts and runs of the jobs.                     *)
(*                                                                               *)
(* What the properties say of drivers nobody is at work on (Rests) is kept only  *)
(* because of what each request under way is still good for (Underway): one that *)
(* is about to place a driver has seen him online (Knows), one that will list    *)
(* him by the document it read has read the one MongoDB has (Mends, Shows).  Two *)
(* who are at work on one driver may spoil that for each other: he is doubted    *)
(* then (Met).                                                                   *)
EXTENDS Presence, SequenceTheorems, TLAPS

\* What is left to do of the requests.
Plans ==
    { <<{"add"}, {"save"}, {"sync"}>>, <<{"add"}, {"sync"}>>, <<{"drop"}, {"save"}, {"sync"}>>,
      <<{"drop"}, {"sync"}>>, <<{"save"}, {"sync"}>>, <<{"sync"}>>,
      <<{"sync"}, {"gauge"}, {"place"}>>, <<{"gauge"}, {"place"}>>, <<{"place"}>>, <<{"drop"}>>,
      <<{"sync"}, {"add"}>>, <<{"add"}>>, <<{"off"}, {"sync"}>>,
      <<{"take", "busy"}>>, <<{"take"}>>, <<{"sync", "busy"}>>, <<{"busy"}>>,
      <<{"sync"}, {"commit"}, {"busy"}>>, <<{"commit"}, {"busy"}>>,
      <<{"sync"}, {"commit"}>>, <<{"commit"}>>, <<{"sync"}, {"relieve"}>>, <<{"relieve"}>>,
      <<{"sync"}, {"add", "free"}>>, <<{"add", "free"}>>, <<{"free"}>>,
      <<{"sync"}, {"forget"}>>, <<{"forget"}>>,
      <<{"gauge"}, {"place"}, {"forget"}>>, <<{"place"}, {"forget"}>> }

\* The driver is about to be placed where he is,
Places(p) == "gauge" \in p[1] \/ "place" \in p[1]

\* ... listed or not by the document, for the last time,
Adds(p) == "add" \in p[1] /\ Len(p) = 1

\* ... marked as free,
Frees(p) == "free" \in p[1]

\* ... saved,
Saves(p) == "save" \in p[1] \/ (Len(p) = 3 /\ "save" \in p[2])

\* ... listed or not by the document as it was read, and not read again,
Resyncs(p) ==
    "sync" \in p[1] \/ "add" \in p[1] \/ "save" \in p[1] \/ ("drop" \in p[1] /\ Len(p) > 1)

\* ... put on a trip, or taken off it, by a transaction that may be aborted yet,
Bound(p) == "commit" \in p[1] \/ "relieve" \in p[1]

\* ... put on a trip by an administrator,
Claims(p) == (Len(p) = 1 /\ "commit" \in p[1]) \/ (Len(p) = 2 /\ "commit" \in p[2])

\* ... left on the list, or off it as one who is not free.
Stays(p) ==
    Places(p) \/ Bound(p) \/ "forget" \in p[1] \/ ("free" \in p[1] /\ "add" \notin p[1])
Gone(p)  == ("busy" \in p[1] /\ "take" \notin p[1]) \/ ("drop" \in p[1] /\ Len(p) = 1)

\* Plans that need all of the document,
Whole(p) == "add" \in p[1] \/ ("sync" \in p[1] /\ Len(p) > 1 /\ "add" \in p[2])
\* ... or one that has seen the driver online.
Online(p) == Places(p) \/ ("sync" \in p[1] /\ Len(p) > 1 /\ "gauge" \in p[2])

\* A request.
Requests == [d : Drivers, doc : Docs, full : BOOLEAN, plan : Plans, area : BOOLEAN, there : BOOLEAN]

\* TypeOK, with requests and jobs whole.
Types ==
    /\ db \in [Drivers -> Docs]
    /\ geo \in [Drivers -> SUBSET Sets]
    /\ meta \in [Drivers -> Hashes]
    /\ \A d \in Drivers : ~meta[d].there => meta[d] = NoMeta
    /\ handler \in [Handlers -> Requests \cup {Idle}]
    /\ night \in [at : {"idle", "write", "remove"}, found : SUBSET Drivers]
    /\ boot \subseteq [d : Drivers, doc : Docs]
    /\ search \in [at : {"idle", "verify", "clean"}, found : SUBSET Drivers]
    /\ candidates \cup offered \cup allowed \cup astray \cup lost \subseteq Drivers
    /\ acts \in 0..MaxActs /\ restarts \in 0..MaxRestart

\* The index may say anything of the driver.
Doubted(d) == d \in astray /\ d \in lost

\* ... as of one whom two are at work on, be it the night's job or a search.
Met ==
    /\ \A g \in Handlers, h \in Handlers :
          g # h /\ handler[g].d = handler[h].d /\ handler[h].d # None => Doubted(handler[h].d)
    /\ \A h \in Handlers, b \in boot : handler[h].d = b.d => Doubted(b.d)
    /\ night.at # "idle" \/ search.at # "idle" => \A d \in InHand : Doubted(d)

\* The hash of the driver tells the truth; and he is listed if he is free.
Truthful(d) == Offerable(d) => Fit(db[d])
Listed(d)   == Fit(db[d]) => "global" \in geo[d] /\ ~meta[d].trip

\* The document as it will be saved.
Saving(k) == IF Saves(k.plan) THEN [db[k.d] EXCEPT !.online = k.doc.online] ELSE db[k.d]

\* A request that will place the driver has seen him online; an administrator who
\* puts him on a trip has not seen his document.
Knows(k) ==
    /\ k.full /\ Online(k.plan) => k.doc.online /\ k.doc.active
    /\ Whole(k.plan) => k.full
    /\ Claims(k.plan) => ~k.full

\* What makes the hash true at the request's end,
Mends(k) ==
    /\ Places(k.plan) => Truthful(k.d) /\ (k.full => k.doc = db[k.d])
    /\ Adds(k.plan) \/ Frees(k.plan) => k.doc = db[k.d]
    /\ Frees(k.plan) => (meta[k.d].online => Fit(db[k.d]))
    /\ Bound(k.plan) => Truthful(k.d) /\ (Claims(k.plan) => ~Offerable(k.d))

\* ... and lists the driver if he is free then.
Shows(k) ==
    /\ k.full /\ Resyncs(k.plan) => (Fit(Saving(k)) => Fit(k.doc))
    /\ Stays(k.plan) => Listed(k.d)
    /\ Gone(k.plan) => ~Fit(db[k.d])

\* So are all requests under way.
Good(k) ==
    k # Idle => /\ Knows(k)
                /\ k.d \notin astray => Mends(k)
                /\ k.d \notin lost => Shows(k)

\* All requests under way are.
Underway == \A h \in Handlers, k \in Requests \cup {Idle} : handler[h] = k => Good(k)

\* Drivers nobody is at work on, but the night's job which still has to take some off.
Rests ==
    \A d \in Drivers \ InHand :
       /\ d \notin astray /\ (night.at # "remove" \/ d \notin night.found) => Truthful(d)
       /\ d \notin lost => Listed(d)

\* In the night nobody is online, but whom the job has found.
Nights ==
    \A d \in Drivers :
       ~Doubted(d) /\ night.at # "idle" /\ (night.at = "write" => d \notin night.found)
         => ~db[d].online

\* A search takes those off who are not free.
Searches == \A d \in search.found : search.at = "clean" /\ d \notin lost => ~Fit(db[d])

\* The server's start lists those who were free and are.
Boots == \A b \in boot : Fit(b.doc) /\ (b.d \notin astray => b.doc = db[b.d])

\* The inductive invariant of the module.
PresenceInv == Types /\ Met /\ Underway /\ Rests /\ Nights /\ Searches /\ Boots

(* Plans and requests. *)

\* Heads and tails of plans.
LEMMA Heads ==
    /\ \A a : Head(<<a>>) = a /\ Tail(<<a>>) = <<>> /\ Len(<<a>>) = 1 /\ <<a>> # <<>>
    /\ \A a, b : Head(<<a, b>>) = a /\ Tail(<<a, b>>) = <<b>> /\ Len(<<a, b>>) = 2 /\ <<a, b>> # <<>>
    /\ \A a, b, c : /\ Head(<<a, b, c>>) = a /\ Tail(<<a, b, c>>) = <<b, c>>
                    /\ Len(<<a, b, c>>) = 3 /\ <<a, b, c>> # <<>>
  OBVIOUS

\* What a step leaves of a plan.
Rest(p, step) ==
    LET left == Head(p) \ {step} IN IF left = {} THEN Tail(p) ELSE <<left>> \o Tail(p)

\* ... of one step after the other,
LEMMA RestOfOne ==
    /\ \A a : Rest(<<{a}>>, a) = <<>>
    /\ \A a, b : Rest(<<{a}, b>>, a) = <<b>>
    /\ \A a, b, c : Rest(<<{a}, b, c>>, a) = <<b, c>>
<1>1. \A a : {a} \ {a} = {}
  OBVIOUS
<1> QED BY <1>1, Heads DEF Rest

\* ... and of two in any order.
LEMMA RestOfTwo ==
    ASSUME NEW a, NEW b, a # b
    PROVE  Rest(<<{a, b}>>, a) = <<{b}>> /\ Rest(<<{b, a}>>, a) = <<{b}>>
<1>1. {a, b} \ {a} = {b} /\ {b, a} \ {a} = {b} /\ {b} # {}
  OBVIOUS
<1>2. <<{b}>> \o <<>> = <<{b}>>
  OBVIOUS
<1> QED BY <1>1, <1>2, Heads DEF Rest

\* A request that has done a step.
LEMMA AfterIs ==
    ASSUME NEW k, NEW step
    PROVE  After(k, step) = IF Rest(k.plan, step) = <<>> THEN Idle
                            ELSE [k EXCEPT !.plan = Rest(k.plan, step)]
  BY DEF After, Rest

\* A request has something left to do, and no request has nothing.
LEMMA Fields ==
    ASSUME Types, NEW h \in Handlers, handler[h] # Idle
    PROVE  /\ handler[h] \in Requests /\ handler[h].d \in Drivers /\ handler[h].doc \in Docs
           /\ handler[h].full \in BOOLEAN /\ handler[h].plan \in Plans
           /\ handler[h].area \in BOOLEAN /\ handler[h].there \in BOOLEAN
  BY DEF Types, Requests

\* What an idle handler shows.
LEMMA IdleFields ==
    Idle.d = None /\ Idle.plan = <<>> /\ Idle \notin Requests /\ None \notin Drivers
  BY PresenceAssumption DEF Idle, Requests

\* A handler with a driver or with steps left is not idle.
LEMMA Busy ==
    ASSUME Types, NEW h \in Handlers
    PROVE  /\ handler[h].plan # <<>> => handler[h] # Idle
           /\ handler[h].d # None <=> handler[h] # Idle
           /\ handler[h].d \in Drivers <=> handler[h] # Idle
  BY Fields, IdleFields

\* A request is in a handler's hands.
LEMMA Handed ==
    ASSUME Types, NEW d \in Drivers
    PROVE  d \in InHand <=> (\E h \in Handlers : handler[h].d = d) \/ (\E b \in boot : b.d = d)
  BY IdleFields DEF InHand

\* What goes on of a request.
LEMMA GoesOn ==
    ASSUME NEW k \in Requests, NEW p \in Plans
    PROVE  LET l == [k EXCEPT !.plan = p] IN
           /\ l \in Requests /\ l # Idle
           /\ l.d = k.d /\ l.doc = k.doc /\ l.full = k.full /\ l.plan = p
           /\ l.area = k.area /\ l.there = k.there
  BY IdleFields DEF Requests

\* What begins with the whole document, or a projection of it.
LEMMA RecIs ==
    ASSUME NEW d \in Drivers, NEW doc \in Docs, NEW p \in Plans
    PROVE  /\ Rec(d, doc, p) \in Requests /\ Rec(d, doc, p).d = d /\ Rec(d, doc, p).doc = doc
           /\ Rec(d, doc, p).plan = p /\ Rec(d, doc, p).full
  BY DEF Rec, Idle, Requests, Bare, Docs

\* ... or a projection of it.
LEMMA PartIs ==
    ASSUME NEW d \in Drivers, NEW p \in Plans
    PROVE  /\ Part(d, p) \in Requests /\ Part(d, p).d = d /\ Part(d, p).plan = p /\ ~Part(d, p).full
  BY DEF Part, Idle, Requests, Bare, Docs

(* Requests at work. *)

\* What a step of a request about d leaves as it was.
OnlyOf(d) ==
    /\ db' \in [Drivers -> Docs] /\ geo' \in [Drivers -> SUBSET Sets] /\ meta' \in [Drivers -> Hashes]
    /\ ~meta'[d].there => meta'[d] = NoMeta
    /\ \A e \in Drivers \ {d} : db'[e] = db[e] /\ geo'[e] = geo[e] /\ meta'[e] = meta[e]
    /\ \A e \in Drivers \ {d} : (e \in astray' <=> e \in astray) /\ (e \in lost' <=> e \in lost)
    /\ candidates' \cup offered' \cup allowed' \cup astray' \cup lost' \subseteq Drivers
    /\ acts' \in 0..MaxActs /\ restarts' \in 0..MaxRestart
    /\ UNCHANGED <<night, boot, search>>

\* One request becomes another, or ends.
Turns(h, k) == handler'[h] = k /\ \A g \in Handlers \ {h} : handler'[g] = handler[g]

\* What other drivers' requests are good for stays.
LEMMA OthersGood ==
    ASSUME NEW d \in Drivers, OnlyOf(d), NEW k \in Requests \cup {Idle}, Good(k), k.d # d
    PROVE  Good(k)'
<1> SUFFICES ASSUME k # Idle PROVE Good(k)'
  BY DEF Good
<1>1. /\ k.d \in Drivers \ {d} /\ db'[k.d] = db[k.d] /\ geo'[k.d] = geo[k.d]
      /\ meta'[k.d] = meta[k.d] /\ (k.d \in astray' <=> k.d \in astray)
      /\ (k.d \in lost' <=> k.d \in lost)
  BY DEF OnlyOf, Requests
<1>2. Mends(k) => Mends(k)'
  BY <1>1 DEF Mends, Truthful, Offerable
<1>3. Shows(k) => Shows(k)'
  BY <1>1 DEF Shows, Saving, Listed
<1> QED BY <1>1, <1>2, <1>3 DEF Good, Knows

\* Of a driver whom others are at work on, anything may be.
LEMMA TouchedDoubted ==
    ASSUME Types, Met, NEW h \in Handlers, handler[h] # Idle, Touched(handler[h].d, Handlers \ {h})
    PROVE  Doubted(handler[h].d)
<1>1. handler[h].d \in Drivers /\ handler[h].d # None /\ handler[h].d \in InHand
  BY Fields, Handed, IdleFields
<1>2. CASE \E g \in Handlers \ {h} : handler[g].d = handler[h].d
  BY <1>1, <1>2 DEF Met
<1>3. CASE night.at # "idle" \/ search.at # "idle"
  BY <1>1, <1>3 DEF Met
<1>4. CASE \E b \in boot : b.d = handler[h].d
  BY <1>4 DEF Met
<1> QED BY <1>2, <1>3, <1>4 DEF Touched

\* A request of d's begins, goes on or ends.  If others are at work on d, nothing is
\* asked of it.
LEMMA Working ==
    ASSUME PresenceInv, NEW h \in Handlers, NEW d \in Drivers, handler[h].d \in {d, None},
           NEW k \in Requests \cup {Idle}, k = Idle \/ k.d = d, Turns(h, k),
           handler' \in [Handlers -> Requests \cup {Idle}], OnlyOf(d),
           Touched(d, Handlers \ {h}) => d \in astray' /\ d \in lost',
           k # Idle => Knows(k),
           ~Touched(d, Handlers \ {h}) =>
              /\ k # Idle => (d \notin astray' => Mends(k)') /\ (d \notin lost' => Shows(k)')
              /\ k = Idle => (d \notin astray' => Truthful(d)') /\ (d \notin lost' => Listed(d)')
    PROVE  PresenceInv'
<1> USE DEF PresenceInv
<1>1. d # None /\ k \in Requests \cup {Idle}
  BY IdleFields
<1>2. Touched(d, Handlers \ {h}) => Doubted(d)'
  BY DEF Doubted
<1>3. \A e \in Drivers \ {d} : Doubted(e)' <=> Doubted(e)
  BY DEF OnlyOf, Doubted
<1>4. Types'
  BY DEF Types, OnlyOf
<1>5. k.d = d \/ k.d = None
  BY IdleFields
<1>6. \A e \in Drivers \ {d} : e \in InHand' => e \in InHand
  <2>1. \A e \in Drivers \ {d} :
          (\E g \in Handlers : handler'[g].d = e) => (\E g \in Handlers : handler[g].d = e)
    BY <1>5, IdleFields DEF Turns
  <2>2. boot' = boot
    BY DEF OnlyOf
  <2>3. \A e \in Drivers :
          e \in InHand' <=> (\E g \in Handlers : handler'[g].d = e) \/ (\E b \in boot' : b.d = e)
    BY IdleFields DEF InHand
  <2> QED BY <2>1, <2>2, <2>3, Handed
<1>7. night' = night /\ search' = search /\ boot' = boot
  BY DEF OnlyOf
<1>8. Met'
  <2>1. ASSUME NEW g \in Handlers, NEW i \in Handlers, NEW e, g # i, e # None,
               handler'[g].d = e, handler'[i].d = e
        PROVE  e \in astray' /\ e \in lost'
    <3>3. CASE e # d
      <4>1. handler[g].d = e /\ handler[i].d = e
        BY <1>5, <2>1, <3>3 DEF Turns
      <4>2. e \in Drivers /\ Doubted(e)
        BY <2>1, <4>1, Busy, Fields DEF Met
      <4> QED BY <1>3, <3>3, <4>2 DEF Doubted
    <3>4. CASE e = d
      <4>1. \E f \in Handlers \ {h} : handler[f].d = d
        BY <2>1, <3>4 DEF Turns
      <4> QED BY <1>2, <3>4, <4>1 DEF Touched, Doubted
    <3> QED BY <3>3, <3>4
  <2>2. ASSUME NEW g \in Handlers, NEW b \in boot', NEW e, handler'[g].d = e, b.d = e
        PROVE  e \in astray' /\ e \in lost'
    <3>1. b \in boot /\ e \in Drivers
      BY <1>7, <2>2 DEF Types
    <3>2. CASE e # d
      <4>1. handler[g].d = e
        BY <1>5, <2>2, <3>1, <3>2, IdleFields DEF Turns
      <4> QED BY <1>3, <2>2, <3>1, <3>2, <4>1 DEF Met, Doubted
    <3>3. CASE e = d
      BY <1>2, <2>2, <3>1, <3>3 DEF Touched, Doubted
    <3> QED BY <3>2, <3>3
  <2>3. ASSUME night'.at # "idle" \/ search'.at # "idle", NEW e \in InHand'
        PROVE  e \in astray' /\ e \in lost'
    <3>1. e \in Drivers
      <4>1. InHand' \subseteq Drivers
        BY <1>4 DEF InHand, Types, Requests, Idle
      <4> QED BY <4>1
    <3>3. CASE e = d
      BY <1>2, <1>7, <2>3, <3>3 DEF Touched, Doubted
    <3>4. CASE e # d
      <4>1. Doubted(e)
        BY <1>6, <1>7, <2>3, <3>1, <3>4 DEF Met
      <4> QED BY <1>3, <3>1, <3>4, <4>1 DEF Doubted
    <3> QED BY <3>3, <3>4
  <2>4. ASSUME NEW g \in Handlers, NEW i \in Handlers, g # i,
               handler'[g].d = handler'[i].d, handler'[i].d # None
        PROVE  handler'[i].d \in astray' /\ handler'[i].d \in lost'
    BY <2>1, <2>4
  <2>5. ASSUME NEW g \in Handlers, NEW b \in boot', handler'[g].d = b.d
        PROVE  b.d \in astray' /\ b.d \in lost'
    BY <2>2, <2>5
  <2> QED BY <2>3, <2>4, <2>5 DEF Met, Doubted
<1>9. Underway'
  <2>1. Good(k)'
    BY <1>1, <1>2 DEF Good, Knows, Doubted
  <2>2. ASSUME NEW g \in Handlers \ {h}, NEW l \in Requests \cup {Idle}, handler[g] = l
        PROVE  Good(l)'
    <3>1. Good(l)
      BY <2>2 DEF Underway
    <3>2. CASE l.d # d
      BY <3>1, <3>2, OthersGood
    <3>3. CASE l.d = d
      <4>1. Doubted(d)'
        BY <1>2, <2>2, <3>3 DEF Touched
      <4> QED BY <3>1, <3>3, <4>1 DEF Good, Doubted, Knows
    <3> QED BY <3>2, <3>3
  <2> QED BY <2>1, <2>2 DEF Underway, Turns
<1>10. Rests'
  <2> SUFFICES ASSUME NEW e \in Drivers, e \notin InHand'
               PROVE  /\ e \notin astray' /\ (night.at # "remove" \/ e \notin night.found)
                           => Truthful(e)'
                      /\ e \notin lost' => Listed(e)'
    BY <1>7 DEF Rests
  <2>1. CASE e # d
    <3>1. e \notin InHand
      <4>1. \A g \in Handlers : handler[g].d = e => handler'[g].d = e
        BY <2>1, IdleFields DEF Turns
      <4>2. e \in InHand' <=> (\E g \in Handlers : handler'[g].d = e) \/ (\E b \in boot' : b.d = e)
        BY IdleFields DEF InHand
      <4> QED BY <1>7, <4>1, <4>2, Handed
    <3>2. /\ db'[e] = db[e] /\ geo'[e] = geo[e] /\ meta'[e] = meta[e]
          /\ (e \in astray' <=> e \in astray) /\ (e \in lost' <=> e \in lost)
      BY <2>1 DEF OnlyOf
    <3> QED BY <3>1, <3>2 DEF Rests, Truthful, Listed, Offerable
  <2>2. CASE e = d
    <3>1. k = Idle
      <4>1. k # Idle => k.d = d /\ handler'[h] = k
        BY DEF Turns
      <4>2. \A g \in Handlers : handler'[g].d = e => e \in InHand'
        BY IdleFields DEF InHand
      <4> QED BY <2>2, <4>1, <4>2
    <3>2. CASE Touched(d, Handlers \ {h})
      BY <1>2, <2>2, <3>2 DEF Doubted
    <3> QED BY <2>2, <3>1, <3>2
  <2> QED BY <2>1, <2>2
<1>11. Nights'
  <2> SUFFICES ASSUME NEW e \in Drivers, ~Doubted(e)', night.at # "idle",
                      night.at = "write" => e \notin night.found
               PROVE  ~db'[e].online
    BY <1>7 DEF Nights
  <2>1. e # d
    BY <1>2 DEF Touched
  <2>2. ~Doubted(e) /\ db'[e] = db[e]
    BY <1>3, <2>1 DEF OnlyOf
  <2> QED BY <2>2 DEF Nights
<1>12. Searches'
  <2> SUFFICES ASSUME NEW e \in search.found, search.at = "clean", e \notin lost'
               PROVE  ~Fit(db'[e])
    BY <1>7 DEF Searches, Fit
  <2>1. e # d
    BY <1>2 DEF Touched, Doubted
  <2>2. e \in Drivers
    BY DEF Types
  <2>3. e \notin lost /\ db'[e] = db[e]
    BY <2>1, <2>2 DEF OnlyOf
  <2> QED BY <2>3 DEF Searches
<1>13. Boots'
  <2> SUFFICES ASSUME NEW b \in boot PROVE Fit(b.doc) /\ (b.d \notin astray' => b.doc = db'[b.d])
    BY <1>7 DEF Boots, Fit
  <2>1. CASE b.d = d
    <3>1. b.d \in astray'
      BY <1>2, <2>1 DEF Touched, Doubted
    <3> QED BY <3>1 DEF Boots
  <2>2. CASE b.d # d
    <3>1. b.d \in Drivers
      BY DEF Types
    <3> QED BY <2>2, <3>1 DEF Boots, OnlyOf
  <2> QED BY <2>1, <2>2
<1> QED BY <1>4, <1>8, <1>9, <1>10, <1>11, <1>12, <1>13

\* ... goes on or ends,
LEMMA Going ==
    ASSUME PresenceInv, NEW h \in Handlers, NEW d \in Drivers, handler[h].d = d,
           NEW k \in Requests \cup {Idle}, k = Idle \/ k.d = d,
           handler' = [handler EXCEPT ![h] = k], OnlyOf(d),
           Touched(d, Handlers \ {h}) => (d \in astray => d \in astray') /\ (d \in lost
             => d \in lost'),
           k # Idle => Knows(k),
           ~Touched(d, Handlers \ {h}) =>
              /\ k # Idle => (d \notin astray' => Mends(k)') /\ (d \notin lost' => Shows(k)')
              /\ k = Idle => (d \notin astray' => Truthful(d)') /\ (d \notin lost' => Listed(d)')
    PROVE  PresenceInv'
<1>1. Turns(h, k) /\ handler' \in [Handlers -> Requests \cup {Idle}]
  BY DEF PresenceInv, Types, Turns
<1>2. handler[h] # Idle
  BY IdleFields
<1>3. Touched(d, Handlers \ {h}) => d \in astray' /\ d \in lost'
  BY <1>2, TouchedDoubted DEF Doubted, PresenceInv
<1> QED BY <1>1, <1>3, Working

\* ... or begins.
LEMMA Beginning ==
    ASSUME PresenceInv, NEW h \in Handlers, NEW k \in Requests, Begin(h, k),
           db' \in [Drivers -> Docs], \A e \in Drivers \ {k.d} : db'[e] = db[e],
           allowed' \subseteq Drivers, Knows(k),
           k.d \notin astray /\ Truthful(k.d) => Mends(k)',
           k.d \notin lost /\ Listed(k.d) => Shows(k)'
    PROVE  PresenceInv'
<1> DEFINE d == k.d
<1>1. d \in Drivers /\ handler[h].d = None
  BY IdleFields DEF Requests, Begin
<1>2. Turns(h, k) /\ handler' \in [Handlers -> Requests \cup {Idle}]
  BY DEF PresenceInv, Types, Turns, Begin
<1>3. Touched(d, Handlers) <=> Touched(d, Handlers \ {h})
  BY <1>1, IdleFields DEF Touched
<1>4. OnlyOf(d)
  <2>1. /\ geo' = geo /\ meta' = meta /\ night' = night /\ boot' = boot /\ search' = search
        /\ candidates' = candidates /\ offered' = offered /\ restarts' = restarts
        /\ acts < MaxActs /\ acts' = acts + 1
    BY DEF Begin, index, jobs, offers
  <2>2. acts' \in 0..MaxActs /\ restarts' \in 0..MaxRestart
    BY <2>1, PresenceAssumption DEF PresenceInv, Types
  <2>3. /\ \A e \in Drivers \ {d} : (e \in astray' <=> e \in astray) /\ (e \in lost' <=> e \in lost)
        /\ astray' \subseteq Drivers /\ lost' \subseteq Drivers
    BY <1>1 DEF Begin, Doubt, PresenceInv, Types
  <2> QED BY <1>1, <2>1, <2>2, <2>3 DEF OnlyOf, PresenceInv, Types
<1>5. Touched(d, Handlers) => d \in astray' /\ d \in lost'
  BY DEF Begin, Doubt
<1>6. ~Touched(d, Handlers) =>
         (d \notin astray' => d \notin astray /\ Truthful(d)) /\ (d \notin lost'
           => d \notin lost /\ Listed(d))
  <2> SUFFICES ASSUME ~Touched(d, Handlers)
               PROVE  (d \notin astray => Truthful(d)) /\ (d \notin lost => Listed(d))
    BY DEF Begin, Doubt
  <2>1. d \notin InHand /\ night.at = "idle"
    BY <1>1, Handed DEF Touched, PresenceInv
  <2> QED BY <1>1, <2>1 DEF PresenceInv, Rests
<1>7. k # Idle
  BY IdleFields
<1> HIDE DEF d
<1>8. k.d = d
  BY DEF d
<1>9. ~Touched(d, Handlers) => (d \notin astray' => Mends(k)') /\ (d \notin lost' => Shows(k)')
  BY <1>6, <1>8
<1> QED BY <1>1, <1>2, <1>3, <1>4, <1>5, <1>7, <1>8, <1>9, Working
(* The steps of a request. *)

\* What a request has left when it has done a step.
LEMMA Leaves ==
    ASSUME PresenceInv, NEW h \in Handlers, NEW step, At(h, step)
    PROVE  /\ handler[h] \in Requests /\ handler[h] # Idle /\ handler[h].d \in Drivers
           /\ handler[h].plan \in Plans /\ step \in Head(handler[h].plan) /\ Good(handler[h])
           /\ Rest(handler[h].plan, step) = <<>> => After(handler[h], step) = Idle
           /\ Rest(handler[h].plan, step) \in Plans =>
                 /\ After(handler[h], step) \in Requests /\ After(handler[h], step) # Idle
                 /\ After(handler[h], step).d = handler[h].d
                 /\ After(handler[h], step).doc = handler[h].doc
                 /\ After(handler[h], step).full = handler[h].full
                 /\ After(handler[h], step).there = handler[h].there
                 /\ After(handler[h], step).plan = Rest(handler[h].plan, step)
<1>1. handler[h] \in Requests /\ handler[h] # Idle /\ handler[h].d \in Drivers /\
        handler[h].plan \in Plans
  BY Busy, Fields DEF At, PresenceInv
<1>2. <<>> \notin Plans
  BY DEF Plans
<1>3. Good(handler[h])
  BY <1>1 DEF PresenceInv, Underway
<1> QED BY <1>1, <1>2, <1>3, AfterIs, GoesOn DEF At

\* Where the driver is about to be placed.
LEMMA GaugePlans ==
    ASSUME NEW p \in Plans, "gauge" \in Head(p)
    PROVE  /\ Rest(p, "gauge") \in Plans
           /\ \/ p = <<{"gauge"}, {"place"}>> /\ Rest(p, "gauge") = <<{"place"}>>
              \/ /\ p = <<{"gauge"}, {"place"}, {"forget"}>>
                 /\ Rest(p, "gauge") = <<{"place"}, {"forget"}>>
<1>1. p = <<{"gauge"}, {"place"}>> \/ p = <<{"gauge"}, {"place"}, {"forget"}>>
  BY DEF Plans
<1> QED BY <1>1, RestOfOne DEF Plans

\* ... and once he is placed.
LEMMA PlacePlans ==
    ASSUME NEW p \in Plans, "place" \in Head(p)
    PROVE  \/ p = <<{"place"}>> /\ Rest(p, "place") = <<>>
           \/ p = <<{"place"}, {"forget"}>> /\ Rest(p, "place") = <<{"forget"}>>
<1>1. p = <<{"place"}>> \/ p = <<{"place"}, {"forget"}>>
  BY DEF Plans
<1> QED BY <1>1, RestOfOne

\* A plan of steps that ask nothing of the driver, and what those that do ask.
LEMMA LastPlans ==
    /\ <<{"forget"}>> \in Plans
    /\ \A p : p = <<{"forget"}>> =>
          /\ Stays(p) /\ ~Places(p) /\ ~Adds(p) /\ ~Frees(p) /\ ~Saves(p) /\ ~Resyncs(p) /\ ~Gone(p)
          /\ ~Whole(p) /\ ~Online(p) /\ ~Bound(p) /\ ~Claims(p)
    /\ \A p : p \in {<<{"gauge"}, {"place"}>>, <<{"gauge"}, {"place"}, {"forget"}>>,
                     <<{"place"}>>, <<{"place"}, {"forget"}>>} =>
          /\ Stays(p) /\ Places(p) /\ ~Adds(p) /\ ~Frees(p) /\ ~Saves(p) /\ ~Resyncs(p) /\ ~Gone(p)
          /\ ~Whole(p) /\ Online(p) /\ ~Bound(p) /\ ~Claims(p)
  BY DEF Plans, Stays, Places, Adds, Frees, Saves, Resyncs, Gone, Whole, Online, Bound, Claims

\* A position is about to be stored.
LEMMA GaugeStep ==
    ASSUME PresenceInv, NEW h \in Handlers, Gauge(h)
    PROVE  PresenceInv'
<1>1. PICK k : k = handler[h]
  OBVIOUS
<1>2. PICK l : l = [After(handler[h], "gauge") EXCEPT !.there = meta[k.d].there]
  OBVIOUS
<1>3. k \in Requests /\ k # Idle /\ k.d \in Drivers /\ k.plan \in Plans /\ Good(k)
  BY <1>1, Leaves DEF Gauge
<1>4. "gauge" \in Head(k.plan)
  BY <1>1, Leaves DEF Gauge
<1>5. l \in Requests /\ l # Idle /\ l.d = k.d /\ l.doc = k.doc /\ l.full = k.full
      /\ l.plan = Rest(k.plan, "gauge")
  <2>1. meta[k.d].there \in BOOLEAN
    BY <1>3 DEF PresenceInv, Types, Hashes
  <2>2. /\ After(handler[h], "gauge") \in Requests
        /\ After(handler[h], "gauge").d = k.d /\ After(handler[h], "gauge").doc = k.doc
        /\ After(handler[h], "gauge").full = k.full
        /\ After(handler[h], "gauge").plan = Rest(k.plan, "gauge")
    BY <1>1, <1>3, <1>4, GaugePlans, Leaves DEF Gauge
  <2>3. l \in Requests /\ l.d = k.d /\ l.doc = k.doc /\ l.full = k.full
        /\ l.plan = Rest(k.plan, "gauge")
    BY <1>2, <2>1, <2>2 DEF Requests
  <2> QED BY <2>3, IdleFields
<1>6. Places(k.plan) /\ Online(k.plan) /\ ~Whole(k.plan) /\ Stays(k.plan)
  BY <1>3, <1>4, GaugePlans, LastPlans
<1>7. /\ Places(l.plan) /\ Online(l.plan) /\ ~Whole(l.plan) /\ Stays(l.plan) /\ ~Adds(l.plan)
      /\ ~Frees(l.plan) /\ ~Resyncs(l.plan) /\ ~Gone(l.plan) /\ ~Bound(l.plan) /\ ~Claims(l.plan)
  BY <1>3, <1>4, <1>5, GaugePlans, LastPlans
<1>8. OnlyOf(k.d) /\ db' = db /\ geo' = geo /\ meta' = meta /\ astray' = astray /\ lost' = lost
  BY <1>3 DEF Gauge, OnlyOf, PresenceInv, Types, index, jobs, offers, history, counts
<1>9. Knows(l)
  BY <1>3, <1>5, <1>6, <1>7 DEF Good, Knows
<1>10. k.d \notin astray => Mends(l)'
  BY <1>3, <1>5, <1>6, <1>7, <1>8 DEF Good, Mends, Truthful, Offerable
<1>11. k.d \notin lost => Shows(l)'
  BY <1>3, <1>5, <1>6, <1>7, <1>8 DEF Good, Shows, Listed
<1>12. handler' = [handler EXCEPT ![h] = l]
  BY <1>1, <1>2 DEF Gauge
<1> QED BY <1>1, <1>3, <1>5, <1>8, <1>9, <1>10, <1>11, <1>12, Going

\* A position is stored: it lists the driver, free if there was no hash.
LEMMA PlaceStep ==
    ASSUME PresenceInv, NEW h \in Handlers, Place(h)
    PROVE  PresenceInv'
<1>1. PICK k : k = handler[h]
  OBVIOUS
<1>2. PICK l : l = After(handler[h], "place")
  OBVIOUS
<1>3. k \in Requests /\ k # Idle /\ k.d \in Drivers /\ k.plan \in Plans /\ Good(k)
  BY <1>1, Leaves DEF Place
<1>4. "place" \in Head(k.plan)
  BY <1>1, Leaves DEF Place
<1>5. l = Idle \/ (l \in Requests /\ l # Idle /\ l.d = k.d /\ l.plan = <<{"forget"}>>)
  BY <1>1, <1>2, <1>3, <1>4, PlacePlans, LastPlans, Leaves DEF Place
<1>6. Places(k.plan) /\ Online(k.plan) /\ Stays(k.plan)
  BY <1>3, <1>4, PlacePlans, LastPlans
<1>7. /\ geo' = [geo EXCEPT ![k.d] = @ \cup IF k.area THEN Sets ELSE {"global"}]
      /\ meta' = [meta EXCEPT ![k.d] = IF k.there THEN [@ EXCEPT !.there = TRUE]
                                       ELSE [Known EXCEPT !.area = k.area]]
      /\ astray' = IF ~k.there /\ (k.doc.trip \/ ~k.full) THEN astray \cup {k.d} ELSE astray
      /\ lost' = lost /\ db' = db
  BY <1>1 DEF Place
<1>8. k.there \in BOOLEAN /\ k.area \in BOOLEAN /\ k.full \in BOOLEAN /\ k.doc \in Docs
  BY <1>3 DEF Requests
<1>9. /\ "global" \in geo'[k.d] /\ geo' \in [Drivers -> SUBSET Sets]
      /\ \A e \in Drivers \ {k.d} : geo'[e] = geo[e]
  BY <1>3, <1>7, <1>8 DEF PresenceInv, Types, Sets
<1>10. /\ k.there => /\ meta'[k.d].there /\ meta'[k.d].online = meta[k.d].online
                     /\ meta'[k.d].trip = meta[k.d].trip
       /\ ~k.there => ~meta'[k.d].trip /\ meta'[k.d].there
       /\ meta' \in [Drivers -> Hashes] /\ \A e \in Drivers \ {k.d} : meta'[e] = meta[e]
  <2> DEFINE r == IF k.there THEN [meta[k.d] EXCEPT !.there = TRUE]
                             ELSE [Known EXCEPT !.area = k.area]
  <2>1. meta[k.d] \in Hashes /\ meta \in [Drivers -> Hashes]
    BY <1>3 DEF PresenceInv, Types
  <2>2. r \in Hashes /\ r.there
    BY <1>8, <2>1 DEF Hashes, Known
  <2>3. /\ k.there => r.online = meta[k.d].online /\ r.trip = meta[k.d].trip
        /\ ~k.there => ~r.trip
    BY <1>8, <2>1 DEF Hashes, Known
  <2>4. meta' = [meta EXCEPT ![k.d] = r]
    BY <1>7
  <2> HIDE DEF r
  <2>5. meta'[k.d] = r
    BY <1>3, <2>1, <2>4
  <2> QED BY <1>3, <2>1, <2>2, <2>3, <2>4, <2>5
<1>11. OnlyOf(k.d)
  BY <1>3, <1>7, <1>9, <1>10 DEF Place, OnlyOf, PresenceInv, Types, jobs, offers, counts
<1>12. k.d \notin astray' => Truthful(k.d)'
  <2> SUFFICES ASSUME k.d \notin astray', meta'[k.d].there, meta'[k.d].online, ~meta'[k.d].trip
               PROVE  Fit(db[k.d])
    BY <1>7 DEF Truthful, Offerable, Fit
  <2>1. k.d \notin astray /\ (~k.there => ~k.doc.trip /\ k.full)
    BY <1>7
  <2>2. Truthful(k.d) /\ (k.full => k.doc = db[k.d] /\ k.doc.online /\ k.doc.active)
    BY <1>3, <1>6, <2>1 DEF Good, Mends, Knows
  <2>3. CASE k.there
    <3>1. meta[k.d].online /\ ~meta[k.d].trip
      BY <1>10, <2>3
    <3>2. meta[k.d].there
      BY <1>3, <3>1 DEF PresenceInv, Types, NoMeta
    <3> QED BY <2>2, <3>1, <3>2 DEF Truthful, Offerable
  <2>4. CASE ~k.there
    BY <2>1, <2>2, <2>4 DEF Fit
  <2> QED BY <2>3, <2>4, <1>8
<1>13. k.d \notin lost' => Listed(k.d)'
  <2> SUFFICES ASSUME k.d \notin lost, Fit(db[k.d]) PROVE "global" \in geo'[k.d] /\ ~meta'[k.d].trip
    BY <1>7 DEF Listed, Fit
  <2>1. ~meta[k.d].trip
    BY <1>3, <1>6 DEF Good, Shows, Listed
  <2> QED BY <1>8, <1>9, <1>10, <2>1
<1>14. l # Idle => /\ Knows(l) /\ (k.d \notin astray' => Mends(l)') /\ (k.d \notin lost' => Shows(l)')
  <2> SUFFICES ASSUME l # Idle PROVE /\ Knows(l) /\ Mends(l)' /\ (k.d \notin lost' => Shows(l)')
    OBVIOUS
  <2>1. l.d = k.d /\ l.plan = <<{"forget"}>>
    BY <1>5
  <2> QED BY <1>13, <2>1, LastPlans DEF Knows, Mends, Shows
<1>15. handler' = [handler EXCEPT ![h] = l]
  BY <1>1, <1>2 DEF Place, Done
<1>16. k.d \in astray => k.d \in astray'
  BY <1>7
<1> QED BY <1>1, <1>3, <1>5, <1>7, <1>11, <1>12, <1>13, <1>14, <1>15, <1>16, Going
\* What is left of the plans, and what it asks: once the driver was marked as busy,
LEMMA BusyPlans ==
    ASSUME NEW p \in Plans, "busy" \in Head(p), NEW q, q = Rest(p, "busy")
    PROVE  /\ q = <<>> \/ q \in Plans
           /\ q = <<>> => Gone(p)
           /\ q # <<>> => /\ ~Places(q) /\ ~Adds(q) /\ ~Frees(q) /\ ~Stays(q) /\ ~Gone(q)
                          /\ ~Saves(p) /\ ~Saves(q) /\ ~Online(q) /\ ~Bound(q) /\ ~Claims(q)
                          /\ (Resyncs(q) => Resyncs(p)) /\ (Whole(q) => Whole(p))
<1>1. p \in {<<{"take", "busy"}>>, <<{"sync", "busy"}>>, <<{"busy"}>>}
  BY DEF Plans
<1>2. CASE p = <<{"take", "busy"}>>
  <2>1. q = <<{"take"}>>
    BY <1>2, RestOfTwo
  <2> QED BY <1>2, <2>1
             DEF Plans, Stays, Places, Adds, Frees, Saves, Resyncs, Gone, Whole,
                 Online, Bound, Claims
<1>3. CASE p = <<{"sync", "busy"}>>
  <2>1. q = <<{"sync"}>>
    BY <1>3, RestOfTwo
  <2> QED BY <1>3, <2>1
             DEF Plans, Stays, Places, Adds, Frees, Saves, Resyncs, Gone, Whole,
                 Online, Bound, Claims
<1>4. CASE p = <<{"busy"}>>
  <2>1. q = <<>>
    BY <1>4, RestOfOne
  <2> QED BY <1>4, <2>1 DEF Gone
<1> QED BY <1>1, <1>2, <1>3, <1>4

\* ... as free,
LEMMA FreePlans ==
    ASSUME NEW p \in Plans, "free" \in Head(p), NEW q, q = Rest(p, "free")
    PROVE  /\ Frees(p)
           /\ \/ q = <<>> /\ Stays(p)
              \/ q = <<{"add"}>> /\ q \in Plans /\ Resyncs(p) /\ Whole(p) /\ ~Saves(p)
<1>1. p \in {<<{"add", "free"}>>, <<{"free"}>>}
  BY DEF Plans
<1>2. CASE p = <<{"add", "free"}>>
  <2>1. q = <<{"add"}>>
    BY <1>2, RestOfTwo
  <2> QED BY <1>2, <2>1 DEF Plans, Frees, Resyncs, Whole, Saves
<1>3. CASE p = <<{"free"}>>
  <2>1. q = <<>>
    BY <1>3, RestOfOne
  <2> QED BY <1>3, <2>1 DEF Stays, Frees
<1> QED BY <1>1, <1>2, <1>3

\* ... or listed,
LEMMA AddPlans ==
    ASSUME NEW p \in Plans, "add" \in Head(p), NEW q, q = Rest(p, "add")
    PROVE  /\ Resyncs(p) /\ Whole(p)
           /\ \/ q = <<>> /\ Adds(p) /\ ~Saves(p)
              \/ q = <<{"free"}>> /\ q \in Plans /\ Frees(p) /\ ~Saves(p)
              \/ q = <<{"sync"}>> /\ q \in Plans /\ ~Saves(p)
              \/ q = <<{"save"}, {"sync"}>> /\ q \in Plans /\ Saves(p)
<1>1. p \in {<<{"add"}, {"save"}, {"sync"}>>, <<{"add"}, {"sync"}>>, <<{"add", "free"}>>, <<{"add"}>>}
  BY DEF Plans
<1>2. CASE p = <<{"add", "free"}>>
  <2>1. q = <<{"free"}>> /\ q \in Plans
    <3>1. Rest(<<{"add", "free"}>>, "add") = <<{"free"}>>
      BY RestOfTwo
    <3> QED BY <1>2, <3>1 DEF Plans
  <2>2. Frees(p) /\ Resyncs(p) /\ Whole(p) /\ ~Saves(p)
    BY <1>2 DEF Frees, Resyncs, Whole, Saves
  <2> QED BY <2>1, <2>2
<1>3. CASE p = <<{"add"}>>
  <2>1. q = <<>>
    BY <1>3, RestOfOne
  <2> QED BY <1>3, <2>1 DEF Adds, Resyncs, Whole, Saves
<1>4. CASE p = <<{"add"}, {"sync"}>>
  <2>1. q = <<{"sync"}>>
    BY <1>4, RestOfOne
  <2> QED BY <1>4, <2>1 DEF Plans, Resyncs, Whole, Saves
<1>5. CASE p = <<{"add"}, {"save"}, {"sync"}>>
  <2>1. q = <<{"save"}, {"sync"}>>
    BY <1>5, RestOfOne
  <2> QED BY <1>5, <2>1 DEF Plans, Resyncs, Whole, Saves
<1> QED BY <1>1, <1>2, <1>3, <1>4, <1>5

\* ... or taken off the list.
LEMMA DropPlans ==
    ASSUME NEW p \in Plans, "drop" \in Head(p), NEW q, q = Rest(p, "drop")
    PROVE  \/ q = <<>> /\ Gone(p)
           \/ q = <<{"sync"}>> /\ q \in Plans /\ Resyncs(p) /\ ~Saves(p)
           \/ q = <<{"save"}, {"sync"}>> /\ q \in Plans /\ Resyncs(p) /\ Saves(p)
<1>1. p \in {<<{"drop"}, {"save"}, {"sync"}>>, <<{"drop"}, {"sync"}>>, <<{"drop"}>>}
  BY DEF Plans
<1>3. CASE p = <<{"drop"}>>
  <2>1. q = <<>>
    BY <1>3, RestOfOne
  <2> QED BY <1>3, <2>1 DEF Gone
<1>4. CASE p = <<{"drop"}, {"sync"}>>
  <2>1. q = <<{"sync"}>>
    BY <1>4, RestOfOne
  <2> QED BY <1>4, <2>1 DEF Plans, Resyncs, Whole, Saves
<1>5. CASE p = <<{"drop"}, {"save"}, {"sync"}>>
  <2>1. q = <<{"save"}, {"sync"}>>
    BY <1>5, RestOfOne
  <2> QED BY <1>5, <2>1 DEF Plans, Resyncs, Whole, Saves
<1> QED BY <1>1, <1>3, <1>4, <1>5

\* What short plans ask.
LEMMA ShortPlans ==
    /\ \A q : q = <<{"sync"}>> =>
          /\ ~Places(q) /\ ~Adds(q) /\ ~Frees(q) /\ ~Saves(q) /\ Resyncs(q) /\ ~Stays(q) /\ ~Gone(q)
          /\ ~Whole(q) /\ ~Online(q) /\ ~Bound(q) /\ ~Claims(q)
    /\ \A q : q = <<{"save"}, {"sync"}>> =>
          /\ ~Places(q) /\ ~Adds(q) /\ ~Frees(q) /\ Saves(q) /\ Resyncs(q) /\ ~Stays(q) /\ ~Gone(q)
          /\ ~Whole(q) /\ ~Online(q) /\ ~Bound(q) /\ ~Claims(q)
    /\ \A q : q = <<{"add"}>> =>
          /\ ~Places(q) /\ Adds(q) /\ ~Frees(q) /\ ~Saves(q) /\ Resyncs(q) /\ ~Stays(q) /\ ~Gone(q)
          /\ Whole(q) /\ ~Online(q) /\ ~Bound(q) /\ ~Claims(q)
    /\ \A q : q = <<{"free"}>> =>
          /\ ~Places(q) /\ ~Adds(q) /\ Frees(q) /\ ~Saves(q) /\ ~Resyncs(q) /\ Stays(q) /\ ~Gone(q)
          /\ ~Whole(q) /\ ~Online(q) /\ ~Bound(q) /\ ~Claims(q)
    /\ \A q : q = <<{"busy"}>> =>
          /\ ~Places(q) /\ ~Adds(q) /\ ~Frees(q) /\ ~Saves(q) /\ ~Resyncs(q) /\ ~Stays(q) /\ Gone(q)
          /\ ~Whole(q) /\ ~Online(q) /\ ~Bound(q) /\ ~Claims(q)
    /\ \A q : q = <<{"sync", "busy"}>> =>
          /\ ~Places(q) /\ ~Adds(q) /\ ~Frees(q) /\ ~Saves(q) /\ Resyncs(q) /\ ~Stays(q) /\ Gone(q)
          /\ ~Whole(q) /\ ~Online(q) /\ ~Bound(q) /\ ~Claims(q)
    /\ \A q : q = <<{"commit"}, {"busy"}>> =>
          /\ ~Places(q) /\ ~Adds(q) /\ ~Frees(q) /\ ~Saves(q) /\ ~Resyncs(q) /\ Stays(q) /\ ~Gone(q)
          /\ ~Whole(q) /\ ~Online(q) /\ Bound(q) /\ ~Claims(q)
    /\ \A q : q = <<{"commit"}>> =>
          /\ ~Places(q) /\ ~Adds(q) /\ ~Frees(q) /\ ~Saves(q) /\ ~Resyncs(q) /\ Stays(q) /\ ~Gone(q)
          /\ ~Whole(q) /\ ~Online(q) /\ Bound(q) /\ Claims(q)
    /\ \A q : q = <<{"relieve"}>> =>
          /\ ~Places(q) /\ ~Adds(q) /\ ~Frees(q) /\ ~Saves(q) /\ ~Resyncs(q) /\ Stays(q) /\ ~Gone(q)
          /\ ~Whole(q) /\ ~Online(q) /\ Bound(q) /\ ~Claims(q)
    /\ \A q : q = <<{"add", "free"}>> =>
          /\ ~Places(q) /\ Frees(q) /\ ~Saves(q) /\ Resyncs(q) /\ ~Stays(q) /\ ~Gone(q)
          /\ Whole(q) /\ ~Online(q) /\ ~Bound(q) /\ ~Claims(q)
<1> USE DEF Stays, Places, Adds, Frees, Saves, Resyncs, Gone, Whole, Online, Bound, Claims
<1>1. \A q : q = <<{"sync"}>> =>
          /\ ~Places(q) /\ ~Adds(q) /\ ~Frees(q) /\ ~Saves(q) /\ Resyncs(q) /\ ~Stays(q) /\ ~Gone(q)
          /\ ~Whole(q) /\ ~Online(q) /\ ~Bound(q) /\ ~Claims(q)
  OBVIOUS
<1>2. \A q : q = <<{"save"}, {"sync"}>> =>
          /\ ~Places(q) /\ ~Adds(q) /\ ~Frees(q) /\ Saves(q) /\ Resyncs(q) /\ ~Stays(q) /\ ~Gone(q)
          /\ ~Whole(q) /\ ~Online(q) /\ ~Bound(q) /\ ~Claims(q)
  OBVIOUS
<1>3. \A q : q = <<{"add"}>> =>
          /\ ~Places(q) /\ Adds(q) /\ ~Frees(q) /\ ~Saves(q) /\ Resyncs(q) /\ ~Stays(q) /\ ~Gone(q)
          /\ Whole(q) /\ ~Online(q) /\ ~Bound(q) /\ ~Claims(q)
  OBVIOUS
<1>4. \A q : q = <<{"free"}>> =>
          /\ ~Places(q) /\ ~Adds(q) /\ Frees(q) /\ ~Saves(q) /\ ~Resyncs(q) /\ Stays(q) /\ ~Gone(q)
          /\ ~Whole(q) /\ ~Online(q) /\ ~Bound(q) /\ ~Claims(q)
  OBVIOUS
<1>5. \A q : q = <<{"busy"}>> =>
          /\ ~Places(q) /\ ~Adds(q) /\ ~Frees(q) /\ ~Saves(q) /\ ~Resyncs(q) /\ ~Stays(q) /\ Gone(q)
          /\ ~Whole(q) /\ ~Online(q) /\ ~Bound(q) /\ ~Claims(q)
  OBVIOUS
<1>6. \A q : q = <<{"sync", "busy"}>> =>
          /\ ~Places(q) /\ ~Adds(q) /\ ~Frees(q) /\ ~Saves(q) /\ Resyncs(q) /\ ~Stays(q) /\ Gone(q)
          /\ ~Whole(q) /\ ~Online(q) /\ ~Bound(q) /\ ~Claims(q)
  OBVIOUS
<1>7. \A q : q = <<{"commit"}, {"busy"}>> =>
          /\ ~Places(q) /\ ~Adds(q) /\ ~Frees(q) /\ ~Saves(q) /\ ~Resyncs(q) /\ Stays(q) /\ ~Gone(q)
          /\ ~Whole(q) /\ ~Online(q) /\ Bound(q) /\ ~Claims(q)
  OBVIOUS
<1>8. \A q : q = <<{"commit"}>> =>
          /\ ~Places(q) /\ ~Adds(q) /\ ~Frees(q) /\ ~Saves(q) /\ ~Resyncs(q) /\ Stays(q) /\ ~Gone(q)
          /\ ~Whole(q) /\ ~Online(q) /\ Bound(q) /\ Claims(q)
  OBVIOUS
<1>9. \A q : q = <<{"relieve"}>> =>
          /\ ~Places(q) /\ ~Adds(q) /\ ~Frees(q) /\ ~Saves(q) /\ ~Resyncs(q) /\ Stays(q) /\ ~Gone(q)
          /\ ~Whole(q) /\ ~Online(q) /\ Bound(q) /\ ~Claims(q)
  OBVIOUS
<1>10. \A q : q = <<{"add", "free"}>> =>
          /\ ~Places(q) /\ Frees(q) /\ ~Saves(q) /\ Resyncs(q) /\ ~Stays(q) /\ ~Gone(q)
          /\ Whole(q) /\ ~Online(q) /\ ~Bound(q) /\ ~Claims(q)
  OBVIOUS
<1> QED BY <1>1, <1>2, <1>3, <1>4, <1>5, <1>6, <1>7, <1>8, <1>9, <1>10

\* A request, what is left of its plan, and what becomes of it.
LEMMA Split ==
    ASSUME PresenceInv, NEW h \in Handlers, NEW step, At(h, step)
    PROVE  \E k, q, l :
              /\ k \in Requests /\ k = handler[h] /\ q = Rest(k.plan, step) /\
                   l = After(handler[h], step)
              /\ k # Idle /\ k.d \in Drivers /\ k.plan \in Plans /\ step \in Head(k.plan) /\ Good(k)
              /\ k.full \in BOOLEAN /\ k.doc \in Docs
              /\ q = <<>> => l = Idle
              /\ q \in Plans => /\ l \in Requests /\ l # Idle /\ l.d = k.d /\ l.doc = k.doc
                                /\ l.full = k.full /\ l.plan = q
<1>1. handler[h].full \in BOOLEAN /\ handler[h].doc \in Docs
  BY Leaves DEF Requests
<1> QED BY <1>1, Leaves

\* The driver is marked as busy,
LEMMA BusyStep ==
    ASSUME PresenceInv, NEW h \in Handlers, Mark(h, "busy")
    PROVE  PresenceInv'
<1>1. PICK k, q, l :
              /\ k \in Requests /\ k = handler[h] /\ q = Rest(k.plan, "busy") /\
                   l = After(handler[h], "busy")
              /\ k # Idle /\ k.d \in Drivers /\ k.plan \in Plans /\ "busy" \in Head(k.plan) /\ Good(k)
              /\ k.full \in BOOLEAN /\ k.doc \in Docs
              /\ q = <<>> => l = Idle
              /\ q \in Plans => /\ l \in Requests /\ l # Idle /\ l.d = k.d /\ l.doc = k.doc
                                /\ l.full = k.full /\ l.plan = q
  BY Split DEF Mark
<1>2. /\ q = <<>> \/ q \in Plans
      /\ q = <<>> => Gone(k.plan)
      /\ q # <<>> => /\ ~Places(q) /\ ~Adds(q) /\ ~Frees(q) /\ ~Stays(q) /\ ~Gone(q)
                     /\ ~Saves(k.plan) /\ ~Saves(q) /\ ~Online(q) /\ ~Bound(q) /\ ~Claims(q)
                     /\ (Resyncs(q) => Resyncs(k.plan)) /\ (Whole(q) => Whole(k.plan))
  BY <1>1, BusyPlans
<1>3. /\ meta' = [meta EXCEPT ![k.d] = [@ EXCEPT !.there = TRUE, !.trip = TRUE]]
      /\ db' = db /\ geo' = geo /\ astray' = astray /\ lost' = lost
  BY <1>1 DEF Mark, history
<1>4. /\ meta'[k.d].trip /\ meta'[k.d].there /\ meta' \in [Drivers -> Hashes]
      /\ \A e \in Drivers \ {k.d} : meta'[e] = meta[e]
  <2> DEFINE r == [meta[k.d] EXCEPT !.there = TRUE, !.trip = TRUE]
  <2>1. meta[k.d] \in Hashes /\ meta \in [Drivers -> Hashes]
    BY <1>1 DEF PresenceInv, Types
  <2>2. r \in Hashes /\ r.there /\ r.trip = TRUE /\ r.online = meta[k.d].online
    BY <2>1 DEF Hashes
  <2>3. meta' = [meta EXCEPT ![k.d] = r]
    BY <1>3
  <2> HIDE DEF r
  <2>4. meta'[k.d] = r
    BY <1>1, <2>1, <2>3
  <2> QED BY <1>1, <2>1, <2>2, <2>3, <2>4
<1>5. OnlyOf(k.d)
  BY <1>1, <1>3, <1>4 DEF Mark, OnlyOf, PresenceInv, Types, jobs, offers, counts
<1>6. l # Idle => /\ Knows(l) /\ Mends(l)' /\ (k.d \notin lost => Shows(l)')
  <2> SUFFICES ASSUME l # Idle PROVE /\ Knows(l) /\ Mends(l)' /\ (k.d \notin lost => Shows(l)')
    OBVIOUS
  <2>1. q # <<>> /\ l.d = k.d /\ l.doc = k.doc /\ l.full = k.full /\ l.plan = q
    BY <1>1, <1>2
  <2>2. Knows(l)
    BY <1>1, <1>2, <2>1 DEF Knows, Good
  <2>3. Mends(l)'
    BY <1>2, <2>1 DEF Mends
  <2>4. k.d \notin lost => Shows(l)'
    BY <1>1, <1>2, <1>3, <2>1 DEF Shows, Good, Saving
  <2> QED BY <2>2, <2>3, <2>4
<1>7. l = Idle => Truthful(k.d)' /\ (k.d \notin lost => Listed(k.d)')
  <2>1. Truthful(k.d)'
    BY <1>4 DEF Truthful, Offerable
  <2>2. l = Idle /\ k.d \notin lost => Listed(k.d)'
    BY <1>1, <1>2, <1>3 DEF Good, Shows, Listed
  <2> QED BY <2>1, <2>2
<1>8. handler' = [handler EXCEPT ![h] = l]
  BY <1>1 DEF Mark, Done
<1> QED BY <1>1, <1>2, <1>3, <1>5, <1>6, <1>7, <1>8, Going

\* ... or as free.
LEMMA FreeStep ==
    ASSUME PresenceInv, NEW h \in Handlers, Mark(h, "free")
    PROVE  PresenceInv'
<1>1. PICK k, q, l :
              /\ k \in Requests /\ k = handler[h] /\ q = Rest(k.plan, "free") /\
                   l = After(handler[h], "free")
              /\ k # Idle /\ k.d \in Drivers /\ k.plan \in Plans /\ "free" \in Head(k.plan) /\ Good(k)
              /\ k.full \in BOOLEAN /\ k.doc \in Docs
              /\ q = <<>> => l = Idle
              /\ q \in Plans => /\ l \in Requests /\ l # Idle /\ l.d = k.d /\ l.doc = k.doc
                                /\ l.full = k.full /\ l.plan = q
  BY Split DEF Mark
<1>2. /\ Frees(k.plan)
      /\ \/ q = <<>> /\ Stays(k.plan)
         \/ q = <<{"add"}>> /\ q \in Plans /\ Resyncs(k.plan) /\ Whole(k.plan) /\ ~Saves(k.plan)
  BY <1>1, FreePlans
<1>3. /\ meta' = [meta EXCEPT ![k.d] = [@ EXCEPT !.there = TRUE, !.trip = FALSE]]
      /\ db' = db /\ geo' = geo /\ astray' = astray /\ lost' = lost
  BY <1>1 DEF Mark, history
<1>4. /\ ~meta'[k.d].trip /\ meta'[k.d].there /\ meta'[k.d].online = meta[k.d].online
      /\ meta' \in [Drivers -> Hashes] /\ \A e \in Drivers \ {k.d} : meta'[e] = meta[e]
  <2> DEFINE r == [meta[k.d] EXCEPT !.there = TRUE, !.trip = FALSE]
  <2>1. meta[k.d] \in Hashes /\ meta \in [Drivers -> Hashes]
    BY <1>1 DEF PresenceInv, Types
  <2>2. r \in Hashes /\ r.there /\ r.trip = FALSE /\ r.online = meta[k.d].online
    BY <2>1 DEF Hashes
  <2>3. meta' = [meta EXCEPT ![k.d] = r]
    BY <1>3
  <2> HIDE DEF r
  <2>4. meta'[k.d] = r
    BY <1>1, <2>1, <2>3
  <2> QED BY <1>1, <2>1, <2>2, <2>3, <2>4
<1>5. OnlyOf(k.d)
  BY <1>1, <1>3, <1>4 DEF Mark, OnlyOf, PresenceInv, Types, jobs, offers, counts
<1>6. l # Idle => /\ Knows(l) /\ (k.d \notin astray => Mends(l)') /\ (k.d \notin lost => Shows(l)')
  <2> SUFFICES ASSUME l # Idle
               PROVE  /\ Knows(l) /\ (k.d \notin astray => Mends(l)') /\ (k.d \notin lost
                           => Shows(l)')
    OBVIOUS
  <2>1. q = <<{"add"}>> /\ q \in Plans /\ Resyncs(k.plan) /\ Whole(k.plan) /\ ~Saves(k.plan)
    BY <1>1, <1>2
  <2>2. l.d = k.d /\ l.doc = k.doc /\ l.full = k.full /\ l.plan = q
    BY <1>1, <2>1
  <2>3. /\ ~Places(q) /\ Adds(q) /\ ~Frees(q) /\ ~Saves(q) /\ Resyncs(q) /\ ~Stays(q) /\ ~Gone(q)
        /\ Whole(q) /\ ~Online(q) /\ ~Bound(q) /\ ~Claims(q)
    BY <2>1, ShortPlans
  <2>4. Knows(l)
    BY <1>1, <2>1, <2>2, <2>3 DEF Knows, Good
  <2>5. k.d \notin astray => Mends(l)'
    BY <1>1, <1>2, <1>3, <2>2, <2>3 DEF Mends, Good
  <2>6. k.d \notin lost => Shows(l)'
    BY <1>1, <1>3, <2>1, <2>2, <2>3 DEF Shows, Good, Saving
  <2> QED BY <2>4, <2>5, <2>6
<1>7. l = Idle => (k.d \notin astray => Truthful(k.d)') /\ (k.d \notin lost => Listed(k.d)')
  <2>1. k.d \notin astray => Truthful(k.d)'
    BY <1>1, <1>2, <1>3, <1>4 DEF Good, Mends, Truthful, Offerable
  <2>2. l = Idle /\ k.d \notin lost => Listed(k.d)'
    BY <1>1, <1>2, <1>3, <1>4 DEF Good, Shows, Listed
  <2> QED BY <2>1, <2>2
<1>8. handler' = [handler EXCEPT ![h] = l]
  BY <1>1 DEF Mark, Done
<1> QED BY <1>1, <1>2, <1>3, <1>5, <1>6, <1>7, <1>8, Going

\* What listing a driver does, and taking him off the list.
LEMMA AddDoes ==
    ASSUME Types, NEW d \in Drivers, NEW doc \in Docs, Add(d, doc)
    PROVE  /\ geo' \in [Drivers -> SUBSET Sets] /\ meta' \in [Drivers -> Hashes]
           /\ ~meta'[d].there => meta'[d] = NoMeta
           /\ \A e \in Drivers \ {d} : geo'[e] = geo[e] /\ meta'[e] = meta[e]
           /\ Fit(doc) => "global" \in geo'[d] /\ ~meta'[d].trip
           /\ ~Fit(doc) => ~meta'[d].there /\ ~meta'[d].online /\ ~meta'[d].trip
<1>1. NoMeta \in Hashes /\ Known \in Hashes /\ Sets \subseteq Sets /\ {} \subseteq Sets /\
        "global" \in Sets
  BY DEF Hashes, NoMeta, Known, Sets
<1>2. geo \in [Drivers -> SUBSET Sets] /\ meta \in [Drivers -> Hashes]
  BY DEF Types
<1>3. ~NoMeta.there /\ ~NoMeta.online /\ ~NoMeta.trip /\ ~Known.trip /\ Known.there
  BY DEF NoMeta, Known
<1>4. CASE Fit(doc)
  <2>1. geo' = [geo EXCEPT ![d] = Sets] /\ meta' = [meta EXCEPT ![d] = Known]
    BY <1>4 DEF Add
  <2> QED BY <1>1, <1>2, <1>3, <1>4, <2>1
<1>5. CASE ~Fit(doc)
  <2>1. geo' = [geo EXCEPT ![d] = {}] /\ meta' = [meta EXCEPT ![d] = NoMeta]
    BY <1>5 DEF Add, Remove
  <2> QED BY <1>1, <1>2, <1>3, <1>5, <2>1
<1> QED BY <1>4, <1>5

\* ... and taking him off.
LEMMA RemoveDoes ==
    ASSUME Types, NEW d \in Drivers, NEW named \in BOOLEAN, Remove(d, named)
    PROVE  /\ geo' \in [Drivers -> SUBSET Sets] /\ meta' \in [Drivers -> Hashes]
           /\ \A e \in Drivers \ {d} : geo'[e] = geo[e] /\ meta'[e] = meta[e]
           /\ meta'[d] = NoMeta /\ ~NoMeta.there /\ ~NoMeta.online /\ ~NoMeta.trip
  BY DEF Types, Remove, Hashes, NoMeta

\* The driver is listed by what a request knows of him,
LEMMA ListsStep ==
    ASSUME PresenceInv, NEW h \in Handlers, Lists(h)
    PROVE  PresenceInv'
<1>1. PICK k, q, l :
              /\ k \in Requests /\ k = handler[h] /\ q = Rest(k.plan, "add") /\
                   l = After(handler[h], "add")
              /\ k # Idle /\ k.d \in Drivers /\ k.plan \in Plans /\ "add" \in Head(k.plan) /\ Good(k)
              /\ k.full \in BOOLEAN /\ k.doc \in Docs
              /\ q = <<>> => l = Idle
              /\ q \in Plans => /\ l \in Requests /\ l # Idle /\ l.d = k.d /\ l.doc = k.doc
                                /\ l.full = k.full /\ l.plan = q
  BY Split DEF Lists
<1>2. /\ Resyncs(k.plan) /\ Whole(k.plan)
      /\ \/ q = <<>> /\ Adds(k.plan) /\ ~Saves(k.plan)
         \/ q = <<{"free"}>> /\ q \in Plans /\ Frees(k.plan) /\ ~Saves(k.plan)
         \/ q = <<{"sync"}>> /\ q \in Plans /\ ~Saves(k.plan)
         \/ q = <<{"save"}, {"sync"}>> /\ q \in Plans /\ Saves(k.plan)
  BY <1>1, AddPlans
<1>3. /\ Add(k.d, k.doc)
      /\ db' = db /\ astray' = astray /\ lost' = lost
  BY <1>1 DEF Lists, history
<1>4. /\ geo' \in [Drivers -> SUBSET Sets] /\ meta' \in [Drivers -> Hashes]
      /\ ~meta'[k.d].there => meta'[k.d] = NoMeta
      /\ \A e \in Drivers \ {k.d} : geo'[e] = geo[e] /\ meta'[e] = meta[e]
      /\ Fit(k.doc) => "global" \in geo'[k.d] /\ ~meta'[k.d].trip
      /\ ~Fit(k.doc) => ~meta'[k.d].there /\ ~meta'[k.d].online /\ ~meta'[k.d].trip
  BY <1>1, <1>3, AddDoes DEF PresenceInv
<1>5. OnlyOf(k.d)
  BY <1>1, <1>3, <1>4 DEF Lists, OnlyOf, PresenceInv, Types, jobs, offers, counts
<1>6. k.full
  BY <1>1, <1>2 DEF Good, Knows
<1>7. k.d \notin lost /\ ~Saves(k.plan) => Listed(k.d)'
  BY <1>1, <1>2, <1>3, <1>4, <1>6 DEF Good, Shows, Saving, Listed
<1>8. l # Idle => /\ Knows(l) /\ (k.d \notin astray => Mends(l)') /\ (k.d \notin lost => Shows(l)')
  <2> SUFFICES ASSUME l # Idle
               PROVE  /\ Knows(l) /\ (k.d \notin astray => Mends(l)') /\ (k.d \notin lost
                           => Shows(l)')
    OBVIOUS
  <2>1. /\ q \in Plans /\ q # <<>> /\ l.d = k.d /\ l.doc = k.doc /\ l.full = k.full /\ l.plan = q
    BY <1>1, <1>2
  <2>2. CASE q = <<{"free"}>> /\ Frees(k.plan) /\ ~Saves(k.plan)
    <3>1. /\ ~Places(q) /\ ~Adds(q) /\ Frees(q) /\ ~Saves(q) /\ ~Resyncs(q) /\ Stays(q) /\ ~Gone(q)
          /\ ~Online(q) /\ ~Bound(q) /\ ~Claims(q)
      BY <2>2, ShortPlans
    <3>2. Knows(l)
      BY <1>6, <2>1, <3>1 DEF Knows
    <3>3. k.d \notin astray => Mends(l)'
      BY <1>1, <1>3, <1>4, <2>1, <2>2, <3>1 DEF Mends, Good
    <3>4. k.d \notin lost => Shows(l)'
      BY <1>7, <2>1, <2>2, <3>1 DEF Shows
    <3> QED BY <3>2, <3>3, <3>4
  <2>3. CASE \/ q = <<{"sync"}>> /\ ~Saves(k.plan)
             \/ q = <<{"save"}, {"sync"}>> /\ Saves(k.plan)
    <3>1. /\ ~Places(q) /\ ~Adds(q) /\ ~Frees(q) /\ (Saves(q) <=> Saves(k.plan)) /\ Resyncs(q)
          /\ ~Stays(q) /\ ~Gone(q) /\ ~Online(q) /\ ~Bound(q) /\ ~Claims(q)
      BY <2>3, ShortPlans
    <3>2. Knows(l)
      BY <1>6, <2>1, <3>1 DEF Knows
    <3>3. Mends(l)'
      BY <2>1, <3>1 DEF Mends
    <3>4. k.d \notin lost => Shows(l)'
      BY <1>1, <1>2, <1>3, <2>1, <3>1 DEF Shows, Good, Saving
    <3> QED BY <3>2, <3>3, <3>4
  <2>4. \/ q = <<{"free"}>> /\ Frees(k.plan) /\ ~Saves(k.plan)
        \/ q = <<{"sync"}>> /\ ~Saves(k.plan)
        \/ q = <<{"save"}, {"sync"}>> /\ Saves(k.plan)
    BY <1>2, <2>1
  <2> QED BY <2>2, <2>3, <2>4
<1>9. l = Idle => (k.d \notin astray => Truthful(k.d)') /\ (k.d \notin lost => Listed(k.d)')
  <2> SUFFICES ASSUME l = Idle
               PROVE  (k.d \notin astray => Truthful(k.d)') /\ (k.d \notin lost => Listed(k.d)')
    OBVIOUS
  <2>1. Adds(k.plan) /\ ~Saves(k.plan)
    BY <1>1, <1>2
  <2>2. k.d \notin astray => k.doc = db[k.d]
    BY <1>1, <2>1 DEF Good, Mends
  <2>3. k.d \notin astray => Truthful(k.d)'
    BY <1>3, <1>4, <2>2 DEF Truthful, Offerable
  <2> QED BY <1>7, <2>1, <2>3
<1>10. handler' = [handler EXCEPT ![h] = l]
  BY <1>1 DEF Lists, Done
<1> QED BY <1>1, <1>2, <1>3, <1>5, <1>8, <1>9, <1>10, Going
\* ... or taken off the list,
LEMMA UnlistsStep ==
    ASSUME PresenceInv, NEW h \in Handlers, Unlists(h)
    PROVE  PresenceInv'
<1>1. PICK k, q, l :
              /\ k \in Requests /\ k = handler[h] /\ q = Rest(k.plan, "drop") /\
                   l = After(handler[h], "drop")
              /\ k # Idle /\ k.d \in Drivers /\ k.plan \in Plans /\ "drop" \in Head(k.plan) /\ Good(k)
              /\ k.full \in BOOLEAN /\ k.doc \in Docs
              /\ q = <<>> => l = Idle
              /\ q \in Plans => /\ l \in Requests /\ l # Idle /\ l.d = k.d /\ l.doc = k.doc
                                /\ l.full = k.full /\ l.plan = q
  BY Split DEF Unlists
<1>2. \/ q = <<>> /\ Gone(k.plan)
      \/ q = <<{"sync"}>> /\ q \in Plans /\ Resyncs(k.plan) /\ ~Saves(k.plan)
      \/ q = <<{"save"}, {"sync"}>> /\ q \in Plans /\ Resyncs(k.plan) /\ Saves(k.plan)
  BY <1>1, DropPlans
<1>3. /\ Remove(k.d, k.area) /\ k.area \in BOOLEAN
      /\ db' = db /\ astray' = astray /\ lost' = lost
  BY <1>1 DEF Unlists, history, Requests
<1>4. /\ geo' \in [Drivers -> SUBSET Sets] /\ meta' \in [Drivers -> Hashes]
      /\ \A e \in Drivers \ {k.d} : geo'[e] = geo[e] /\ meta'[e] = meta[e]
      /\ meta'[k.d] = NoMeta /\ ~NoMeta.there /\ ~NoMeta.online /\ ~NoMeta.trip
  BY <1>1, <1>3, RemoveDoes DEF PresenceInv
<1>5. OnlyOf(k.d)
  BY <1>1, <1>3, <1>4 DEF Unlists, OnlyOf, PresenceInv, Types, jobs, offers, counts
<1>6. l # Idle => /\ Knows(l) /\ (k.d \notin astray => Mends(l)') /\ (k.d \notin lost => Shows(l)')
  <2> SUFFICES ASSUME l # Idle
               PROVE  /\ Knows(l) /\ (k.d \notin astray => Mends(l)') /\ (k.d \notin lost
                           => Shows(l)')
    OBVIOUS
  <2>1. /\ q \in Plans /\ l.d = k.d /\ l.doc = k.doc /\ l.full = k.full /\ l.plan = q
        /\ Resyncs(k.plan)
        /\ \/ q = <<{"sync"}>> /\ ~Saves(k.plan)
           \/ q = <<{"save"}, {"sync"}>> /\ Saves(k.plan)
    BY <1>1, <1>2
  <2>2. /\ ~Places(q) /\ ~Adds(q) /\ ~Frees(q) /\ (Saves(q) <=> Saves(k.plan)) /\ Resyncs(q)
        /\ ~Stays(q) /\ ~Gone(q) /\ ~Whole(q) /\ ~Online(q) /\ ~Bound(q) /\ ~Claims(q)
    BY <2>1, ShortPlans
  <2>3. Knows(l)
    BY <2>1, <2>2 DEF Knows
  <2>4. Mends(l)'
    BY <2>1, <2>2 DEF Mends
  <2>5. k.d \notin lost => Shows(l)'
    BY <1>1, <1>3, <2>1, <2>2 DEF Shows, Good, Saving
  <2> QED BY <2>3, <2>4, <2>5
<1>7. l = Idle => Truthful(k.d)' /\ (k.d \notin lost => Listed(k.d)')
  <2>1. Truthful(k.d)'
    BY <1>4 DEF Truthful, Offerable
  <2>2. l = Idle /\ k.d \notin lost => Listed(k.d)'
    BY <1>1, <1>2, <1>3 DEF Good, Shows, Listed
  <2> QED BY <2>1, <2>2
<1>8. handler' = [handler EXCEPT ![h] = l]
  BY <1>1 DEF Unlists, Done
<1> QED BY <1>1, <1>2, <1>3, <1>5, <1>6, <1>7, <1>8, Going

\* ... or his hash is deleted.
LEMMA ForgetStep ==
    ASSUME PresenceInv, NEW h \in Handlers, Forget(h)
    PROVE  PresenceInv'
<1>1. PICK k, q, l :
              /\ k \in Requests /\ k = handler[h] /\ q = Rest(k.plan, "forget") /\
                   l = After(handler[h], "forget")
              /\ k # Idle /\ k.d \in Drivers /\ k.plan \in Plans /\ "forget" \in Head(k.plan) /\
                   Good(k)
              /\ k.full \in BOOLEAN /\ k.doc \in Docs
              /\ q = <<>> => l = Idle
              /\ q \in Plans => /\ l \in Requests /\ l # Idle /\ l.d = k.d /\ l.doc = k.doc
                                /\ l.full = k.full /\ l.plan = q
  BY Split DEF Forget
<1>2. q = <<>> /\ l = Idle /\ Stays(k.plan)
  <2>1. k.plan = <<{"forget"}>>
    BY <1>1 DEF Plans
  <2>2. q = <<>>
    BY <1>1, <2>1, RestOfOne
  <2> QED BY <1>1, <2>1, <2>2, LastPlans
<1>3. /\ meta' = [meta EXCEPT ![k.d] = NoMeta]
      /\ db' = db /\ geo' = geo /\ astray' = astray /\ lost' = lost
  BY <1>1 DEF Forget, history
<1>4. /\ meta' \in [Drivers -> Hashes] /\ \A e \in Drivers \ {k.d} : meta'[e] = meta[e]
      /\ meta'[k.d] = NoMeta /\ ~NoMeta.there /\ ~NoMeta.online /\ ~NoMeta.trip
  BY <1>1, <1>3 DEF PresenceInv, Types, Hashes, NoMeta
<1>5. OnlyOf(k.d)
  BY <1>1, <1>3, <1>4 DEF Forget, OnlyOf, PresenceInv, Types, jobs, offers, counts
<1>6. Truthful(k.d)' /\ (k.d \notin lost => Listed(k.d)')
  <2>1. Truthful(k.d)'
    BY <1>4 DEF Truthful, Offerable
  <2>2. k.d \notin lost => Listed(k.d)'
    BY <1>1, <1>2, <1>3, <1>4 DEF Good, Shows, Listed
  <2> QED BY <2>1, <2>2
<1>7. handler' = [handler EXCEPT ![h] = l]
  BY <1>1 DEF Forget, Done
<1> QED BY <1>1, <1>2, <1>3, <1>5, <1>6, <1>7, Going

(* Steps that write the document. *)

\* The driver's document is saved,
LEMMA StatusSavesStep ==
    ASSUME PresenceInv, NEW h \in Handlers, StatusSaves(h)
    PROVE  PresenceInv'
<1>1. PICK k, q, l :
              /\ k \in Requests /\ k = handler[h] /\ q = Rest(k.plan, "save") /\
                   l = After(handler[h], "save")
              /\ k # Idle /\ k.d \in Drivers /\ k.plan \in Plans /\ "save" \in Head(k.plan) /\ Good(k)
              /\ k.full \in BOOLEAN /\ k.doc \in Docs
              /\ q = <<>> => l = Idle
              /\ q \in Plans => /\ l \in Requests /\ l # Idle /\ l.d = k.d /\ l.doc = k.doc
                                /\ l.full = k.full /\ l.plan = q
  BY Split DEF StatusSaves
<1>2. q = <<{"sync"}>> /\ q \in Plans /\ Saves(k.plan) /\ Resyncs(k.plan)
  <2>1. k.plan = <<{"save"}, {"sync"}>>
    BY <1>1 DEF Plans
  <2>2. q = <<{"sync"}>> /\ q \in Plans
    <3>1. Rest(<<{"save"}, {"sync"}>>, "save") = <<{"sync"}>>
      BY RestOfOne
    <3>2. q = <<{"sync"}>>
      BY <1>1, <2>1, <3>1
    <3> QED BY <3>2 DEF Plans
  <2> QED BY <2>1, <2>2, ShortPlans
<1>3. /\ db' = [db EXCEPT ![k.d].online = k.doc.online]
      /\ geo' = geo /\ meta' = meta /\ astray' = astray /\ lost' = lost
  BY <1>1 DEF StatusSaves, history, index
<1>4. /\ db' \in [Drivers -> Docs] /\ \A e \in Drivers \ {k.d} : db'[e] = db[e]
      /\ db'[k.d] = [db[k.d] EXCEPT !.online = k.doc.online]
  <2>1. db \in [Drivers -> Docs] /\ k.doc.online \in BOOLEAN
    BY <1>1 DEF PresenceInv, Types, Docs
  <2> QED BY <1>1, <1>3, <2>1 DEF Docs
<1>5. OnlyOf(k.d)
  BY <1>1, <1>3, <1>4 DEF StatusSaves, OnlyOf, PresenceInv, Types, jobs, offers, counts
<1>6. /\ l \in Requests /\ l # Idle /\ l.d = k.d /\ l.doc = k.doc /\ l.full = k.full /\ l.plan = q
  BY <1>1, <1>2
<1>7. /\ ~Places(q) /\ ~Adds(q) /\ ~Frees(q) /\ ~Saves(q) /\ Resyncs(q) /\ ~Stays(q) /\ ~Gone(q)
      /\ ~Whole(q) /\ ~Online(q) /\ ~Bound(q) /\ ~Claims(q)
  BY <1>2, ShortPlans
<1>8. Knows(l) /\ Mends(l)'
  BY <1>6, <1>7 DEF Knows, Mends
<1>9. k.d \notin lost => Shows(l)'
  BY <1>1, <1>2, <1>4, <1>6, <1>7 DEF Shows, Good, Saving
<1>10. handler' = [handler EXCEPT ![h] = l]
  BY <1>1 DEF StatusSaves, Done
<1> QED BY <1>1, <1>3, <1>5, <1>6, <1>8, <1>9, <1>10, Going

\* ... as going on a trip,
LEMMA CommitsStep ==
    ASSUME PresenceInv, NEW h \in Handlers, Commits(h)
    PROVE  PresenceInv'
<1>1. PICK k, q, l :
              /\ k \in Requests /\ k = handler[h] /\ q = Rest(k.plan, "commit") /\
                   l = After(handler[h], "commit")
              /\ k # Idle /\ k.d \in Drivers /\ k.plan \in Plans /\ "commit" \in Head(k.plan) /\
                   Good(k)
              /\ k.full \in BOOLEAN /\ k.doc \in Docs
              /\ q = <<>> => l = Idle
              /\ q \in Plans => /\ l \in Requests /\ l # Idle /\ l.d = k.d /\ l.doc = k.doc
                                /\ l.full = k.full /\ l.plan = q
  BY Split DEF Commits
<1>2. \/ q = <<{"busy"}>> /\ q \in Plans
      \/ q = <<>> /\ Bound(k.plan) /\ Claims(k.plan)
  <2>1. k.plan = <<{"commit"}, {"busy"}>> \/ k.plan = <<{"commit"}>>
    BY <1>1 DEF Plans
  <2>2. CASE k.plan = <<{"commit"}, {"busy"}>>
    <3>1. Rest(<<{"commit"}, {"busy"}>>, "commit") = <<{"busy"}>>
      BY RestOfOne
    <3>2. q = <<{"busy"}>>
      BY <1>1, <2>2, <3>1
    <3> QED BY <3>2 DEF Plans
  <2>3. CASE k.plan = <<{"commit"}>>
    <3>1. Rest(<<{"commit"}>>, "commit") = <<>>
      BY RestOfOne
    <3>2. q = <<>>
      BY <1>1, <2>3, <3>1
    <3> QED BY <2>3, <3>2, ShortPlans
  <2> QED BY <2>1, <2>2, <2>3
<1>3. /\ db' = [db EXCEPT ![k.d].trip = TRUE]
      /\ geo' = geo /\ meta' = meta /\ astray' = astray /\ lost' = lost
  BY <1>1 DEF Commits, history, index
<1>4. /\ db' \in [Drivers -> Docs] /\ \A e \in Drivers \ {k.d} : db'[e] = db[e]
      /\ db'[k.d].trip
  <2>1. db \in [Drivers -> Docs]
    BY DEF PresenceInv, Types
  <2> QED BY <1>1, <1>3, <2>1 DEF Docs
<1>5. OnlyOf(k.d)
  BY <1>1, <1>3, <1>4 DEF Commits, OnlyOf, PresenceInv, Types, jobs, offers, counts
<1>6. l # Idle => /\ l \in Requests /\ l.d = k.d /\ Knows(l) /\ Mends(l)' /\ Shows(l)'
  <2> SUFFICES ASSUME l # Idle
               PROVE  l \in Requests /\ l.d = k.d /\ Knows(l) /\ Mends(l)' /\ Shows(l)'
    OBVIOUS
  <2>1. q = <<{"busy"}>> /\ l \in Requests /\ l.d = k.d /\ l.plan = q
    BY <1>1, <1>2
  <2>2. /\ ~Places(q) /\ ~Adds(q) /\ ~Frees(q) /\ ~Saves(q) /\ ~Resyncs(q) /\ ~Stays(q) /\ Gone(q)
        /\ ~Whole(q) /\ ~Online(q) /\ ~Bound(q) /\ ~Claims(q)
    BY <2>1, ShortPlans
  <2>3. Knows(l) /\ Mends(l)'
    BY <2>1, <2>2 DEF Knows, Mends
  <2>4. Shows(l)'
    BY <1>4, <2>1, <2>2 DEF Shows, Fit
  <2> QED BY <2>1, <2>3, <2>4
<1>7. l = Idle => (k.d \notin astray => Truthful(k.d)') /\ Listed(k.d)'
  <2>1. l = Idle /\ k.d \notin astray => ~Offerable(k.d)
    BY <1>1, <1>2 DEF Good, Mends
  <2>2. Listed(k.d)'
    BY <1>4 DEF Listed, Fit
  <2> QED BY <1>3, <2>1, <2>2 DEF Truthful, Offerable
<1>8. l = Idle \/ (l \in Requests /\ l.d = k.d)
  BY <1>6
<1>9. handler' = [handler EXCEPT ![h] = l]
  BY <1>1 DEF Commits, Done
<1> QED BY <1>1, <1>3, <1>5, <1>6, <1>7, <1>8, <1>9, Going

\* ... as taken off one,
LEMMA RelievesStep ==
    ASSUME PresenceInv, NEW h \in Handlers, Relieves(h)
    PROVE  PresenceInv'
<1>1. PICK k, q, l :
              /\ k \in Requests /\ k = handler[h] /\ q = Rest(k.plan, "relieve") /\
                   l = After(handler[h], "relieve")
              /\ k # Idle /\ k.d \in Drivers /\ k.plan \in Plans /\ "relieve" \in Head(k.plan) /\
                   Good(k)
              /\ k.full \in BOOLEAN /\ k.doc \in Docs
              /\ q = <<>> => l = Idle
              /\ q \in Plans => /\ l \in Requests /\ l # Idle /\ l.d = k.d /\ l.doc = k.doc
                                /\ l.full = k.full /\ l.plan = q
  BY Split DEF Relieves
<1>2. q = <<>> /\ l = Idle /\ Bound(k.plan)
  <2>1. k.plan = <<{"relieve"}>>
    BY <1>1 DEF Plans
  <2>2. Rest(<<{"relieve"}>>, "relieve") = <<>>
    BY RestOfOne
  <2> QED BY <1>1, <2>1, <2>2, ShortPlans
<1>3. /\ db' = [db EXCEPT ![k.d].trip = FALSE]
      /\ geo' = geo /\ meta' = meta /\ astray' = astray /\ lost' = lost \cup {k.d}
  BY <1>1 DEF Relieves, index
<1>4. /\ db' \in [Drivers -> Docs] /\ \A e \in Drivers \ {k.d} : db'[e] = db[e]
      /\ db'[k.d] = [db[k.d] EXCEPT !.trip = FALSE] /\ db[k.d] \in Docs
  <2>1. db \in [Drivers -> Docs]
    BY DEF PresenceInv, Types
  <2> QED BY <1>1, <1>3, <2>1 DEF Docs
<1>5. OnlyOf(k.d)
  BY <1>1, <1>3, <1>4 DEF Relieves, OnlyOf, PresenceInv, Types, jobs, offers, counts
<1>6. k.d \notin astray' => Truthful(k.d)'
  <2>1. k.d \notin astray => Truthful(k.d)
    BY <1>1, <1>2 DEF Good, Mends
  <2>2. Fit(db[k.d]) => Fit(db'[k.d])
    BY <1>4 DEF Fit, Docs
  <2> QED BY <1>3, <2>1, <2>2 DEF Truthful, Offerable, Fit
<1>7. handler' = [handler EXCEPT ![h] = l]
  BY <1>1 DEF Relieves, Done
<1> QED BY <1>1, <1>2, <1>3, <1>5, <1>6, <1>7, Going

\* ... or left as it is, when the transaction is aborted,
LEMMA AbortsStep ==
    ASSUME PresenceInv, NEW h \in Handlers, Aborts(h)
    PROVE  PresenceInv'
<1>1. PICK k : /\ k \in Requests /\ k = handler[h] /\ k # Idle /\ k.d \in Drivers
               /\ k.plan \in Plans /\ Good(k)
               /\ "commit" \in Head(k.plan) \/ "relieve" \in Head(k.plan)
  BY Leaves DEF Aborts
<1>2. Bound(k.plan) /\ Stays(k.plan)
  <2>1. k.plan # <<>>
    BY <1>1 DEF Aborts, At
  <2> QED BY <1>1, <2>1 DEF Bound, Stays
<1>3. db' = db /\ geo' = geo /\ meta' = meta /\ astray' = astray /\ lost' = lost
  BY DEF Aborts, history, index
<1>4. OnlyOf(k.d)
  BY <1>1, <1>3 DEF Aborts, OnlyOf, PresenceInv, Types, jobs, offers, counts
<1>5. k.d \notin astray' => Truthful(k.d)'
  BY <1>1, <1>2, <1>3 DEF Good, Mends, Truthful, Offerable
<1>6. k.d \notin lost' => Listed(k.d)'
  BY <1>1, <1>2, <1>3 DEF Good, Shows, Listed
<1>7. handler' = [handler EXCEPT ![h] = Idle]
  BY DEF Aborts
<1> QED BY <1>1, <1>3, <1>4, <1>5, <1>6, <1>7, Going

\* ... which an accepted offer does for the hook to see the document from before,
LEMMA TakesStep ==
    ASSUME PresenceInv, NEW h \in Handlers, Takes(h)
    PROVE  PresenceInv'
<1>1. PICK k, q, l :
              /\ k \in Requests /\ k = handler[h] /\ q = Rest(k.plan, "take") /\
                   l = After(handler[h], "take")
              /\ k # Idle /\ k.d \in Drivers /\ k.plan \in Plans /\ "take" \in Head(k.plan) /\ Good(k)
              /\ k.full \in BOOLEAN /\ k.doc \in Docs
              /\ q = <<>> => l = Idle
              /\ q \in Plans => /\ l \in Requests /\ l # Idle /\ l.d = k.d /\ l.doc = k.doc
                                /\ l.full = k.full /\ l.plan = q
  BY Split DEF Takes
<1>2. PICK p : p = <<(Head(k.plan) \ {"take"}) \cup {"sync"}>>
  OBVIOUS
<1>3. /\ p \in Plans /\ ~Places(p) /\ ~Adds(p) /\ ~Frees(p) /\ ~Saves(p) /\ ~Stays(p)
      /\ ~Online(p) /\ ~Bound(p) /\ ~Claims(p)
      /\ ~Whole(p)
  <2>1. k.plan = <<{"take", "busy"}>> \/ k.plan = <<{"take"}>>
    BY <1>1 DEF Plans
  <2>2. CASE k.plan = <<{"take", "busy"}>>
    <3>1. ({"take", "busy"} \ {"take"}) \cup {"sync"} = {"sync", "busy"}
      OBVIOUS
    <3>2. Head(k.plan) = {"take", "busy"}
      BY <2>2
    <3>3. p = <<{"sync", "busy"}>>
      BY <1>2, <3>1, <3>2
    <3>4. p \in Plans
      BY <3>3 DEF Plans
    <3> QED BY <3>3, <3>4, ShortPlans
  <2>3. CASE k.plan = <<{"take"}>>
    <3>1. ({"take"} \ {"take"}) \cup {"sync"} = {"sync"}
      OBVIOUS
    <3>2. Head(k.plan) = {"take"}
      BY <2>3
    <3>3. p = <<{"sync"}>>
      BY <1>2, <3>1, <3>2
    <3>4. p \in Plans
      BY <3>3 DEF Plans
    <3> QED BY <3>3, <3>4, ShortPlans
  <2> QED BY <2>1, <2>2, <2>3
<1>4. PICK m : m = [k EXCEPT !.doc = db[k.d], !.plan = p]
  OBVIOUS
<1>5. /\ m \in Requests /\ m # Idle /\ m.d = k.d /\ m.full = k.full /\ m.plan = p
  <2>1. db[k.d] \in Docs
    BY <1>1 DEF PresenceInv, Types
  <2>2. m \in Requests /\ m.d = k.d /\ m.full = k.full /\ m.plan = p
    BY <1>1, <1>3, <1>4, <2>1 DEF Requests
  <2> QED BY <2>2, IdleFields
<1>6. /\ db' = [db EXCEPT ![k.d].trip = TRUE]
      /\ geo' = geo /\ meta' = meta /\ astray' = astray /\ lost' = lost
  BY <1>1 DEF Takes, history, index
<1>7. /\ db' \in [Drivers -> Docs] /\ \A e \in Drivers \ {k.d} : db'[e] = db[e]
      /\ db'[k.d].trip
  <2>1. db \in [Drivers -> Docs]
    BY DEF PresenceInv, Types
  <2> QED BY <1>1, <1>6, <2>1 DEF Docs
<1>8. OnlyOf(k.d)
  BY <1>1, <1>6, <1>7 DEF Takes, OnlyOf, PresenceInv, Types, jobs, offers, counts
<1>9. Knows(m) /\ Mends(m)'
  BY <1>1, <1>3, <1>5 DEF Knows, Mends, Good
<1>10. Shows(m)'
  BY <1>3, <1>5, <1>7 DEF Shows, Fit, Saving
<1>11. handler' = [handler EXCEPT ![h] = m]
  <2>1. handler' = [handler EXCEPT ![h].doc = db[k.d],
          ![h].plan = <<(Head(@) \ {"take"}) \cup {"sync"}>>]
    BY <1>1 DEF Takes
  <2>2. handler \in [Handlers -> Requests \cup {Idle}]
    BY DEF PresenceInv, Types
  <2> QED BY <1>1, <1>2, <1>4, <2>1, <2>2
<1> QED BY <1>1, <1>5, <1>6, <1>8, <1>9, <1>10, <1>11, Going

\* ... as going offline does.
LEMMA GoOfflineStep ==
    ASSUME PresenceInv, NEW h \in Handlers, GoOfflineWrites(h)
    PROVE  PresenceInv'
<1>1. PICK k, q, l :
              /\ k \in Requests /\ k = handler[h] /\ q = Rest(k.plan, "off") /\
                   l = After(handler[h], "off")
              /\ k # Idle /\ k.d \in Drivers /\ k.plan \in Plans /\ "off" \in Head(k.plan) /\ Good(k)
              /\ k.full \in BOOLEAN /\ k.doc \in Docs
              /\ q = <<>> => l = Idle
              /\ q \in Plans => /\ l \in Requests /\ l # Idle /\ l.d = k.d /\ l.doc = k.doc
                                /\ l.full = k.full /\ l.plan = q
  BY Split DEF GoOfflineWrites
<1>2. q = <<{"sync"}>> /\ q \in Plans /\ q # <<>>
  <2>1. k.plan = <<{"off"}, {"sync"}>>
    BY <1>1 DEF Plans
  <2>2. q = <<{"sync"}>> /\ q \in Plans
    <3>1. Rest(<<{"off"}, {"sync"}>>, "off") = <<{"sync"}>>
      BY RestOfOne
    <3>2. q = <<{"sync"}>>
      BY <1>1, <2>1, <3>1
    <3> QED BY <3>2 DEF Plans
  <2> QED BY <2>2
<1>3. PICK j : j = [k EXCEPT !.doc = db[k.d]]
  OBVIOUS
<1>4. PICK m : m = After(j, "off")
  OBVIOUS
<1>5. /\ m \in Requests /\ m # Idle /\ m.d = k.d /\ m.full = k.full /\ m.plan = q
  <2>1. db[k.d] \in Docs
    BY <1>1 DEF PresenceInv, Types
  <2>2. j \in Requests /\ j.d = k.d /\ j.full = k.full /\ j.plan = k.plan
    BY <1>1, <1>3, <2>1 DEF Requests
  <2>3. m = [j EXCEPT !.plan = q]
    BY <1>1, <1>2, <1>4, <2>2, AfterIs
  <2> QED BY <1>2, <2>2, <2>3, GoesOn
<1>6. /\ db' = [db EXCEPT ![k.d].online = FALSE]
      /\ geo' = geo /\ meta' = meta /\ astray' = astray /\ lost' = lost
  <2>1. j.d = k.d
    BY <1>1, <1>3 DEF Requests
  <2> QED BY <1>1, <1>3, <2>1 DEF GoOfflineWrites, history, index
<1>7. /\ db' \in [Drivers -> Docs] /\ \A e \in Drivers \ {k.d} : db'[e] = db[e]
      /\ ~db'[k.d].online
  <2>1. db \in [Drivers -> Docs]
    BY DEF PresenceInv, Types
  <2> QED BY <1>1, <1>6, <2>1 DEF Docs
<1>8. OnlyOf(k.d)
  BY <1>1, <1>6, <1>7
     DEF GoOfflineWrites, OnlyOf, PresenceInv, Types, jobs, offers, counts
<1>9. /\ ~Places(q) /\ ~Adds(q) /\ ~Frees(q) /\ ~Saves(q) /\ Resyncs(q) /\ ~Stays(q) /\ ~Gone(q)
      /\ ~Whole(q) /\ ~Online(q) /\ ~Bound(q) /\ ~Claims(q)
  BY <1>2, ShortPlans
<1>10. Knows(m) /\ Mends(m)'
  BY <1>5, <1>9 DEF Knows, Mends
<1>11. Shows(m)'
  BY <1>5, <1>7, <1>9 DEF Shows, Fit, Saving
<1>12. handler' = [handler EXCEPT ![h] = m]
  BY <1>1, <1>3, <1>4 DEF GoOfflineWrites
<1> QED BY <1>1, <1>5, <1>6, <1>8, <1>10, <1>11, <1>12, Going
(* The hook. *)

\* What is left once the hook has run.
LEMMA SyncPlans ==
    ASSUME NEW p \in Plans, "sync" \in Head(p), NEW q, q = Rest(p, "sync")
    PROVE  /\ Resyncs(p) /\ ~Saves(p)
           /\ \/ q = <<>> /\ "busy" \notin Head(p)
              \/ q = <<{"gauge"}, {"place"}>> /\ q \in Plans /\ Online(p) /\ "busy" \notin Head(p)
              \/ q = <<{"add"}>> /\ q \in Plans /\ Whole(p) /\ "busy" \notin Head(p)
              \/ q = <<{"busy"}>> /\ q \in Plans /\ Gone(p) /\ "busy" \in Head(p)
              \/ q = <<{"commit"}, {"busy"}>> /\ q \in Plans /\ "busy" \notin Head(p)
              \/ q = <<{"commit"}>> /\ q \in Plans /\ Claims(p) /\ "busy" \notin Head(p)
              \/ q = <<{"relieve"}>> /\ q \in Plans /\ "busy" \notin Head(p)
              \/ q = <<{"add", "free"}>> /\ q \in Plans /\ Whole(p) /\ "busy" \notin Head(p)
              \/ q = <<{"forget"}>> /\ q \in Plans /\ "busy" \notin Head(p)
<1>1. p \in {<<{"sync"}>>,
            <<{"sync"}, {"gauge"}, {"place"}>>,
            <<{"sync"}, {"add"}>>,
            <<{"sync", "busy"}>>,
            <<{"sync"}, {"commit"}, {"busy"}>>,
            <<{"sync"}, {"commit"}>>,
            <<{"sync"}, {"relieve"}>>,
            <<{"sync"}, {"add", "free"}>>,
            <<{"sync"}, {"forget"}>>}
  BY DEF Plans
<1>2. Resyncs(p)
  BY <1>1 DEF Resyncs
<1>3. ~Saves(p)
  BY <1>1 DEF Saves
<1>4. CASE p = <<{"sync"}>>
  <2>1. Rest(<<{"sync"}>>, "sync") = <<>>
    BY RestOfOne
  <2>2. q = <<>>
    BY <1>4, <2>1
  <2>3. "busy" \notin Head(p)
    BY <1>4
  <2> QED BY <1>2, <1>3, <2>2, <2>3
<1>5. CASE p = <<{"sync"}, {"gauge"}, {"place"}>>
  <2>1. Rest(<<{"sync"}, {"gauge"}, {"place"}>>, "sync") = <<{"gauge"}, {"place"}>>
    BY RestOfOne
  <2>2. q = <<{"gauge"}, {"place"}>>
    BY <1>5, <2>1
  <2>3. q \in Plans
    BY <2>2 DEF Plans
  <2>4. Online(p)
    BY <1>5 DEF Online
  <2>5. "busy" \notin Head(p)
    BY <1>5
  <2> QED BY <1>2, <1>3, <2>2, <2>3, <2>4, <2>5
<1>6. CASE p = <<{"sync"}, {"add"}>>
  <2>1. Rest(<<{"sync"}, {"add"}>>, "sync") = <<{"add"}>>
    BY RestOfOne
  <2>2. q = <<{"add"}>>
    BY <1>6, <2>1
  <2>3. q \in Plans
    BY <2>2 DEF Plans
  <2>4. Whole(p)
    BY <1>6 DEF Whole
  <2>5. "busy" \notin Head(p)
    BY <1>6
  <2> QED BY <1>2, <1>3, <2>2, <2>3, <2>4, <2>5
<1>7. CASE p = <<{"sync", "busy"}>>
  <2>1. Rest(<<{"sync", "busy"}>>, "sync") = <<{"busy"}>>
    BY RestOfTwo
  <2>2. q = <<{"busy"}>>
    BY <1>7, <2>1
  <2>3. q \in Plans
    BY <2>2 DEF Plans
  <2>4. Gone(p)
    BY <1>7 DEF Gone
  <2>5. "busy" \in Head(p)
    BY <1>7
  <2> QED BY <1>2, <1>3, <2>2, <2>3, <2>4, <2>5
<1>8. CASE p = <<{"sync"}, {"commit"}, {"busy"}>>
  <2>1. Rest(<<{"sync"}, {"commit"}, {"busy"}>>, "sync") = <<{"commit"}, {"busy"}>>
    BY RestOfOne
  <2>2. q = <<{"commit"}, {"busy"}>>
    BY <1>8, <2>1
  <2>3. q \in Plans
    BY <2>2 DEF Plans
  <2>4. "busy" \notin Head(p)
    BY <1>8
  <2> QED BY <1>2, <1>3, <2>2, <2>3, <2>4
<1>9. CASE p = <<{"sync"}, {"add", "free"}>>
  <2>1. Rest(<<{"sync"}, {"add", "free"}>>, "sync") = <<{"add", "free"}>>
    BY RestOfOne
  <2>2. q = <<{"add", "free"}>>
    BY <1>9, <2>1
  <2>3. q \in Plans
    BY <2>2 DEF Plans
  <2>4. Whole(p)
    BY <1>9 DEF Whole
  <2>5. "busy" \notin Head(p)
    BY <1>9
  <2> QED BY <1>2, <1>3, <2>2, <2>3, <2>4, <2>5
<1>10. CASE p = <<{"sync"}, {"forget"}>>
  <2>1. Rest(<<{"sync"}, {"forget"}>>, "sync") = <<{"forget"}>>
    BY RestOfOne
  <2>2. q = <<{"forget"}>>
    BY <1>10, <2>1
  <2>3. q \in Plans
    BY <2>2 DEF Plans
  <2>4. "busy" \notin Head(p)
    BY <1>10
  <2> QED BY <1>2, <1>3, <2>2, <2>3, <2>4
<1>11. CASE p = <<{"sync"}, {"commit"}>>
  <2>1. Rest(<<{"sync"}, {"commit"}>>, "sync") = <<{"commit"}>>
    BY RestOfOne
  <2>2. q = <<{"commit"}>>
    BY <1>11, <2>1
  <2>3. q \in Plans
    BY <2>2 DEF Plans
  <2>4. Claims(p)
    BY <1>11 DEF Claims
  <2>5. "busy" \notin Head(p)
    BY <1>11
  <2> QED BY <1>2, <1>3, <2>2, <2>3, <2>4, <2>5
<1>12. CASE p = <<{"sync"}, {"relieve"}>>
  <2>1. Rest(<<{"sync"}, {"relieve"}>>, "sync") = <<{"relieve"}>>
    BY RestOfOne
  <2>2. q = <<{"relieve"}>>
    BY <1>12, <2>1
  <2>3. q \in Plans
    BY <2>2 DEF Plans
  <2>4. "busy" \notin Head(p)
    BY <1>12
  <2> QED BY <1>2, <1>3, <2>2, <2>3, <2>4
<1> QED BY <1>1, <1>2, <1>3, <1>4, <1>5, <1>6, <1>7, <1>8, <1>9, <1>10, <1>11, <1>12

\* The hook lists the driver, or takes him off the list, by the document it was handed.
LEMMA HookStep ==
    ASSUME PresenceInv, NEW h \in Handlers, Hook(h)
    PROVE  PresenceInv'
<1>1. PICK k, q, l :
              /\ k \in Requests /\ k = handler[h] /\ q = Rest(k.plan, "sync") /\
                   l = After(handler[h], "sync")
              /\ k # Idle /\ k.d \in Drivers /\ k.plan \in Plans /\ "sync" \in Head(k.plan) /\ Good(k)
              /\ k.full \in BOOLEAN /\ k.doc \in Docs
              /\ q = <<>> => l = Idle
              /\ q \in Plans => /\ l \in Requests /\ l # Idle /\ l.d = k.d /\ l.doc = k.doc
                                /\ l.full = k.full /\ l.plan = q
  BY Split DEF Hook
<1>2. /\ Resyncs(k.plan) /\ ~Saves(k.plan)
      /\ \/ q = <<>> /\ "busy" \notin Head(k.plan)
         \/ q = <<{"gauge"}, {"place"}>> /\ q \in Plans /\ Online(k.plan) /\
              "busy" \notin Head(k.plan)
         \/ q = <<{"add"}>> /\ q \in Plans /\ Whole(k.plan) /\ "busy" \notin Head(k.plan)
         \/ q = <<{"busy"}>> /\ q \in Plans /\ Gone(k.plan) /\ "busy" \in Head(k.plan)
         \/ q = <<{"commit"}, {"busy"}>> /\ q \in Plans /\ "busy" \notin Head(k.plan)
         \/ q = <<{"commit"}>> /\ q \in Plans /\ Claims(k.plan) /\ "busy" \notin Head(k.plan)
         \/ q = <<{"relieve"}>> /\ q \in Plans /\ "busy" \notin Head(k.plan)
         \/ q = <<{"add", "free"}>> /\ q \in Plans /\ Whole(k.plan) /\ "busy" \notin Head(k.plan)
         \/ q = <<{"forget"}>> /\ q \in Plans /\ "busy" \notin Head(k.plan)
  BY <1>1, SyncPlans
<1>3. PICK others : others <=> Touched(k.d, Handlers \ {h})
  OBVIOUS
<1>4. PICK busy : busy <=> "busy" \in Head(k.plan)
  OBVIOUS
<1>5. /\ Sync(k.d, k.doc, k.full) /\ db' = db
      /\ IF k.full /\ k.doc = db[k.d] /\ ~busy /\ ~others
         THEN astray' = astray \ {k.d} /\ lost' = lost \ {k.d}
         ELSE /\ astray' = IF (k.full /\ k.doc = db[k.d]) \/ ~k.full \/ busy
                           THEN astray ELSE astray \cup {k.d}
              /\ lost' = IF k.full THEN lost ELSE lost \cup {k.d}
  <2>1. At(h, "busy") <=> busy
    <3>1. handler[h].plan # <<>>
      BY DEF Hook, At
    <3> QED BY <1>1, <1>4, <3>1 DEF At
  <2> QED BY <1>1, <1>3, <2>1 DEF Hook
<1>6. /\ geo' \in [Drivers -> SUBSET Sets] /\ meta' \in [Drivers -> Hashes]
      /\ ~meta'[k.d].there => meta'[k.d] = NoMeta
      /\ \A e \in Drivers \ {k.d} : geo'[e] = geo[e] /\ meta'[e] = meta[e]
      /\ k.full /\ Fit(k.doc) => "global" \in geo'[k.d] /\ ~meta'[k.d].trip
      /\ ~(k.full /\ Fit(k.doc)) => ~meta'[k.d].there /\ ~meta'[k.d].online /\ ~meta'[k.d].trip
  <2>1. CASE k.full
    <3>1. Add(k.d, k.doc)
      BY <1>5, <2>1 DEF Sync
    <3> QED BY <1>1, <2>1, <3>1, AddDoes DEF PresenceInv
  <2>2. CASE ~k.full
    <3>1. Remove(k.d, FALSE)
      BY <1>5, <2>2 DEF Sync
    <3> QED BY <1>1, <2>2, <3>1, RemoveDoes DEF PresenceInv
  <2> QED BY <2>1, <2>2
<1>7. OnlyOf(k.d)
  <2>1. /\ \A e \in Drivers \ {k.d} : (e \in astray' <=> e \in astray) /\ (e \in lost' <=> e \in lost)
        /\ astray' \subseteq Drivers /\ lost' \subseteq Drivers
    BY <1>1, <1>5 DEF PresenceInv, Types
  <2> QED BY <1>1, <1>5, <1>6, <2>1
             DEF Hook, OnlyOf, PresenceInv, Types, jobs, offers, counts
<1>8. Touched(k.d, Handlers \ {h}) => /\ k.d \in astray => k.d \in astray'
                                      /\ k.d \in lost => k.d \in lost'
  BY <1>3, <1>5
<1>9. ~others /\ ~busy /\ k.d \notin astray' /\ k.full => k.doc = db[k.d]
  BY <1>5
<1>10. ~others /\ k.d \notin lost' => k.full /\ (busy => k.d \notin lost)
  BY <1>5
<1>11. ~others /\ k.d \notin lost' => k.full /\ (Fit(db[k.d]) => Fit(k.doc))
  <2> SUFFICES ASSUME ~others, k.d \notin lost' PROVE k.full /\ (Fit(db[k.d]) => Fit(k.doc))
    OBVIOUS
  <2>1. k.full /\ (k.doc = db[k.d] \/ k.d \notin lost)
    BY <1>5
  <2>2. CASE k.doc = db[k.d]
    BY <2>1, <2>2
  <2>3. CASE k.d \notin lost
    BY <1>1, <1>2, <2>1, <2>3 DEF Good, Shows, Saving
  <2> QED BY <2>1, <2>2, <2>3
<1>12. ~others /\ ~busy /\ k.d \notin astray' => Truthful(k.d)'
  BY <1>1, <1>5, <1>6, <1>9 DEF Truthful, Offerable
<1>13. ~others /\ k.d \notin lost' => Listed(k.d)'
  BY <1>5, <1>6, <1>11 DEF Listed
<1>14. l # Idle => Knows(l)
  <2> SUFFICES ASSUME l # Idle PROVE Knows(l)
    OBVIOUS
  <2>1. /\ q \in Plans /\ l.d = k.d /\ l.doc = k.doc /\ l.full = k.full /\ l.plan = q
        /\ Online(q) => Online(k.plan)
        /\ Whole(q) => Whole(k.plan)
        /\ Claims(q) => Claims(k.plan)
    BY <1>1, <1>2, ShortPlans, LastPlans
  <2> QED BY <1>1, <2>1 DEF Knows, Good
<1>15. ~others /\ l # Idle => (k.d \notin astray' => Mends(l)') /\ (k.d \notin lost' => Shows(l)')
  <2> SUFFICES ASSUME ~others, l # Idle
               PROVE  (k.d \notin astray' => Mends(l)') /\ (k.d \notin lost' => Shows(l)')
    OBVIOUS
  <2>1. /\ q \in Plans /\ l.d = k.d /\ l.doc = k.doc /\ l.full = k.full /\ l.plan = q
    BY <1>1, <1>2
  <2>2. CASE q = <<{"gauge"}, {"place"}>> /\ ~busy
    <3>1. /\ Stays(q) /\ Places(q) /\ ~Adds(q) /\ ~Frees(q) /\ ~Resyncs(q) /\ ~Gone(q) /\ ~Bound(q)
      BY <2>2, LastPlans
    <3>2. k.d \notin astray' => Mends(l)'
      BY <1>5, <1>9, <1>12, <2>1, <2>2, <3>1 DEF Mends
    <3>3. k.d \notin lost' => Shows(l)'
      BY <1>13, <2>1, <3>1 DEF Shows
    <3> QED BY <3>2, <3>3
  <2>3. CASE (q = <<{"add"}>> \/ q = <<{"add", "free"}>>) /\ Whole(k.plan) /\ ~busy
    <3>1. ~Places(q) /\ Resyncs(q) /\ ~Stays(q) /\ ~Gone(q) /\ ~Saves(q) /\ ~Bound(q)
      BY <2>3, ShortPlans
    <3>2. k.full
      BY <1>1, <2>3 DEF Good, Knows
    <3>3. k.d \notin astray' => Mends(l)'
      BY <1>5, <1>6, <1>9, <2>1, <2>3, <3>1, <3>2 DEF Mends
    <3>4. k.d \notin lost' => Shows(l)'
      BY <1>5, <1>11, <2>1, <3>1 DEF Shows, Saving
    <3> QED BY <3>3, <3>4
  <2>4. CASE q = <<{"busy"}>> /\ Gone(k.plan) /\ busy
    <3>1. /\ ~Places(q) /\ ~Adds(q) /\ ~Frees(q) /\ ~Resyncs(q) /\ ~Stays(q) /\ Gone(q) /\ ~Bound(q)
      BY <2>4, ShortPlans
    <3>2. Mends(l)'
      BY <2>1, <3>1 DEF Mends
    <3>3. k.d \notin lost' => ~Fit(db[k.d])
      BY <1>1, <1>10, <2>4 DEF Good, Shows
    <3>4. k.d \notin lost' => Shows(l)'
      BY <1>5, <2>1, <3>1, <3>3 DEF Shows
    <3> QED BY <3>2, <3>4
  <2>5. CASE /\ q \in {<<{"commit"}, {"busy"}>>, <<{"commit"}>>, <<{"relieve"}>>} /\ ~busy
             /\ q = <<{"commit"}>> => Claims(k.plan)
    <3>1. /\ ~Places(q) /\ ~Adds(q) /\ ~Frees(q) /\ ~Resyncs(q) /\ Stays(q) /\ Bound(q) /\ ~Gone(q)
          /\ Claims(q) => q = <<{"commit"}>>
      BY <2>5, ShortPlans
    <3>2. Claims(q) => ~Offerable(k.d)'
      BY <1>1, <1>6, <2>5, <3>1 DEF Good, Knows, Offerable
    <3>3. k.d \notin astray' => Mends(l)'
      BY <1>12, <2>1, <2>5, <3>1, <3>2 DEF Mends
    <3>4. k.d \notin lost' => Shows(l)'
      BY <1>13, <2>1, <3>1 DEF Shows
    <3> QED BY <3>3, <3>4
  <2>6. CASE q = <<{"forget"}>>
    <3>1. /\ ~Places(q) /\ ~Adds(q) /\ ~Frees(q) /\ ~Resyncs(q) /\ Stays(q) /\ ~Gone(q) /\ ~Bound(q)
      BY <2>6, LastPlans
    <3> QED BY <1>13, <2>1, <3>1 DEF Mends, Shows
  <2>7. q # <<>>
    BY <1>1
  <2> QED BY <1>2, <1>4, <2>2, <2>3, <2>4, <2>5, <2>6, <2>7
<1>16. l = Idle => ~busy
  BY <1>1, <1>2, <1>4
<1>17. l = Idle \/ (l \in Requests /\ l.d = k.d)
  BY <1>1, <1>2
<1>18. handler' = [handler EXCEPT ![h] = l]
  BY <1>1 DEF Hook, Done
<1>19. ~Touched(k.d, Handlers \ {h}) =>
              /\ l # Idle => (k.d \notin astray' => Mends(l)') /\ (k.d \notin lost' => Shows(l)')
              /\ l = Idle => (k.d \notin astray' => Truthful(k.d)') /\ (k.d \notin lost'
                   => Listed(k.d)')
  BY <1>3, <1>12, <1>13, <1>15, <1>16
<1> QED BY <1>1, <1>7, <1>8, <1>14, <1>17, <1>18, <1>19, Going
\* A step left out leaves a plan that asks no more than the one before.
LEMMA Skips ==
    ASSUME NEW p \in Plans,
           NEW step \in {"sync", "add", "drop", "place", "busy", "free", "forget"},
           step \in Head(p), NEW q, q = Rest(p, step)
    PROVE  \/ q = <<>>
           \/ /\ q \in Plans /\ (Online(q) => Online(p))
              /\ (Whole(q) => Whole(p)) /\ (Claims(q) => Claims(p))
<1>1. CASE step = "sync"
  BY <1>1, SyncPlans, ShortPlans, LastPlans
<1>2. CASE step = "add"
  BY <1>2, AddPlans, ShortPlans
<1>3. CASE step = "drop"
  BY <1>3, DropPlans, ShortPlans
<1>4. CASE step = "place"
  BY <1>4, PlacePlans, LastPlans
<1>5. CASE step = "busy"
  BY <1>5, BusyPlans
<1>6. CASE step = "free"
  BY <1>6, FreePlans, ShortPlans
<1>7. CASE step = "forget"
  <2>1. p = <<{"forget"}>>
    BY <1>7 DEF Plans
  <2> QED BY <1>7, <2>1, RestOfOne
<1> QED BY <1>1, <1>2, <1>3, <1>4, <1>5, <1>6, <1>7

\* Redis fails in a step, and the driver is doubted.
LEMMA RedisFailsStep ==
    ASSUME PresenceInv, NEW h \in Handlers, RedisFails(h)
    PROVE  PresenceInv'
<1>1. PICK step \in {"sync", "add", "drop", "place", "busy", "free", "forget"} :
         At(h, step) /\ Done(h, step)
  BY DEF RedisFails
<1>2. PICK k, q, l :
              /\ k \in Requests /\ k = handler[h] /\ q = Rest(k.plan, step) /\
                   l = After(handler[h], step)
              /\ k # Idle /\ k.d \in Drivers /\ k.plan \in Plans /\ step \in Head(k.plan) /\ Good(k)
              /\ k.full \in BOOLEAN /\ k.doc \in Docs
              /\ q = <<>> => l = Idle
              /\ q \in Plans => /\ l \in Requests /\ l # Idle /\ l.d = k.d /\ l.doc = k.doc
                                /\ l.full = k.full /\ l.plan = q
  BY <1>1, Split
<1>3. \/ q = <<>>
      \/ /\ q \in Plans /\ (Online(q) => Online(k.plan))
         /\ (Whole(q) => Whole(k.plan)) /\ (Claims(q) => Claims(k.plan))
  BY <1>2, Skips
<1>4. l = Idle \/ (l \in Requests /\ l.d = k.d /\ Knows(l))
  BY <1>2, <1>3 DEF Good, Knows
<1>5. /\ db' = db /\ geo' = geo /\ meta' = meta
      /\ astray' = astray \cup {k.d} /\ lost' = lost \cup {k.d}
      /\ restarts < MaxRestart /\ restarts' = restarts + 1
  BY <1>2 DEF RedisFails, Doubt, index
<1>6. OnlyOf(k.d)
  <2>1. restarts' \in 0..MaxRestart
    BY <1>5, PresenceAssumption DEF PresenceInv, Types
  <2> QED BY <1>2, <1>5, <2>1 DEF RedisFails, OnlyOf, PresenceInv, Types, jobs, offers
<1>7. handler' = [handler EXCEPT ![h] = l]
  BY <1>1, <1>2 DEF Done
<1> QED BY <1>2, <1>4, <1>5, <1>6, <1>7, Going

(* Requests begin. *)

\* One step after the other, and after two.
LEMMA Joined ==
    ASSUME NEW a, NEW b
    PROVE  <<a>> \o <<b>> = <<a, b>>
<1> DEFINE S == {a, b}
<1>1. <<a>> \in Seq(S) /\ <<b>> \in Seq(S) /\ <<a, b>> \in Seq(S)
  OBVIOUS
<1>2. /\ Len(<<a>> \o <<b>>) = 2
      /\ (<<a>> \o <<b>>)[1] = a
      /\ (<<a>> \o <<b>>)[2] = b
  BY <1>1
<1>3. <<a>> \o <<b>> \in Seq(S)
  BY <1>1
<1>4. Len(<<a, b>>) = 2 /\ \A i \in 1 .. 2 : (<<a>> \o <<b>>)[i] = <<a, b>>[i]
  BY <1>2
<1> HIDE DEF S
<1> QED BY <1>1, <1>2, <1>3, <1>4, SeqEqual

\* ... and one after two.
LEMMA JoinedTwo ==
    ASSUME NEW a, NEW b, NEW c
    PROVE  <<a, b>> \o <<c>> = <<a, b, c>>
<1> DEFINE S == {a, b, c}
<1>1. <<a, b>> \in Seq(S) /\ <<c>> \in Seq(S) /\ <<a, b, c>> \in Seq(S)
  OBVIOUS
<1>2. /\ Len(<<a, b>> \o <<c>>) = 3
      /\ (<<a, b>> \o <<c>>)[1] = a
      /\ (<<a, b>> \o <<c>>)[2] = b
      /\ (<<a, b>> \o <<c>>)[3] = c
  BY <1>1
<1>3. <<a, b>> \o <<c>> \in Seq(S)
  BY <1>1
<1>4. Len(<<a, b, c>>) = 3 /\ \A i \in 1 .. 3 : (<<a, b>> \o <<c>>)[i] = <<a, b, c>>[i]
  BY <1>2
<1> HIDE DEF S
<1> QED BY <1>1, <1>2, <1>3, <1>4, SeqEqual

\* What the plans of new requests ask.
LEMMA NewPlans ==
    /\ \A p : p \in {<<{"sync"}>>, <<{"sync"}, {"forget"}>>, <<{"sync"}, {"commit"}>>} =>
          /\ ~Places(p) /\ ~Adds(p) /\ ~Frees(p) /\ ~Saves(p) /\ ~Stays(p) /\ ~Gone(p)
          /\ ~Whole(p) /\ ~Online(p) /\ ~Bound(p)
    /\ \A p : p \in {<<{"sync"}, {"add"}>>, <<{"sync"}, {"commit"}, {"busy"}>>,
                     <<{"sync"}, {"add", "free"}>>, <<{"off"}, {"sync"}>>, <<{"take", "busy"}>>,
                     <<{"sync"}, {"relieve"}>>} =>
          /\ ~Places(p) /\ ~Adds(p) /\ ~Frees(p) /\ ~Saves(p) /\ ~Stays(p) /\ ~Gone(p)
          /\ ~Online(p) /\ ~Bound(p) /\ ~Claims(p)
    /\ \A p : p \in {<<{"off"}, {"sync"}>>, <<{"take", "busy"}>>} => ~Resyncs(p)
    /\ \A p : p = <<{"sync"}, {"gauge"}, {"place"}>> =>
          /\ ~Places(p) /\ ~Adds(p) /\ ~Frees(p) /\ ~Saves(p) /\ ~Stays(p) /\ ~Gone(p)
          /\ ~Whole(p) /\ ~Claims(p)
    /\ \A p : p = <<{"drop"}>> =>
          /\ ~Places(p) /\ ~Adds(p) /\ ~Frees(p) /\ ~Saves(p) /\ ~Resyncs(p) /\ ~Stays(p) /\
               ~Whole(p) /\ ~Online(p) /\ ~Bound(p) /\ ~Claims(p)
    /\ \A p : p \in {<<{"add"}, {"save"}, {"sync"}>>, <<{"drop"}, {"save"}, {"sync"}>>} =>
          /\ ~Places(p) /\ ~Adds(p) /\ ~Frees(p) /\ Saves(p) /\ ~Stays(p) /\ ~Gone(p)
          /\ ~Online(p) /\ ~Bound(p) /\ ~Claims(p)
    /\ \A p : p \in {<<{"add"}, {"sync"}>>, <<{"drop"}, {"sync"}>>} =>
          /\ ~Places(p) /\ ~Adds(p) /\ ~Frees(p) /\ ~Saves(p) /\ ~Stays(p) /\ ~Gone(p)
          /\ ~Online(p) /\ ~Bound(p) /\ ~Claims(p)
    /\ \A p : p \in {<<{"sync"}>>, <<{"sync"}, {"forget"}>>} => ~Claims(p)
<1> USE DEF Stays, Places, Adds, Frees, Saves, Resyncs, Gone, Whole, Online, Bound, Claims
<1>1. \A p : p \in {<<{"sync"}>>, <<{"sync"}, {"forget"}>>, <<{"sync"}, {"commit"}>>} =>
          /\ ~Places(p) /\ ~Adds(p) /\ ~Frees(p) /\ ~Saves(p) /\ ~Stays(p) /\ ~Gone(p)
          /\ ~Whole(p) /\ ~Online(p) /\ ~Bound(p)
  OBVIOUS
<1>2. \A p : p \in {<<{"sync"}, {"add"}>>, <<{"sync"}, {"commit"}, {"busy"}>>,
                     <<{"sync"}, {"add", "free"}>>, <<{"off"}, {"sync"}>>, <<{"take", "busy"}>>,
                     <<{"sync"}, {"relieve"}>>} =>
          /\ ~Places(p) /\ ~Adds(p) /\ ~Frees(p) /\ ~Saves(p) /\ ~Stays(p) /\ ~Gone(p)
          /\ ~Online(p) /\ ~Bound(p) /\ ~Claims(p)
  <2>1. \A p : p = <<{"sync"}, {"add"}>> =>
            /\ ~Places(p) /\ ~Adds(p) /\ ~Frees(p) /\ ~Saves(p) /\ ~Stays(p) /\ ~Gone(p)
            /\ ~Online(p) /\ ~Bound(p) /\ ~Claims(p)
    OBVIOUS
  <2>2. \A p : p = <<{"sync"}, {"commit"}, {"busy"}>> =>
            /\ ~Places(p) /\ ~Adds(p) /\ ~Frees(p) /\ ~Saves(p) /\ ~Stays(p) /\ ~Gone(p)
            /\ ~Online(p) /\ ~Bound(p) /\ ~Claims(p)
    OBVIOUS
  <2>3. \A p : p = <<{"sync"}, {"add", "free"}>> =>
            /\ ~Places(p) /\ ~Adds(p) /\ ~Frees(p) /\ ~Saves(p) /\ ~Stays(p) /\ ~Gone(p)
            /\ ~Online(p) /\ ~Bound(p) /\ ~Claims(p)
    OBVIOUS
  <2>4. \A p : p = <<{"off"}, {"sync"}>> =>
            /\ ~Places(p) /\ ~Adds(p) /\ ~Frees(p) /\ ~Saves(p) /\ ~Stays(p) /\ ~Gone(p)
            /\ ~Online(p) /\ ~Bound(p) /\ ~Claims(p)
    OBVIOUS
  <2>5. \A p : p = <<{"take", "busy"}>> =>
            /\ ~Places(p) /\ ~Adds(p) /\ ~Frees(p) /\ ~Saves(p) /\ ~Stays(p) /\ ~Gone(p)
            /\ ~Online(p) /\ ~Bound(p) /\ ~Claims(p)
    OBVIOUS
  <2>6. \A p : p = <<{"sync"}, {"relieve"}>> =>
            /\ ~Places(p) /\ ~Adds(p) /\ ~Frees(p) /\ ~Saves(p) /\ ~Stays(p) /\ ~Gone(p)
            /\ ~Online(p) /\ ~Bound(p) /\ ~Claims(p)
    OBVIOUS
  <2> QED BY <2>1, <2>2, <2>3, <2>4, <2>5, <2>6
<1>3. \A p : p \in {<<{"off"}, {"sync"}>>, <<{"take", "busy"}>>} => ~Resyncs(p)
  OBVIOUS
<1>4. \A p : p = <<{"sync"}, {"gauge"}, {"place"}>> =>
          /\ ~Places(p) /\ ~Adds(p) /\ ~Frees(p) /\ ~Saves(p) /\ ~Stays(p) /\ ~Gone(p)
          /\ ~Whole(p) /\ ~Claims(p)
  OBVIOUS
<1>5. \A p : p = <<{"drop"}>> =>
          /\ ~Places(p) /\ ~Adds(p) /\ ~Frees(p) /\ ~Saves(p) /\ ~Resyncs(p) /\ ~Stays(p) /\
               ~Whole(p) /\ ~Online(p) /\ ~Bound(p) /\ ~Claims(p)
  OBVIOUS
<1>6. \A p : p \in {<<{"add"}, {"save"}, {"sync"}>>, <<{"drop"}, {"save"}, {"sync"}>>} =>
          /\ ~Places(p) /\ ~Adds(p) /\ ~Frees(p) /\ Saves(p) /\ ~Stays(p) /\ ~Gone(p)
          /\ ~Online(p) /\ ~Bound(p) /\ ~Claims(p)
  OBVIOUS
<1>7. \A p : p \in {<<{"add"}, {"sync"}>>, <<{"drop"}, {"sync"}>>} =>
          /\ ~Places(p) /\ ~Adds(p) /\ ~Frees(p) /\ ~Saves(p) /\ ~Stays(p) /\ ~Gone(p)
          /\ ~Online(p) /\ ~Bound(p) /\ ~Claims(p)
  OBVIOUS
<1>8. \A p : p \in {<<{"sync"}>>, <<{"sync"}, {"forget"}>>} => ~Claims(p)
  OBVIOUS
<1> QED BY <1>1, <1>2, <1>3, <1>4, <1>5, <1>6, <1>7, <1>8

\* A request begins that will not go by what the index says.
LEMMA Asking ==
    ASSUME PresenceInv, NEW h \in Handlers, NEW k \in Requests, Begin(h, k),
           db' \in [Drivers -> Docs], \A e \in Drivers \ {k.d} : db'[e] = db[e],
           allowed' \subseteq Drivers, Knows(k),
           ~Places(k.plan) /\ ~Adds(k.plan) /\ ~Frees(k.plan) /\ ~Stays(k.plan),
           k.full /\ Resyncs(k.plan) => (Fit(Saving(k))' => Fit(k.doc)),
           Gone(k.plan) => ~Fit(db'[k.d])
    PROVE  PresenceInv'
<1>1. Mends(k)'
  BY DEF Mends, Stays
<1>2. Shows(k)'
  BY DEF Shows, Fit
<1> QED BY <1>1, <1>2, Beginning

\* ... or of which no document is known,
LEMMA AskingPart ==
    ASSUME PresenceInv, NEW h \in Handlers, NEW d \in Drivers,
           NEW p \in {<<{"sync"}>>, <<{"sync"}, {"forget"}>>, <<{"sync"}, {"commit"}>>},
           Begin(h, Part(d, p)),
           db' \in [Drivers -> Docs], \A e \in Drivers \ {d} : db'[e] = db[e], allowed' = allowed
    PROVE  PresenceInv'
<1>1. PICK k : k = Part(d, p)
  OBVIOUS
<1>2. p \in Plans
  BY DEF Plans
<1>3. k \in Requests /\ k.d = d /\ k.plan = p /\ ~k.full
  BY <1>1, <1>2, PartIs
<1>4. /\ ~Places(p) /\ ~Adds(p) /\ ~Frees(p) /\ ~Saves(p) /\ ~Stays(p) /\ ~Gone(p)
      /\ ~Whole(p) /\ ~Online(p)
  BY NewPlans
<1>5. Knows(k)
  BY <1>3, <1>4 DEF Knows
<1>6. allowed' \subseteq Drivers
  BY DEF PresenceInv, Types
<1> QED BY <1>1, <1>3, <1>4, <1>5, <1>6, Asking

\* ... or the whole document as it now is,
LEMMA AskingWhole ==
    ASSUME PresenceInv, NEW h \in Handlers, NEW d \in Drivers, NEW doc \in Docs,
           NEW p \in Plans, Begin(h, Rec(d, doc, p)),
           db' \in [Drivers -> Docs], \A e \in Drivers \ {d} : db'[e] = db[e], allowed' = allowed,
           ~Places(p) /\ ~Adds(p) /\ ~Frees(p) /\ ~Saves(p) /\ ~Stays(p) /\ ~Gone(p)
           /\ ~Online(p) /\ ~Bound(p) /\ ~Claims(p),
           Resyncs(p) => doc = db'[d]
    PROVE  PresenceInv'
<1>1. PICK k : k = Rec(d, doc, p)
  OBVIOUS
<1>2. k \in Requests /\ k.d = d /\ k.plan = p /\ k.full /\ k.doc = doc
  BY <1>1, RecIs
<1>3. Knows(k)
  BY <1>2 DEF Knows
<1>4. allowed' \subseteq Drivers
  BY DEF PresenceInv, Types
<1>5. k.full /\ Resyncs(k.plan) => (Fit(Saving(k))' => Fit(k.doc))
  BY <1>2 DEF Saving, Fit
<1> QED BY <1>1, <1>2, <1>3, <1>4, <1>5, Asking

\* ... or that places the driver.
LEMMA Placing ==
    ASSUME PresenceInv, NEW h \in Handlers, NEW k \in Requests, Begin(h, k), db' = db,
           allowed' \subseteq Drivers, ~k.full,
           k.plan \in {<<{"gauge"}, {"place"}>>, <<{"gauge"}, {"place"}, {"forget"}>>}
    PROVE  PresenceInv'
<1>1. /\ Stays(k.plan) /\ Places(k.plan) /\ ~Adds(k.plan) /\ ~Frees(k.plan) /\ ~Saves(k.plan)
      /\ ~Resyncs(k.plan) /\ ~Gone(k.plan) /\ ~Whole(k.plan) /\ ~Bound(k.plan)
  BY LastPlans
<1>2. Knows(k)
  BY <1>1 DEF Knows
<1>3. meta' = meta /\ geo' = geo
  BY DEF Begin, index
<1>4. Truthful(k.d) => Mends(k)'
  BY <1>1, <1>3 DEF Mends, Truthful, Offerable
<1>5. Listed(k.d) => Shows(k)'
  BY <1>1, <1>3 DEF Shows, Listed
<1>6. db' \in [Drivers -> Docs]
  BY DEF PresenceInv, Types
<1> QED BY <1>2, <1>4, <1>5, <1>6, Beginning

\* The documents after a write of one of them.
LEMMA Written ==
    ASSUME PresenceInv, NEW d \in Drivers
    PROVE  /\ db \in [Drivers -> Docs] /\ db[d] \in Docs
           /\ \A doc \in Docs : db' = [db EXCEPT ![d] = doc] =>
                 db' \in [Drivers -> Docs] /\ \A e \in Drivers \ {d} : db'[e] = db[e]
           /\ \A doc \in Docs, v \in BOOLEAN :
                 [doc EXCEPT !.online = v] \in Docs /\ [doc EXCEPT !.trip = v] \in Docs
                 /\ [doc EXCEPT !.active = v] \in Docs
<1>1. db \in [Drivers -> Docs] /\ db[d] \in Docs
  BY DEF PresenceInv, Types
<1>2. \A doc \in Docs, v \in BOOLEAN :
         [doc EXCEPT !.online = v] \in Docs /\ [doc EXCEPT !.trip = v] \in Docs
         /\ [doc EXCEPT !.active = v] \in Docs
  BY DEF Docs
<1> QED BY <1>1, <1>2

\* The driver's own requests over HTTP,
LEMMA StatusReadsStep ==
    ASSUME PresenceInv, NEW h \in Handlers, NEW d \in Drivers, NEW on \in BOOLEAN, StatusReads(h,
           d, on)
    PROVE  PresenceInv'
<1>1. PICK doc : doc = [db[d] EXCEPT !.online = on]
  OBVIOUS
<1>2. PICK p : p = <<{IF on THEN "add" ELSE "drop"}>>
                    \o (IF db[d].online = on THEN <<>> ELSE <<{"save"}>>) \o <<{"sync"}>>
  OBVIOUS
<1>3. PICK k : k = Rec(d, doc, p)
  OBVIOUS
<1>4. db \in [Drivers -> Docs] /\ db[d] \in Docs /\ doc \in Docs
  BY <1>1, Written DEF Docs
<1>5. \/ p \in {<<{"add"}, {"save"}, {"sync"}>>, <<{"drop"}, {"save"}, {"sync"}>>} /\
           db[d].online # on
      \/ p \in {<<{"add"}, {"sync"}>>, <<{"drop"}, {"sync"}>>} /\ db[d].online = on
  <2>1. CASE on /\ db[d].online = on
    <3>1. p = <<{"add"}>> \o <<>> \o <<{"sync"}>>
      BY <1>2, <2>1
    <3>2. <<{"add"}>> \o <<>> = <<{"add"}>>
      OBVIOUS
    <3>3. <<{"add"}>> \o <<{"sync"}>> = <<{"add"}, {"sync"}>>
      BY Joined
    <3>4. p = <<{"add"}, {"sync"}>>
      BY <3>1, <3>2, <3>3
    <3> QED BY <2>1, <3>4
  <2>2. CASE on /\ db[d].online # on
    <3>1. p = <<{"add"}>> \o <<{"save"}>> \o <<{"sync"}>>
      BY <1>2, <2>2
    <3>2. <<{"add"}>> \o <<{"save"}>> = <<{"add"}, {"save"}>>
      BY Joined
    <3>3. <<{"add"}, {"save"}>> \o <<{"sync"}>> = <<{"add"}, {"save"}, {"sync"}>>
      BY JoinedTwo
    <3>4. p = <<{"add"}, {"save"}, {"sync"}>>
      BY <3>1, <3>2, <3>3
    <3> QED BY <2>2, <3>4
  <2>3. CASE ~on /\ db[d].online = on
    <3>1. p = <<{"drop"}>> \o <<>> \o <<{"sync"}>>
      BY <1>2, <2>3
    <3>2. <<{"drop"}>> \o <<>> = <<{"drop"}>>
      OBVIOUS
    <3>3. <<{"drop"}>> \o <<{"sync"}>> = <<{"drop"}, {"sync"}>>
      BY Joined
    <3>4. p = <<{"drop"}, {"sync"}>>
      BY <3>1, <3>2, <3>3
    <3> QED BY <2>3, <3>4
  <2>4. CASE ~on /\ db[d].online # on
    <3>1. p = <<{"drop"}>> \o <<{"save"}>> \o <<{"sync"}>>
      BY <1>2, <2>4
    <3>2. <<{"drop"}>> \o <<{"save"}>> = <<{"drop"}, {"save"}>>
      BY Joined
    <3>3. <<{"drop"}, {"save"}>> \o <<{"sync"}>> = <<{"drop"}, {"save"}, {"sync"}>>
      BY JoinedTwo
    <3>4. p = <<{"drop"}, {"save"}, {"sync"}>>
      BY <3>1, <3>2, <3>3
    <3> QED BY <2>4, <3>4
  <2> QED BY <2>1, <2>2, <2>3, <2>4
<1>6. p \in Plans
  BY <1>5 DEF Plans
<1>7. /\ ~Places(p) /\ ~Adds(p) /\ ~Frees(p) /\ ~Stays(p) /\ ~Gone(p)
      /\ ~Online(p) /\ ~Bound(p) /\ ~Claims(p)
      /\ ~Saves(p) => db[d].online = on
  BY <1>5, NewPlans
<1>8. k \in Requests /\ k.d = d /\ k.doc = doc /\ k.plan = p /\ k.full
  BY <1>3, <1>4, <1>6, RecIs
<1>9. Knows(k)
  BY <1>7, <1>8 DEF Knows
<1>10. db' = db /\ Begin(h, k) /\ allowed' \subseteq Drivers
  BY <1>1, <1>2, <1>3 DEF StatusReads, PresenceInv, Types
<1>11. Saving(k)' = doc
  <2>1. CASE Saves(p)
    <3>1. [db[d] EXCEPT !.online = k.doc.online] = doc
      BY <1>1, <1>4, <1>8 DEF Docs
    <3> QED BY <1>8, <1>10, <2>1, <3>1 DEF Saving
  <2>2. CASE ~Saves(p)
    <3>1. doc = db[d]
      BY <1>1, <1>4, <1>7, <2>2 DEF Docs
    <3> QED BY <1>8, <1>10, <2>2, <3>1 DEF Saving
  <2> QED BY <2>1, <2>2
<1>12. Fit(Saving(k))' => Fit(k.doc)
  BY <1>8, <1>11 DEF Fit
<1> QED BY <1>4, <1>7, <1>8, <1>9, <1>10, <1>12, Asking

\* ... a position sent over HTTP,
LEMMA LocationReadsStep ==
    ASSUME PresenceInv, NEW h \in Handlers, NEW d \in Drivers, LocationReads(h, d)
    PROVE  PresenceInv'
<1>1. PICK p : p = IF db[d].active /\ db[d].online THEN <<{"sync"}, {"gauge"},
        {"place"}>> ELSE <<{"drop"}>>
  OBVIOUS
<1>2. PICK k : k = [Rec(d, db[d], p) EXCEPT !.area = TRUE]
  OBVIOUS
<1>3. db \in [Drivers -> Docs] /\ db[d] \in Docs
  BY Written
<1>4. p \in Plans
  BY <1>1 DEF Plans
<1>5. k \in Requests /\ k.d = d /\ k.doc = db[d] /\ k.plan = p /\ k.full
  <2>1. /\ Rec(d, db[d], p) \in Requests /\ Rec(d, db[d], p).d = d /\ Rec(d, db[d], p).doc = db[d]
        /\ Rec(d, db[d], p).plan = p /\ Rec(d, db[d], p).full
    BY <1>3, <1>4, RecIs
  <2> QED BY <1>2, <2>1 DEF Requests
<1>6. db' = db /\ Begin(h, k) /\ allowed' \subseteq Drivers
  BY <1>1, <1>2 DEF LocationReads, PresenceInv, Types
<1>7. /\ ~Places(p) /\ ~Adds(p) /\ ~Frees(p) /\ ~Saves(p) /\ ~Stays(p) /\ ~Claims(p) /\ ~Whole(p)
      /\ Gone(p) \/ Online(p) => (Gone(p) => ~Fit(db[d])) /\ (Online(p) => db[d].online /\
           db[d].active)
  <2>1. CASE db[d].active /\ db[d].online
    <3>1. p = <<{"sync"}, {"gauge"}, {"place"}>>
      BY <1>1, <2>1
    <3> QED BY <2>1, <3>1, NewPlans
  <2>2. CASE ~(db[d].active /\ db[d].online)
    <3>1. p = <<{"drop"}>>
      BY <1>1, <2>2
    <3> QED BY <2>2, <3>1, NewPlans DEF Fit
  <2> QED BY <2>1, <2>2
<1>8. Knows(k)
  BY <1>5, <1>7 DEF Knows
<1>9. Saving(k)' = k.doc
  BY <1>5, <1>6, <1>7 DEF Saving
<1>10. Fit(Saving(k))' => Fit(k.doc)
  BY <1>9 DEF Fit
<1> QED BY <1>3, <1>5, <1>6, <1>7, <1>8, <1>10, Asking
\* ... the writes that hand the hook a projection, or the document as it is,
LEMMA PartSteps ==
    ASSUME PresenceInv, NEW h \in Handlers, NEW d \in Drivers,
           \/ PushTokenWrites(h, d) \/ SignInWrites(h, d) \/ AdminClaims(h, d)
           \/ \E on \in BOOLEAN : AdminDuty(h, d, on) \/ AdminStatus(h, d, on)
    PROVE  PresenceInv'
<1>1. db \in [Drivers -> Docs] /\ db[d] \in Docs
  BY Written
<1>2. CASE PushTokenWrites(h, d)
  <2>1. Begin(h, Part(d, <<{"sync"}>>)) /\ db' = db /\ allowed' = allowed
    BY <1>2 DEF PushTokenWrites
  <2> QED BY <1>1, <2>1, AskingPart
<1>3. CASE SignInWrites(h, d)
  <2>1. Begin(h, Part(d, <<{"sync"}>>)) /\ allowed' = allowed
    BY <1>3 DEF SignInWrites
  <2>2. db' = [db EXCEPT ![d] = [db[d] EXCEPT !.active = TRUE]]
    BY <1>1, <1>3 DEF SignInWrites
  <2>3. db' \in [Drivers -> Docs] /\ \A e \in Drivers \ {d} : db'[e] = db[e]
    BY <1>1, <2>2, Written
  <2> QED BY <2>1, <2>3, AskingPart
<1>4. ASSUME NEW on \in BOOLEAN, AdminDuty(h, d, on) PROVE PresenceInv'
  <2>1. Begin(h, Part(d, <<{"sync"}, {"forget"}>>)) /\ allowed' = allowed
    BY <1>4 DEF AdminDuty
  <2>2. db' = [db EXCEPT ![d] = [db[d] EXCEPT !.online = on]]
    BY <1>1, <1>4 DEF AdminDuty
  <2>3. db' \in [Drivers -> Docs] /\ \A e \in Drivers \ {d} : db'[e] = db[e]
    BY <1>1, <2>2, Written
  <2> QED BY <2>1, <2>3, AskingPart
<1>5. ASSUME NEW on \in BOOLEAN, AdminStatus(h, d, on) PROVE PresenceInv'
  <2>1. Begin(h, Part(d, <<{"sync"}, {"forget"}>>)) /\ allowed' = allowed
    BY <1>5 DEF AdminStatus
  <2>2. db' = [db EXCEPT ![d].active = on, ![d].online = @ /\ on]
    BY <1>5 DEF AdminStatus
  <2>3. db' \in [Drivers -> Docs] /\ \A e \in Drivers \ {d} : db'[e] = db[e]
    BY <1>1, <2>2 DEF Docs
  <2> QED BY <2>1, <2>3, AskingPart
<1>6. CASE AdminClaims(h, d)
  <2>1. Begin(h, Part(d, <<{"sync"}, {"commit"}>>)) /\ db' = db /\ allowed' = allowed
    BY <1>6 DEF AdminClaims
  <2> QED BY <1>1, <2>1, AskingPart
<1> QED BY <1>2, <1>3, <1>4, <1>5, <1>6

\* ... or the whole document,
LEMMA WholeSteps ==
    ASSUME PresenceInv, NEW h \in Handlers, NEW d \in Drivers,
           \/ RefreshWrites(h, d) \/ GoOnline(h, d) \/ GoOfflineReads(h, d) \/ Accept(h, d)
           \/ AcceptTxn(h, d) \/ Release(h, d) \/ AdminEdits(h, d) \/ AdminTakesOff(h, d)
    PROVE  PresenceInv'
<1>1. db \in [Drivers -> Docs] /\ db[d] \in Docs
  BY Written
<1>2. CASE RefreshWrites(h, d)
  <2>1. PICK p : p = <<{"sync"}>>
    OBVIOUS
  <2>2. p \in Plans
    BY <2>1 DEF Plans
  <2>3. Begin(h, Rec(d, db[d], p)) /\ db' = db /\ allowed' = allowed
    BY <1>2, <2>1 DEF RefreshWrites
  <2>4. /\ ~Places(p) /\ ~Adds(p) /\ ~Frees(p) /\ ~Saves(p) /\ ~Stays(p) /\ ~Gone(p)
        /\ ~Online(p) /\ ~Bound(p) /\ ~Claims(p)
    BY <2>1, NewPlans
  <2> QED BY <1>1, <2>2, <2>3, <2>4, AskingWhole
<1>3. CASE GoOnline(h, d)
  <2>1. PICK p : p = <<{"sync"}, {"add"}>>
    OBVIOUS
  <2>2. p \in Plans
    BY <2>1 DEF Plans
  <2>3. PICK doc : doc = db'[d]
    OBVIOUS
  <2>4. Begin(h, Rec(d, doc, p)) /\ allowed' = allowed
    BY <1>3, <2>1, <2>3 DEF GoOnline
  <2>5. db' = [db EXCEPT ![d] = [db[d] EXCEPT !.online = TRUE]]
    BY <1>1, <1>3 DEF GoOnline
  <2>6. db' \in [Drivers -> Docs] /\ \A e \in Drivers \ {d} : db'[e] = db[e]
    BY <1>1, <2>5, Written
  <2>7. /\ ~Places(p) /\ ~Adds(p) /\ ~Frees(p) /\ ~Saves(p) /\ ~Stays(p) /\ ~Gone(p)
        /\ ~Online(p) /\ ~Bound(p) /\ ~Claims(p)
    BY <2>1, NewPlans
  <2>8. doc \in Docs
    BY <2>3, <2>6
  <2> QED BY <2>2, <2>3, <2>4, <2>6, <2>7, <2>8, AskingWhole
<1>4. CASE GoOfflineReads(h, d)
  <2>1. PICK p : p = <<{"off"}, {"sync"}>>
    OBVIOUS
  <2>2. p \in Plans
    BY <2>1 DEF Plans
  <2>3. Begin(h, Rec(d, db[d], p)) /\ db' = db /\ allowed' = allowed
    BY <1>4, <2>1 DEF GoOfflineReads
  <2>4. /\ ~Places(p) /\ ~Adds(p) /\ ~Frees(p) /\ ~Saves(p) /\ ~Stays(p) /\ ~Gone(p)
        /\ ~Online(p) /\ ~Bound(p) /\ ~Claims(p)
    BY <2>1, NewPlans
  <2> QED BY <1>1, <2>2, <2>3, <2>4, AskingWhole
<1>5. CASE Accept(h, d)
  <2>1. PICK p : p = <<{"take", "busy"}>>
    OBVIOUS
  <2>2. p \in Plans
    BY <2>1 DEF Plans
  <2>3. Begin(h, Rec(d, db[d], p)) /\ db' = db /\ allowed' = allowed
    BY <1>5, <2>1 DEF Accept
  <2>4. /\ ~Places(p) /\ ~Adds(p) /\ ~Frees(p) /\ ~Saves(p) /\ ~Stays(p) /\ ~Gone(p)
        /\ ~Online(p) /\ ~Bound(p) /\ ~Claims(p)
    BY <2>1, NewPlans
  <2> QED BY <1>1, <2>2, <2>3, <2>4, AskingWhole
<1>6. CASE AcceptTxn(h, d)
  <2>1. PICK p : p = <<{"sync"}, {"commit"}, {"busy"}>>
    OBVIOUS
  <2>2. p \in Plans
    BY <2>1 DEF Plans
  <2>3. Begin(h, Rec(d, db[d], p)) /\ db' = db /\ allowed' = allowed
    BY <1>6, <2>1 DEF AcceptTxn
  <2>4. /\ ~Places(p) /\ ~Adds(p) /\ ~Frees(p) /\ ~Saves(p) /\ ~Stays(p) /\ ~Gone(p)
        /\ ~Online(p) /\ ~Bound(p) /\ ~Claims(p)
    BY <2>1, NewPlans
  <2> QED BY <1>1, <2>2, <2>3, <2>4, AskingWhole
<1>7. CASE Release(h, d)
  <2>1. PICK p : p = <<{"sync"}, {"add", "free"}>>
    OBVIOUS
  <2>2. p \in Plans
    BY <2>1 DEF Plans
  <2>3. PICK doc : doc = db'[d]
    OBVIOUS
  <2>4. Begin(h, Rec(d, doc, p)) /\ allowed' = allowed
    BY <1>7, <2>1, <2>3 DEF Release
  <2>5. db' = [db EXCEPT ![d] = [db[d] EXCEPT !.trip = FALSE]]
    BY <1>1, <1>7 DEF Release
  <2>6. db' \in [Drivers -> Docs] /\ \A e \in Drivers \ {d} : db'[e] = db[e]
    BY <1>1, <2>5, Written
  <2>7. /\ ~Places(p) /\ ~Adds(p) /\ ~Frees(p) /\ ~Saves(p) /\ ~Stays(p) /\ ~Gone(p)
        /\ ~Online(p) /\ ~Bound(p) /\ ~Claims(p)
    BY <2>1, NewPlans
  <2>8. doc \in Docs
    BY <2>3, <2>6
  <2> QED BY <2>2, <2>3, <2>4, <2>6, <2>7, <2>8, AskingWhole
<1>8. CASE AdminEdits(h, d)
  <2>1. PICK p : p = <<{"sync"}, {"forget"}>>
    OBVIOUS
  <2>2. p \in Plans
    BY <2>1 DEF Plans
  <2>3. Begin(h, Rec(d, db[d], p)) /\ db' = db /\ allowed' = allowed
    BY <1>8, <2>1 DEF AdminEdits
  <2>4. /\ ~Places(p) /\ ~Adds(p) /\ ~Frees(p) /\ ~Saves(p) /\ ~Stays(p) /\ ~Gone(p)
        /\ ~Online(p) /\ ~Bound(p) /\ ~Claims(p)
    BY <2>1, NewPlans
  <2> QED BY <1>1, <2>2, <2>3, <2>4, AskingWhole
<1>9. CASE AdminTakesOff(h, d)
  <2>1. PICK p : p = <<{"sync"}, {"relieve"}>>
    OBVIOUS
  <2>2. p \in Plans
    BY <2>1 DEF Plans
  <2>3. Begin(h, Rec(d, db[d], p)) /\ db' = db /\ allowed' = allowed
    BY <1>9, <2>1 DEF AdminTakesOff
  <2>4. /\ ~Places(p) /\ ~Adds(p) /\ ~Frees(p) /\ ~Saves(p) /\ ~Stays(p) /\ ~Gone(p)
        /\ ~Online(p) /\ ~Bound(p) /\ ~Claims(p)
    BY <2>1, NewPlans
  <2> QED BY <1>1, <2>2, <2>3, <2>4, AskingWhole
<1> QED BY <1>2, <1>3, <1>4, <1>5, <1>6, <1>7, <1>8, <1>9

\* ... and the positions sent over the socket or by an administrator.
LEMMA PositionSteps ==
    ASSUME PresenceInv, NEW h \in Handlers, NEW d \in Drivers, LivePosition(h,
           d) \/ AdminLocates(h, d)
    PROVE  PresenceInv'
<1>1. CASE LivePosition(h, d)
  <2>1. PICK p : p = <<{"gauge"}, {"place"}>>
    OBVIOUS
  <2>2. PICK k : k = Part(d, p)
    OBVIOUS
  <2>3. p \in Plans
    BY <2>1 DEF Plans
  <2>4. k \in Requests /\ k.plan = p /\ ~k.full
    BY <2>2, <2>3, PartIs
  <2>5. Begin(h, k) /\ db' = db
    BY <1>1, <2>1, <2>2 DEF LivePosition
  <2>6. allowed' \subseteq Drivers
    BY <1>1 DEF LivePosition, PresenceInv, Types
  <2> QED BY <2>1, <2>4, <2>5, <2>6, Placing
<1>2. CASE AdminLocates(h, d)
  <2>1. PICK p : p = <<{"gauge"}, {"place"}, {"forget"}>>
    OBVIOUS
  <2>2. PICK k : k = [Part(d, p) EXCEPT !.area = TRUE]
    OBVIOUS
  <2>3. p \in Plans
    BY <2>1 DEF Plans
  <2>4. k \in Requests /\ k.plan = p /\ ~k.full
    <3>1. Part(d, p) \in Requests /\ Part(d, p).plan = p /\ ~Part(d, p).full
      BY <2>3, PartIs
    <3> QED BY <2>2, <3>1 DEF Requests
  <2>5. Begin(h, k) /\ db' = db
    BY <1>2, <2>1, <2>2 DEF AdminLocates
  <2>6. allowed' \subseteq Drivers
    BY <1>2 DEF AdminLocates, PresenceInv, Types
  <2> QED BY <2>1, <2>4, <2>5, <2>6, Placing
<1> QED BY <1>1, <1>2
(* The jobs, searches and restarts. *)

\* What a request is good for, as long as nothing changes of its driver but doubts,
LEMMA GoodStays ==
    ASSUME NEW k \in Requests \cup {Idle}, Good(k),
           k # Idle => /\ db'[k.d] = db[k.d] /\ geo'[k.d] = geo[k.d] /\ meta'[k.d] = meta[k.d]
                       /\ k.d \in astray => k.d \in astray'
                       /\ k.d \in lost => k.d \in lost'
    PROVE  Good(k)'
<1> SUFFICES ASSUME k # Idle PROVE Good(k)'
  BY DEF Good
<1>1. Mends(k) => Mends(k)'
  BY DEF Mends, Truthful, Offerable
<1>2. Shows(k) => Shows(k)'
  BY DEF Shows, Saving, Listed
<1> QED BY <1>1, <1>2 DEF Good, Knows

\* ... or when he is doubted.
LEMMA GoodInDoubt ==
    ASSUME NEW k, Good(k), k # Idle => k.d \in astray' /\ k.d \in lost'
    PROVE  Good(k)'
  BY DEF Good, Knows

\* While a job or a search is at work, everybody in hand is doubted.
LEMMA AllDoubted ==
    ASSUME PresenceInv, NEW d \in InHand, night.at # "idle" \/ search.at # "idle"
    PROVE  d \in astray /\ d \in lost
  BY DEF PresenceInv, Met, Doubted

\* The driver of a request is in hand.
LEMMA InItsHand ==
    ASSUME PresenceInv, NEW h \in Handlers, handler[h] # Idle
    PROVE  handler[h].d \in Drivers /\ handler[h].d \in InHand
  BY Fields, Handed DEF PresenceInv

\* Steps that change offers only.
LEMMA OffersStep ==
    ASSUME PresenceInv, (\E d \in Drivers : Offers(d) \/ OfferLapses(d)) \/ UNCHANGED vars
    PROVE  PresenceInv'
<1>1. /\ db' = db /\ geo' = geo /\ meta' = meta /\ handler' = handler /\ night' = night /\
           boot' = boot
      /\ search' = search /\ astray' = astray /\ lost' = lost /\ acts' = acts /\ restarts' = restarts
  BY DEF Offers, OfferLapses, vars, index, jobs, offers, history, counts
<1>2. candidates' \cup offered' \cup allowed' \subseteq Drivers
  BY DEF Offers, OfferLapses, vars, offers, PresenceInv, Types
<1>3. Types'
  BY <1>1, <1>2 DEF PresenceInv, Types
<1>4. Met'
  BY <1>1 DEF PresenceInv, Met, InHand, Doubted
<1>5. Underway'
  BY <1>1, GoodStays DEF PresenceInv, Underway
<1>6. Rests'
  BY <1>1 DEF PresenceInv, Rests, InHand, Truthful, Listed, Offerable
<1>7. Nights' /\ Searches' /\ Boots'
  BY <1>1 DEF PresenceInv, Nights, Searches, Boots, Doubted, Fit
<1> QED BY <1>3, <1>4, <1>5, <1>6, <1>7 DEF PresenceInv

\* A hash expires.
LEMMA MetaExpiresStep ==
    ASSUME PresenceInv, NEW d \in Drivers, MetaExpires(d)
    PROVE  PresenceInv'
<1>1. /\ db' = db /\ geo' = geo /\ handler' = handler /\ night' = night /\ boot' = boot
      /\ search' = search /\ astray' = astray /\ lost' = lost /\ acts' = acts
      /\ candidates' = candidates /\ offered' = offered /\ allowed' = allowed
      /\ restarts < MaxRestart /\ restarts' = restarts + 1 /\ meta' = [meta EXCEPT ![d] = NoMeta]
  BY DEF MetaExpires, jobs, offers, history
<1>2. /\ meta' \in [Drivers -> Hashes] /\ \A e \in Drivers : meta'[e] = meta[e] \/ meta'[e] = NoMeta
      /\ ~NoMeta.there /\ ~NoMeta.online /\ ~NoMeta.trip
  BY <1>1 DEF PresenceInv, Types, Hashes, NoMeta
<1>3. Types'
  <2>1. \A e \in Drivers : ~meta'[e].there => meta'[e] = NoMeta
    BY <1>2 DEF PresenceInv, Types
  <2>2. restarts' \in 0..MaxRestart
    BY <1>1, PresenceAssumption DEF PresenceInv, Types
  <2> QED BY <1>1, <1>2, <2>1, <2>2 DEF PresenceInv, Types
<1>4. \A e \in Drivers :
         /\ Truthful(e) => Truthful(e)'
         /\ Listed(e) => Listed(e)'
         /\ ~Offerable(e) => ~Offerable(e)'
  BY <1>1, <1>2 DEF Truthful, Listed, Offerable, Fit
<1>5. Underway'
  <2> SUFFICES ASSUME NEW h \in Handlers, NEW k \in Requests, handler[h] = k, k # Idle, Good(k)
               PROVE  Good(k)'
    BY <1>1 DEF PresenceInv, Underway, Good
  <2>1. k.d \in Drivers
    BY DEF Requests
  <2>2. Mends(k) => Mends(k)'
    BY <1>1, <1>2, <1>4, <2>1 DEF Mends, Fit
  <2>3. Shows(k) => Shows(k)'
    BY <1>1, <1>4, <2>1 DEF Shows, Saving, Fit
  <2> QED BY <1>1, <2>2, <2>3 DEF Good, Knows
<1>6. Met'
  BY <1>1 DEF PresenceInv, Met, InHand, Doubted
<1>7. Rests'
  BY <1>1, <1>4 DEF PresenceInv, Rests, InHand
<1>8. Nights' /\ Searches' /\ Boots'
  BY <1>1 DEF PresenceInv, Nights, Searches, Boots, Doubted, Fit
<1> QED BY <1>3, <1>5, <1>6, <1>7, <1>8 DEF PresenceInv

\* A bulk deactivation leaves the index as it is.
LEMMA AdminBulkStep ==
    ASSUME PresenceInv, NEW ds \in SUBSET Drivers, AdminBulk(ds)
    PROVE  PresenceInv'
<1>1. PICK hit : hit = {d \in ds : db[d].active /\ ~db[d].trip}
  OBVIOUS
<1>2. /\ db' = [d \in Drivers |-> IF d \in hit THEN [db[d] EXCEPT !.active = FALSE] ELSE db[d]]
      /\ astray' = astray \cup hit /\ hit \subseteq Drivers
      /\ geo' = geo /\ meta' = meta /\ handler' = handler /\ night' = night /\ boot' = boot
      /\ search' = search /\ lost' = lost /\ restarts' = restarts
      /\ candidates' = candidates /\ offered' = offered /\ allowed' = allowed
      /\ acts < MaxActs /\ acts' = acts + 1
  BY <1>1 DEF AdminBulk, index, jobs, offers
<1>3. /\ db' \in [Drivers -> Docs]
      /\ \A d \in Drivers : db'[d].online = db[d].online /\ db'[d].trip = db[d].trip
      /\ \A d \in hit : ~db'[d].active
      /\ \A d \in Drivers \ hit : db'[d] = db[d]
  BY <1>2 DEF PresenceInv, Types, Docs
<1>4. Types'
  <2>1. acts' \in 0..MaxActs
    BY <1>2, PresenceAssumption DEF PresenceInv, Types
  <2> QED BY <1>2, <1>3, <2>1 DEF PresenceInv, Types
<1>5. \A d \in hit : d \in astray' /\ ~Fit(db'[d])
  BY <1>2, <1>3 DEF Fit
<1>6. Underway'
  <2> SUFFICES ASSUME NEW h \in Handlers, NEW k \in Requests, handler[h] = k, k # Idle, Good(k)
               PROVE  Good(k)'
    BY <1>2 DEF PresenceInv, Underway, Good
  <2>1. k.d \in Drivers
    BY DEF Requests
  <2>2. CASE k.d \notin hit
    BY <1>2, <1>3, <2>1, <2>2, GoodStays
  <2>3. CASE k.d \in hit
    <3>1. ~Fit(Saving(k)')
      BY <1>3, <2>1, <2>3 DEF Saving, Fit, Docs
    <3>2. Shows(k)'
      BY <1>5, <2>3, <3>1 DEF Shows, Listed, Fit
    <3> QED BY <1>5, <2>3, <3>2 DEF Good, Knows
  <2> QED BY <2>2, <2>3
<1>7. Met'
  BY <1>2 DEF PresenceInv, Met, InHand, Doubted
<1>8. Rests'
  <2> SUFFICES ASSUME NEW d \in Drivers \ InHand
               PROVE  /\ d \notin astray' /\ (night.at # "remove" \/ d \notin night.found)
                           => Truthful(d)'
                      /\ d \notin lost => Listed(d)'
    BY <1>2 DEF Rests, InHand
  <2>1. CASE d \in hit
    BY <1>5, <2>1 DEF Listed, Fit
  <2>2. CASE d \notin hit
    BY <1>2, <1>3, <2>2 DEF PresenceInv, Rests, Truthful, Listed, Offerable
  <2> QED BY <2>1, <2>2
<1>9. Nights'
  BY <1>2, <1>3 DEF PresenceInv, Nights, Doubted
<1>10. Searches'
  <2>1. \A d \in Drivers : Fit(db'[d]) => Fit(db[d])
    BY <1>3, <1>5
  <2>2. search.found \subseteq Drivers
    BY DEF PresenceInv, Types
  <2> QED BY <1>2, <2>1, <2>2 DEF PresenceInv, Searches, Fit
<1>11. Boots'
  <2>1. \A b \in boot : b.d \in Drivers
    BY DEF PresenceInv, Types
  <2> QED BY <1>2, <1>3, <2>1 DEF PresenceInv, Boots, Fit
<1> QED BY <1>4, <1>6, <1>7, <1>8, <1>9, <1>10, <1>11 DEF PresenceInv
\* While everybody in hand is doubted, nothing is asked of the requests.
LEMMA Besides ==
    ASSUME PresenceInv, handler' = handler, boot' = boot, \A d \in InHand : d \in astray' /\
           d \in lost'
    PROVE  Met' /\ Underway'
<1>1. \A h \in Handlers : handler[h] = Idle \/ (handler[h].d \in Drivers /\ handler[h].d \in InHand)
  BY InItsHand
<1>2. Met'
  <2>1. \A h \in Handlers : handler[h].d # None => handler[h].d \in InHand
    BY DEF InHand
  <2>2. \A b \in boot : b.d \in InHand
    BY DEF InHand
  <2>3. InHand' = InHand
    BY DEF InHand
  <2>4. \A g \in Handlers, h \in Handlers :
           g # h /\ handler'[g].d = handler'[h].d /\ handler'[h].d # None => Doubted(handler[h].d)'
    BY <2>1 DEF Doubted
  <2>5. \A h \in Handlers, b \in boot : handler'[h].d = b.d => Doubted(b.d)'
    BY <2>2 DEF Doubted
  <2>6. \A d \in InHand : Doubted(d)'
    BY DEF Doubted
  <2> QED BY <2>3, <2>4, <2>5, <2>6 DEF Met
<1>3. Underway'
  <2> SUFFICES ASSUME NEW h \in Handlers, NEW k \in Requests \cup {Idle}, handler[h] = k
               PROVE  Good(k)'
    BY DEF Underway
  <2>1. Good(k)
    BY DEF PresenceInv, Underway
  <2>2. k # Idle => k.d \in astray' /\ k.d \in lost'
    BY <1>1
  <2> QED BY <2>1, <2>2, GoodInDoubt
<1> QED BY <1>2, <1>3

\* A run of the nightly job, or a search, begins,
LEMMA NightFindsStep ==
    ASSUME PresenceInv, NightFinds
    PROVE  PresenceInv'
<1>1. PICK found : found = {d \in Drivers : db[d].online}
  OBVIOUS
<1>2. /\ db' = db /\ geo' = geo /\ meta' = meta /\ handler' = handler /\ boot' = boot
      /\ search' = search /\ candidates' = candidates /\ offered' = offered /\ allowed' = allowed
      /\ astray' = astray \cup InHand /\ lost' = lost \cup InHand
      /\ night.at = "idle" /\ night' = [at |-> "write", found |-> found]
      /\ acts < MaxActs /\ acts' = acts + 1 /\ restarts' = restarts
  BY <1>1 DEF NightFinds, Doubt, index, offers
<1>3. InHand \subseteq Drivers
  BY Handed, InItsHand, IdleFields DEF PresenceInv, Types, InHand
<1>4. Types'
  <2>1. acts' \in 0..MaxActs
    BY <1>2, PresenceAssumption DEF PresenceInv, Types
  <2>2. night' \in [at : {"idle", "write", "remove"}, found : SUBSET Drivers]
    BY <1>1, <1>2
  <2> QED BY <1>2, <1>3, <2>1, <2>2 DEF PresenceInv, Types
<1>5. Met' /\ Underway'
  BY <1>2, Besides
<1>6. Rests'
  BY <1>2 DEF PresenceInv, Rests, InHand, Truthful, Listed, Offerable
<1>7. Nights'
  BY <1>1, <1>2 DEF Nights
<1>8. Searches' /\ Boots'
  BY <1>2 DEF PresenceInv, Searches, Boots
<1> QED BY <1>4, <1>5, <1>6, <1>7, <1>8 DEF PresenceInv

\* ... or a search,
LEMMA SearchLooksStep ==
    ASSUME PresenceInv, SearchLooks
    PROVE  PresenceInv'
<1>1. PICK found \in SUBSET Drivers : search' = [at |-> "verify", found |-> found]
  BY DEF SearchLooks
<1>2. /\ db' = db /\ geo' = geo /\ meta' = meta /\ handler' = handler /\ boot' = boot
      /\ night' = night /\ candidates' = candidates /\ offered' = offered /\ allowed' = allowed
      /\ astray' = astray \cup InHand /\ lost' = lost \cup InHand
      /\ acts < MaxActs /\ acts' = acts + 1 /\ restarts' = restarts
  BY DEF SearchLooks, Doubt, index, jobs
<1>3. InHand \subseteq Drivers
  BY Handed, InItsHand, IdleFields DEF PresenceInv, Types, InHand
<1>4. Types'
  <2>1. acts' \in 0..MaxActs
    BY <1>2, PresenceAssumption DEF PresenceInv, Types
  <2>2. search' \in [at : {"idle", "verify", "clean"}, found : SUBSET Drivers]
    BY <1>1
  <2> QED BY <1>2, <1>3, <2>1, <2>2 DEF PresenceInv, Types
<1>5. Met' /\ Underway'
  BY <1>2, Besides
<1>6. Rests'
  BY <1>2 DEF PresenceInv, Rests, InHand, Truthful, Listed, Offerable
<1>7. Nights'
  BY <1>2 DEF PresenceInv, Nights, Doubted
<1>8. Searches'
  BY <1>1 DEF Searches
<1>9. Boots'
  BY <1>2 DEF PresenceInv, Boots
<1> QED BY <1>4, <1>5, <1>6, <1>7, <1>8, <1>9 DEF PresenceInv

\* ... the job writes everybody offline,
LEMMA NightWritesStep ==
    ASSUME PresenceInv, NightWrites
    PROVE  PresenceInv'
<1>1. /\ geo' = geo /\ meta' = meta /\ handler' = handler /\ boot' = boot
      /\ search' = search /\ candidates' = candidates /\ offered' = offered /\ allowed' = allowed
      /\ astray' = astray /\ lost' = lost /\ acts' = acts /\ restarts' = restarts
      /\ night.at = "write" /\ night' = [night EXCEPT !.at = "remove"]
      /\ db' = [d \in Drivers |-> [db[d] EXCEPT !.online = FALSE]]
  BY DEF NightWrites, index, offers, history, counts
<1>2. /\ db' \in [Drivers -> Docs]
      /\ \A d \in Drivers : ~db'[d].online
  BY <1>1 DEF PresenceInv, Types, Docs
<1>3. night' \in [at : {"idle", "write", "remove"}, found : SUBSET Drivers]
      /\ night'.at = "remove" /\ night'.found = night.found
  BY <1>1 DEF PresenceInv, Types
<1>4. Types'
  BY <1>1, <1>2, <1>3 DEF PresenceInv, Types
<1>5. \A d \in InHand : d \in astray' /\ d \in lost'
  BY <1>1, AllDoubted
<1>6. Met' /\ Underway'
  BY <1>1, <1>5, Besides
<1>7. Rests'
  <2> SUFFICES ASSUME NEW d \in Drivers \ InHand
               PROVE  /\ d \notin astray /\ d \notin night.found => Truthful(d)'
                      /\ Listed(d)'
    BY <1>1, <1>3 DEF Rests, InHand
  <2>1. Listed(d)'
    BY <1>2 DEF Listed, Fit
  <2>2. ASSUME d \notin astray, d \notin night.found PROVE Truthful(d)'
    <3>1. Truthful(d)
      BY <1>1, <2>2 DEF PresenceInv, Rests
    <3>2. ~db[d].online
      BY <1>1, <2>2 DEF PresenceInv, Nights, Doubted
    <3>3. ~Offerable(d)
      BY <3>1, <3>2 DEF Truthful, Fit
    <3> QED BY <1>1, <3>3 DEF Truthful, Offerable
  <2> QED BY <2>1, <2>2
<1>8. Nights'
  BY <1>2 DEF Nights
<1>9. Searches'
  BY <1>1, <1>2 DEF PresenceInv, Types, Searches, Fit
<1>10. Boots'
  <2>1. \A b \in boot : b.d \in astray
    BY <1>1, <1>5 DEF InHand
  <2> QED BY <1>1, <2>1 DEF PresenceInv, Boots
<1> QED BY <1>4, <1>6, <1>7, <1>8, <1>9, <1>10 DEF PresenceInv

\* ... and takes them off the list one by one.
LEMMA NightRemovesStep ==
    ASSUME PresenceInv, NEW d \in Drivers, NightRemoves(d)
    PROVE  PresenceInv'
<1>1. /\ db' = db /\ handler' = handler /\ boot' = boot
      /\ search' = search /\ candidates' = candidates /\ offered' = offered /\ allowed' = allowed
      /\ astray' = astray /\ lost' = lost /\ acts' = acts /\ restarts' = restarts
      /\ night.at = "remove" /\ d \in night.found
      /\ night' = [at |-> IF night.found = {d} THEN "idle" ELSE "remove", found |-> night.found \ {d}]
  BY DEF NightRemoves, offers, history, counts
<1>2. /\ geo' \in [Drivers -> SUBSET Sets] /\ meta' \in [Drivers -> Hashes]
      /\ \A e \in Drivers \ {d} : geo'[e] = geo[e] /\ meta'[e] = meta[e]
      /\ meta'[d] = NoMeta /\ ~NoMeta.there /\ ~NoMeta.online /\ ~NoMeta.trip
  <2>1. Remove(d, TRUE)
    BY DEF NightRemoves
  <2> QED BY <2>1, RemoveDoes DEF PresenceInv
<1>3. /\ night' \in [at : {"idle", "write", "remove"}, found : SUBSET Drivers]
      /\ night'.found = night.found \ {d}
      /\ night'.at = "remove" \/ (night'.at = "idle" /\ night.found = {d})
  BY <1>1 DEF PresenceInv, Types
<1>4. Types'
  <2>1. \A e \in Drivers : ~meta'[e].there => meta'[e] = NoMeta
    BY <1>2 DEF PresenceInv, Types
  <2> QED BY <1>1, <1>2, <1>3, <2>1 DEF PresenceInv, Types
<1>5. \A e \in InHand : e \in astray' /\ e \in lost'
  BY <1>1, AllDoubted
<1>6. Met' /\ Underway'
  BY <1>1, <1>5, Besides
<1>7. Rests'
  <2> SUFFICES ASSUME NEW e \in Drivers \ InHand
               PROVE  /\ e \notin astray /\ (e = d \/ e \notin night.found) => Truthful(e)'
                      /\ e \notin lost => Listed(e)'
    BY <1>1, <1>3 DEF Rests, InHand
  <2>1. CASE e = d
    <3>1. Truthful(e)'
      BY <1>2, <2>1 DEF Truthful, Offerable
    <3>2. e \notin lost => ~Fit(db'[e])
      BY <1>1 DEF PresenceInv, Nights, Doubted, Fit
    <3> QED BY <3>1, <3>2 DEF Listed
  <2>2. CASE e # d
    <3>1. meta'[e] = meta[e] /\ geo'[e] = geo[e]
      BY <1>2, <2>2
    <3> QED BY <1>1, <2>2, <3>1 DEF PresenceInv, Rests, Truthful, Listed, Offerable
  <2> QED BY <2>1, <2>2
<1>8. Nights'
  BY <1>1, <1>3 DEF PresenceInv, Nights, Doubted
<1>9. Searches' /\ Boots'
  BY <1>1 DEF PresenceInv, Searches, Boots
<1> QED BY <1>4, <1>6, <1>7, <1>8, <1>9 DEF PresenceInv

\* A search verifies whom it found,
LEMMA SearchVerifiesStep ==
    ASSUME PresenceInv, SearchVerifies
    PROVE  PresenceInv'
<1>1. PICK fit : fit = {d \in search.found : Fit(db[d])}
  OBVIOUS
<1>2. /\ db' = db /\ geo' = geo /\ meta' = meta /\ handler' = handler /\ boot' = boot
      /\ night' = night /\ offered' = offered /\ allowed' = allowed
      /\ astray' = astray /\ lost' = lost /\ acts' = acts /\ restarts' = restarts
      /\ candidates' = candidates \cup fit /\ search.at = "verify"
      /\ search' = IF search.found = fit THEN [at |-> "idle", found |-> {}]
                                         ELSE [at |-> "clean", found |-> search.found \ fit]
  BY <1>1 DEF SearchVerifies, index, jobs, history, counts
<1>3. search.found \subseteq Drivers
  BY DEF PresenceInv, Types
<1>4. /\ search' \in [at : {"idle", "verify", "clean"}, found : SUBSET Drivers]
      /\ \A d \in search'.found : search'.at = "clean" /\ ~Fit(db[d])
  <2>1. CASE search.found = fit
    BY <1>2, <2>1
  <2>2. CASE search.found # fit
    <3>1. \A d \in search.found \ fit : ~Fit(db[d])
      BY <1>1
    <3> QED BY <1>2, <1>3, <2>2, <3>1
  <2> QED BY <2>1, <2>2
<1>5. Types'
  BY <1>1, <1>2, <1>3, <1>4 DEF PresenceInv, Types
<1>6. \A e \in InHand : e \in astray' /\ e \in lost'
  BY <1>2, AllDoubted
<1>7. Met' /\ Underway'
  BY <1>2, <1>6, Besides
<1>8. Rests'
  BY <1>2 DEF PresenceInv, Rests, InHand, Truthful, Listed, Offerable
<1>9. Nights' /\ Boots'
  BY <1>2 DEF PresenceInv, Nights, Doubted, Boots
<1>10. Searches'
  BY <1>2, <1>4 DEF Searches, Fit
<1> QED BY <1>5, <1>7, <1>8, <1>9, <1>10 DEF PresenceInv

\* ... and takes those off the sets who are not free.
LEMMA SearchCleansStep ==
    ASSUME PresenceInv, SearchCleans
    PROVE  PresenceInv'
<1>1. /\ db' = db /\ meta' = meta /\ handler' = handler /\ boot' = boot /\ night' = night
      /\ candidates' = candidates /\ offered' = offered /\ allowed' = allowed
      /\ astray' = astray /\ lost' = lost /\ acts' = acts /\ restarts' = restarts
      /\ search.at = "clean" /\ search' = [at |-> "idle", found |-> {}]
      /\ geo' = [d \in Drivers |-> IF d \in search.found THEN {} ELSE geo[d]]
  BY DEF SearchCleans, jobs, history, counts
<1>2. geo' \in [Drivers -> SUBSET Sets] /\ \A d \in Drivers \ search.found : geo'[d] = geo[d]
  BY <1>1 DEF PresenceInv, Types
<1>3. Types'
  BY <1>1, <1>2 DEF PresenceInv, Types
<1>4. \A e \in InHand : e \in astray' /\ e \in lost'
  BY <1>1, AllDoubted
<1>5. Met' /\ Underway'
  BY <1>1, <1>4, Besides
<1>6. Rests'
  <2> SUFFICES ASSUME NEW d \in Drivers \ InHand
               PROVE  /\ d \notin astray /\ (night.at # "remove" \/ d \notin night.found)
                           => Truthful(d)'
                      /\ d \notin lost => Listed(d)'
    BY <1>1 DEF Rests, InHand
  <2>1. Truthful(d) => Truthful(d)'
    BY <1>1 DEF Truthful, Offerable, Fit
  <2>2. d \notin lost /\ Listed(d) => Listed(d)'
    <3>1. CASE d \in search.found
      BY <1>1, <3>1 DEF PresenceInv, Searches, Listed, Fit
    <3>2. CASE d \notin search.found
      BY <1>1, <1>2, <3>2 DEF Listed, Fit
    <3> QED BY <3>1, <3>2
  <2> QED BY <2>1, <2>2 DEF PresenceInv, Rests
<1>7. Nights' /\ Boots'
  BY <1>1 DEF PresenceInv, Nights, Doubted, Boots
<1>8. Searches'
  BY <1>1 DEF Searches
<1> QED BY <1>3, <1>5, <1>6, <1>7, <1>8 DEF PresenceInv
\* The server restarts,
LEMMA RestartStep ==
    ASSUME PresenceInv, Restart
    PROVE  PresenceInv'
<1>1. /\ db' = db /\ geo' = geo /\ meta' = meta
      /\ handler' = [h \in Handlers |-> Idle]
      /\ candidates' = candidates /\ offered' = offered /\ allowed' = allowed
      /\ astray' = astray \cup (InHand \cup night.found) /\
           lost' = lost \cup (InHand \cup night.found)
      /\ night' = [at |-> "idle", found |-> {}] /\ search' = [at |-> "idle", found |-> {}]
      /\ boot' = {[d |-> d, doc |-> db[d]] : d \in {d \in Drivers : Fit(db[d])}}
      /\ acts' = acts /\ restarts < MaxRestart /\ restarts' = restarts + 1
  BY DEF Restart, Doubt, index
<1>2. InHand \subseteq Drivers /\ night.found \subseteq Drivers
  BY Handed, InItsHand, IdleFields DEF PresenceInv, Types, InHand
<1>3. /\ boot' \subseteq [d : Drivers, doc : Docs]
      /\ \A b \in boot' : b.d \in Drivers /\ Fit(b.doc) /\ b.doc = db[b.d]
  BY <1>1 DEF PresenceInv, Types
<1>4. Types'
  <2>1. restarts' \in 0..MaxRestart
    BY <1>1, PresenceAssumption DEF PresenceInv, Types
  <2>2. handler' \in [Handlers -> Requests \cup {Idle}]
    BY <1>1
  <2>3. astray' \cup lost' \subseteq Drivers
    BY <1>1, <1>2 DEF PresenceInv, Types
  <2> QED BY <1>1, <1>3, <2>1, <2>2, <2>3 DEF PresenceInv, Types
<1>5. \A h \in Handlers : handler'[h].d = None /\ handler'[h] = Idle
  BY <1>1, IdleFields
<1>6. Met'
  BY <1>1, <1>3, <1>5, IdleFields DEF Met
<1>7. Underway'
  BY <1>5 DEF Underway, Good
<1>8. Rests'
  <2> SUFFICES ASSUME NEW d \in Drivers
               PROVE  /\ d \notin astray' => Truthful(d)'
                      /\ d \notin lost' => Listed(d)'
    BY DEF Rests
  <2>1. d \notin astray' \/ d \notin lost' => d \notin InHand /\ d \notin night.found
    BY <1>1
  <2> QED BY <1>1, <2>1 DEF PresenceInv, Rests, Truthful, Listed, Offerable
<1>9. Nights' /\ Searches'
  BY <1>1 DEF Nights, Searches
<1>10. Boots'
  BY <1>1, <1>3 DEF Boots, Fit
<1> QED BY <1>4, <1>6, <1>7, <1>8, <1>9, <1>10 DEF PresenceInv

\* ... and lists those who were free.
LEMMA BootListsStep ==
    ASSUME PresenceInv, BootLists
    PROVE  PresenceInv'
<1>1. PICK b \in boot : Add(b.d, b.doc) /\ boot' = boot \ {b}
  BY DEF BootLists
<1>2. /\ db' = db /\ handler' = handler /\ night' = night /\ search' = search
      /\ candidates' = candidates /\ offered' = offered /\ allowed' = allowed
      /\ astray' = astray /\ lost' = lost /\ acts' = acts /\ restarts' = restarts
  BY DEF BootLists, offers, history, counts
<1>3. /\ b.d \in Drivers /\ b.doc \in Docs /\ Fit(b.doc)
      /\ b.d \notin astray => b.doc = db[b.d]
  BY DEF PresenceInv, Types, Boots
<1>4. /\ geo' \in [Drivers -> SUBSET Sets] /\ meta' \in [Drivers -> Hashes]
      /\ ~meta'[b.d].there => meta'[b.d] = NoMeta
      /\ \A e \in Drivers \ {b.d} : geo'[e] = geo[e] /\ meta'[e] = meta[e]
      /\ "global" \in geo'[b.d] /\ ~meta'[b.d].trip
  BY <1>1, <1>3, AddDoes DEF PresenceInv
<1>5. Types'
  <2>1. \A e \in Drivers : ~meta'[e].there => meta'[e] = NoMeta
    BY <1>4 DEF PresenceInv, Types
  <2> QED BY <1>1, <1>2, <1>4, <2>1 DEF PresenceInv, Types
<1>6. Met'
  <2>1. boot' \subseteq boot /\ InHand' \subseteq InHand
    BY <1>1, <1>2 DEF InHand
  <2>2. \A e \in Drivers \cup InHand : Doubted(e)' <=> Doubted(e)
    BY <1>2 DEF Doubted
  <2>3. \A g \in Handlers, h \in Handlers :
           g # h /\ handler'[g].d = handler'[h].d /\ handler'[h].d # None => Doubted(handler[h].d)'
    BY <1>2 DEF PresenceInv, Met, Doubted
  <2>4. \A h \in Handlers, a \in boot' : handler'[h].d = a.d => Doubted(a.d)'
    BY <1>2, <2>1 DEF PresenceInv, Met, Doubted
  <2>5. night'.at # "idle" \/ search'.at # "idle" => \A e \in InHand' : Doubted(e)'
    BY <1>2, <2>1, <2>2 DEF PresenceInv, Met
  <2> QED BY <1>2, <2>3, <2>4, <2>5 DEF Met
<1>7. Underway'
  <2> SUFFICES ASSUME NEW h \in Handlers, NEW k \in Requests \cup {Idle}, handler[h] = k, k # Idle
               PROVE  Good(k)'
    BY <1>2 DEF Underway, Good
  <2>1. Good(k) /\ k.d \in Drivers
    BY Fields DEF PresenceInv, Underway
  <2>2. CASE k.d = b.d
    <3>1. Doubted(k.d)
      BY <2>2 DEF PresenceInv, Met
    <3> QED BY <1>2, <2>1, <3>1, GoodInDoubt DEF Doubted
  <2>3. CASE k.d # b.d
    <3>1. db'[k.d] = db[k.d] /\ geo'[k.d] = geo[k.d] /\ meta'[k.d] = meta[k.d]
      BY <1>2, <1>4, <2>1, <2>3
    <3> QED BY <1>2, <2>1, <3>1, GoodStays
  <2> QED BY <2>2, <2>3
<1>8. Rests'
  <2> SUFFICES ASSUME NEW d \in Drivers, d \notin InHand'
               PROVE  /\ d \notin astray /\ (night.at # "remove" \/ d \notin night.found)
                           => Truthful(d)'
                      /\ d \notin lost => Listed(d)'
    BY <1>2 DEF Rests
  <2>1. CASE d = b.d
    <3>1. d \notin astray => Truthful(d)'
      BY <1>2, <1>3, <2>1 DEF Truthful, Fit
    <3>2. Listed(d)'
      BY <1>4, <2>1 DEF Listed
    <3> QED BY <3>1, <3>2
  <2>2. CASE d # b.d
    <3>1. d \notin InHand
      BY <1>1, <1>2, <2>2 DEF InHand
    <3>2. meta'[d] = meta[d] /\ geo'[d] = geo[d]
      BY <1>4, <2>2
    <3> QED BY <1>2, <3>1, <3>2 DEF PresenceInv, Rests, Truthful, Listed, Offerable
  <2> QED BY <2>1, <2>2
<1>9. Nights' /\ Searches'
  BY <1>2 DEF PresenceInv, Nights, Doubted, Searches
<1>10. Boots'
  BY <1>1, <1>2 DEF PresenceInv, Boots
<1> QED BY <1>5, <1>6, <1>7, <1>8, <1>9, <1>10 DEF PresenceInv

(* The theorems. *)

\* The invariant holds at the start.
LEMMA Begins ==
    ASSUME Init
    PROVE  PresenceInv
<1>1. /\ db = [d \in Drivers |-> [online |-> FALSE, trip |-> FALSE, active |-> TRUE]]
      /\ geo = [d \in Drivers |-> {}] /\ meta = [d \in Drivers |-> NoMeta]
      /\ handler = [h \in Handlers |-> Idle]
      /\ night = [at |-> "idle", found |-> {}] /\ boot = {}
      /\ search = [at |-> "idle", found |-> {}]
      /\ candidates = {} /\ offered = {} /\ allowed = {} /\ astray = {} /\ lost = {}
      /\ acts = 0 /\ restarts = 0
  BY DEF Init
<1>2. \A d \in Drivers : ~db[d].online /\ ~meta[d].online
  BY <1>1 DEF NoMeta
<1>3. Types
  <2>1. db \in [Drivers -> Docs] /\ meta \in [Drivers -> Hashes]
    BY <1>1 DEF Docs, Hashes, NoMeta
  <2> QED BY <1>1, <2>1, PresenceAssumption DEF Types
<1>4. \A h \in Handlers : handler[h] = Idle /\ handler[h].d = None
  BY <1>1, IdleFields
<1>5. Met
  BY <1>1, <1>4 DEF Met
<1>6. Underway
  BY <1>4 DEF Underway, Good
<1>7. Rests
  BY <1>2 DEF Rests, Truthful, Listed, Offerable, Fit
<1>8. Nights /\ Searches /\ Boots
  BY <1>1 DEF Nights, Searches, Boots
<1> QED BY <1>3, <1>5, <1>6, <1>7, <1>8 DEF PresenceInv

\* Every step keeps it.
LEMMA Keeps ==
    ASSUME PresenceInv, [Next]_vars
    PROVE  PresenceInv'
<1>1. CASE \E h \in Handlers, d \in Drivers :
              \/ \E on \in BOOLEAN : StatusReads(h, d, on) \/ AdminDuty(h, d,
                   on) \/ AdminStatus(h, d, on)
              \/ LocationReads(h, d) \/ PushTokenWrites(h, d) \/ SignInWrites(h,
                   d) \/ RefreshWrites(h, d)
              \/ GoOnline(h, d) \/ GoOfflineReads(h, d) \/ LivePosition(h, d)
              \/ Accept(h, d) \/ AcceptTxn(h, d) \/ Release(h, d)
              \/ AdminEdits(h, d) \/ AdminLocates(h, d) \/ AdminClaims(h, d) \/ AdminTakesOff(h, d)
  BY <1>1, StatusReadsStep, LocationReadsStep, PartSteps, WholeSteps, PositionSteps
<1>2. CASE \E h \in Handlers :
              \/ Gauge(h) \/ Place(h) \/ Lists(h) \/ Unlists(h) \/ Forget(h) \/ Hook(h)
              \/ \E step \in {"busy", "free"} : Mark(h, step)
              \/ StatusSaves(h) \/ GoOfflineWrites(h) \/ Takes(h) \/ Commits(h) \/ Relieves(h)
              \/ Aborts(h) \/ RedisFails(h)
  BY <1>2, GaugeStep, PlaceStep, ListsStep, UnlistsStep, ForgetStep, HookStep,
     BusyStep, FreeStep,
     StatusSavesStep, GoOfflineStep, TakesStep, CommitsStep, RelievesStep, AbortsStep,
     RedisFailsStep
<1>3. CASE \E ds \in SUBSET Drivers : AdminBulk(ds)
  BY <1>3, AdminBulkStep
<1>4. CASE \E d \in Drivers : NightRemoves(d) \/ Offers(d) \/ OfferLapses(d) \/ MetaExpires(d)
  BY <1>4, NightRemovesStep, OffersStep, MetaExpiresStep
<1>5. CASE NightFinds \/ NightWrites \/ SearchLooks \/ SearchVerifies \/ SearchCleans
  BY <1>5, NightFindsStep, NightWritesStep, SearchLooksStep, SearchVerifiesStep,
     SearchCleansStep
<1>6. CASE Restart \/ BootLists
  BY <1>6, RestartStep, BootListsStep
<1>7. CASE UNCHANGED vars
  BY <1>7, OffersStep
<1> QED BY <1>1, <1>2, <1>3, <1>4, <1>5, <1>6, <1>7 DEF Next

\* The inductive invariant holds, for every number of drivers and of requests at once.
THEOREM PresenceInvariant == Spec => []PresenceInv
<1>1. Init => PresenceInv
  BY Begins
<1>2. PresenceInv /\ [Next]_vars => PresenceInv'
  BY Keeps
<1> QED BY <1>1, <1>2, PTL DEF Spec

\* The documents, the index, the requests and the jobs have their types, and a
\* hash that is not there no fields.
THEOREM TypeCorrect == Spec => []TypeOK
<1>1. PresenceInv => TypeOK
  <2> SUFFICES ASSUME PresenceInv PROVE TypeOK
    OBVIOUS
  <2>1. Types
    BY DEF PresenceInv
  <2>2. \A h \in Handlers : handler[h] = Idle \/ (handler[h].d \in Drivers /\ handler[h].plan # <<>>)
    <3>1. \A p \in Plans : p # <<>>
      BY DEF Plans
    <3> QED BY <2>1, <3>1, Fields
  <2>3. night.found \subseteq Drivers /\ search.found \subseteq Drivers
    BY <2>1 DEF Types
  <2> QED BY <2>1, <2>2, <2>3 DEF Types, TypeOK
<1> QED BY <1>1, PresenceInvariant, PTL

\* Nobody is at work on a driver who is not in hand.
LEMMA NotInHand ==
    ASSUME PresenceInv, NEW d \in Drivers, ~Touched(d, Handlers)
    PROVE  d \notin InHand /\ night.at = "idle"
  BY Handed DEF PresenceInv, Touched

\* Whom the search sees as free is free, but in the ways the model names.
THEOREM ListedDriversAreFree == Spec => []ListedAreFree
<1>1. PresenceInv => ListedAreFree
  BY NotInHand DEF PresenceInv, Rests, Truthful, ListedAreFree
<1> QED BY <1>1, PresenceInvariant, PTL

\* A free driver is seen by the search, but in the ways the model names: two who were
\* at work on him, a restart, an error of Redis, a hook that was handed a projection, an
\* administrator who took him off his trip.
THEOREM FreeDriversAreListed == Spec => []FreeAreListed
<1>1. PresenceInv => FreeAreListed
  BY NotInHand DEF PresenceInv, Rests, Listed, Eligible, FreeAreListed
<1> QED BY <1>1, PresenceInvariant, PTL

\* Offers alone give a driver an offer.
LEMMA OnlyOffers ==
    ASSUME [Next]_vars, NEW d \in offered' \ offered
    PROVE  Offers(d)
<1>1. CASE \E h \in Handlers, e \in Drivers :
              \/ \E on \in BOOLEAN : StatusReads(h, e, on) \/ AdminDuty(h, e,
                   on) \/ AdminStatus(h, e, on)
              \/ LocationReads(h, e) \/ PushTokenWrites(h, e) \/ SignInWrites(h,
                   e) \/ RefreshWrites(h, e)
              \/ GoOnline(h, e) \/ GoOfflineReads(h, e) \/ LivePosition(h, e)
              \/ Accept(h, e) \/ AcceptTxn(h, e) \/ Release(h, e)
              \/ AdminEdits(h, e) \/ AdminLocates(h, e) \/ AdminClaims(h, e) \/ AdminTakesOff(h, e)
  <2>1. ASSUME NEW h \in Handlers, NEW k, Begin(h, k) PROVE offered' = offered
    BY <2>1 DEF Begin, offers
  <2>2. PICK h \in Handlers, e \in Drivers :
              \/ \E on \in BOOLEAN : StatusReads(h, e, on) \/ AdminDuty(h, e,
                   on) \/ AdminStatus(h, e, on)
              \/ LocationReads(h, e) \/ PushTokenWrites(h, e) \/ SignInWrites(h,
                   e) \/ RefreshWrites(h, e)
              \/ GoOnline(h, e) \/ GoOfflineReads(h, e) \/ LivePosition(h, e)
              \/ Accept(h, e) \/ AcceptTxn(h, e) \/ Release(h, e)
              \/ AdminEdits(h, e) \/ AdminLocates(h, e) \/ AdminClaims(h, e) \/ AdminTakesOff(h, e)
    BY <1>1
  <2>3. (\E on \in BOOLEAN : StatusReads(h, e, on)) => offered' = offered
    BY <2>1 DEF StatusReads
  <2>4. (\E on \in BOOLEAN : AdminDuty(h, e, on)) => offered' = offered
    BY <2>1 DEF AdminDuty
  <2>5. (\E on \in BOOLEAN : AdminStatus(h, e, on)) => offered' = offered
    BY <2>1 DEF AdminStatus
  <2>6. LocationReads(h, e) => offered' = offered
    BY <2>1 DEF LocationReads
  <2>7. PushTokenWrites(h, e) => offered' = offered
    BY <2>1 DEF PushTokenWrites
  <2>8. SignInWrites(h, e) => offered' = offered
    BY <2>1 DEF SignInWrites
  <2>9. RefreshWrites(h, e) => offered' = offered
    BY <2>1 DEF RefreshWrites
  <2>10. GoOnline(h, e) => offered' = offered
    BY <2>1 DEF GoOnline
  <2>11. GoOfflineReads(h, e) => offered' = offered
    BY <2>1 DEF GoOfflineReads
  <2>12. LivePosition(h, e) => offered' = offered
    BY <2>1 DEF LivePosition
  <2>13. Accept(h, e) => offered' = offered
    BY <2>1 DEF Accept
  <2>14. AcceptTxn(h, e) => offered' = offered
    BY <2>1 DEF AcceptTxn
  <2>15. Release(h, e) => offered' = offered
    BY <2>1 DEF Release
  <2>16. AdminEdits(h, e) => offered' = offered
    BY <2>1 DEF AdminEdits
  <2>17. AdminLocates(h, e) => offered' = offered
    BY <2>1 DEF AdminLocates
  <2>18. AdminClaims(h, e) => offered' = offered
    BY <2>1 DEF AdminClaims
  <2>19. AdminTakesOff(h, e) => offered' = offered
    BY <2>1 DEF AdminTakesOff
  <2> QED BY <2>2, <2>3, <2>4, <2>5, <2>6, <2>7, <2>8, <2>9, <2>10, <2>11,
         <2>12, <2>13, <2>14, <2>15, <2>16, <2>17, <2>18, <2>19
<1>2. CASE \E h \in Handlers :
              \/ Gauge(h) \/ Place(h) \/ Lists(h) \/ Unlists(h) \/ Forget(h) \/ Hook(h)
              \/ \E step \in {"busy", "free"} : Mark(h, step)
              \/ StatusSaves(h) \/ GoOfflineWrites(h) \/ Takes(h) \/ Commits(h) \/ Relieves(h)
              \/ Aborts(h) \/ RedisFails(h)
  BY <1>2
     DEF Gauge, Place, Lists, Unlists, Forget, Hook, Mark, StatusSaves, GoOfflineWrites, Takes,
         Commits, Relieves, Aborts, RedisFails, offers
<1>3. CASE \E ds \in SUBSET Drivers : AdminBulk(ds)
  BY <1>3 DEF AdminBulk, offers
<1>4. CASE \E e \in Drivers : NightRemoves(e) \/ OfferLapses(e) \/ MetaExpires(e)
  BY <1>4 DEF NightRemoves, OfferLapses, MetaExpires, offers
<1>5. CASE NightFinds \/ NightWrites \/ SearchLooks \/ SearchVerifies \/ SearchCleans
  BY <1>5 DEF NightFinds, NightWrites, SearchLooks, SearchVerifies, SearchCleans, offers
<1>6. CASE Restart \/ BootLists \/ UNCHANGED vars
  BY <1>6 DEF Restart, BootLists, vars, offers
<1>7. CASE \E e \in Drivers : Offers(e)
  BY <1>7 DEF Offers
<1> QED BY <1>1, <1>2, <1>3, <1>4, <1>5, <1>6, <1>7 DEF Next

\* Whoever is offered a ride is free still, but in the ways the model names.
THEOREM OfferedDriversAreFree == Spec => OfferedAreFree
<1>1. PresenceInv /\ [Next]_vars =>
         [\A d \in offered' \ offered : d \in astray \/ Touched(d, Handlers) \/ Fit(db[d])]_vars
  <2> SUFFICES ASSUME PresenceInv, [Next]_vars, NEW d \in offered' \ offered
               PROVE  d \in astray \/ Touched(d, Handlers) \/ Fit(db[d])
    OBVIOUS
  <2>1. d \in Drivers /\ Offerable(d)
    BY OnlyOffers DEF Offers, PresenceInv, Types
  <2> QED BY <2>1, NotInHand DEF PresenceInv, Rests, Truthful
<1> QED BY <1>1, PresenceInvariant, PTL DEF Spec, OfferedAreFree

==============================================================================
