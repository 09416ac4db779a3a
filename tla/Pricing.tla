------------------------------- MODULE Pricing -------------------------------
(* Serviceable areas, the rules that price them, and what the customers of a   *)
(* booking are quoted: the advance when it is made, the estimate before, and   *)
(* the bill when the luggage is asked back.                                    *)
(*                                                                             *)
(* Money is an integer number of paise, as in utils/money.js; distances are    *)
(* hundredths of a kilometre and times half hours, fine enough to tell every   *)
(* rounding of the code apart.  Rules are replaced by two writes of one        *)
(* request, and nothing makes them one.                                        *)
EXTENDS Integers

CONSTANTS
    Areas,          \* serviceable areas
    Rules,          \* pricing rules
    Bookings,       \* bookings
    Admins,         \* administrators' requests under way at once
    None,           \* no area, no rule
    HourlyRates,    \* paise per hour of storage a rule may ask
    DailyCaps,      \* most a rule asks for a day; 0 where it sets none
    Multipliers,    \* tenths by which a rule multiplies what is released at its peak
    KmRate,         \* paise per kilometre
    Distances,      \* from a customer to a store
    StoredAt,       \* hours of the day at which luggage is stored
    Lengths,        \* half hours for which luggage is stored
    Coupons,        \* coupon codes; any string that is no coupon takes nothing off
    Tips,           \* tips for the driver
    MaxActs         \* edits of administrators

ASSUME PricingAssumption ==
    /\ None \notin Areas \cup Rules \cup {"small", "large"}
    /\ HourlyRates \cup DailyCaps \cup {KmRate, MaxActs} \subseteq Nat
    /\ Multipliers \subseteq {m \in Nat : m >= 10}
    /\ Distances \cup StoredAt \cup Lengths \cup Tips \subseteq Nat

VARIABLES
    area,       \* ServiceableArea: "none", "on", "off"
    rule,       \* PricingRule documents
    booking,    \* Booking.pricing, and the order of the advance
    desk,       \* the next step of each administrator's request
    deleted,    \* history: rules an administrator deleted
    acts

vars == <<area, rule, booking, desk, deleted, acts>>

(* Arithmetic. *)

Least(a, b)   == IF a < b THEN a ELSE b
Greatest(a, b) == IF a > b THEN a ELSE b
Ceiling(a, b) == (a + b - 1) \div b

\* Math.round of a / b, for a >= 0.
Rounded(a, b) == (2 * a + b) \div (2 * b)

PlatformFee == 1000
HandlingFee == 500
PackingFee  == 250
MinHours    == 1
MaxDistance == 1500
TaxPercent  == 18
PeakFrom    == 22
PeakTo      == 6

\* An overnight range wraps around midnight.
IsPeakHour(hour) ==
    IF PeakFrom <= PeakTo THEN hour >= PeakFrom /\ hour < PeakTo
    ELSE hour >= PeakFrom \/ hour < PeakTo

\* The tax and its parts; the state's part takes what the centre's rounding leaves.
CalculateTax(amount, mode, percent, igst) ==
    LET taxable == IF mode = "INCLUSIVE" THEN Rounded(amount * 100, 100 + percent) ELSE amount
        tax     == IF mode = "EXEMPT" \/ percent <= 0 THEN 0
                   ELSE IF mode = "INCLUSIVE" THEN amount - taxable
                   ELSE Rounded(taxable * percent, 100)
        centre  == IF igst > 0 THEN 0 ELSE Rounded(tax, 2) IN
    [taxable |-> taxable,
     cgst    |-> centre,
     sgst    |-> IF igst > 0 THEN 0 ELSE tax - centre,
     igst    |-> IF igst > 0 THEN tax ELSE 0,
     total   |-> taxable + tax]

Tax(amount) == CalculateTax(amount, "EXCLUSIVE", TaxPercent, 0)

(* Snapshots and quotes. *)

\* What a rule asks.  Its schema has no tax and no rate for the store: every
\* snapshot has the defaults, 18 per cent on top and 70 per cent of the
\* customer's rate.
Terms == [hourly : HourlyRates, dayMax : DailyCaps, peak : Multipliers]

NoSnapshot == [perKm |-> 0, hourly |-> 0, storeHourly |-> 0, dayMax |-> 0, peak |-> 10, bags |-> FALSE]

BuildPricingSnapshot(t) ==
    [perKm |-> KmRate, hourly |-> t.hourly, storeHourly |-> Rounded(7 * t.hourly, 10),
     dayMax |-> t.dayMax, peak |-> t.peak, bags |-> TRUE]

\* What the booking's schema keeps of a snapshot: the rate of a kilometre, the
\* furthest distance and the prices of the bags are not among its fields.
\* Money.round turns what they leave, NaN, into 0.
Kept(snap) == [snap EXCEPT !.perKm = 0, !.bags = FALSE]

\* A customer's luggage: small bags, or a large one with them.
Luggage == {"small", "large"}
BagsBase(lug)   == IF lug = "large" THEN 4900 + 14900 ELSE 4900
BagsHourly(lug) == IF lug = "large" THEN 1500 + 4000 ELSE 1500

\* At least one kilometre is charged, and nothing further than the rule's limit.
AdvanceQuote(snap, dist, lug) ==
    LET km       == Greatest(100, dist)
        delivery == Rounded(km * snap.perKm, 100)
        handling == IF lug = "large" THEN HandlingFee ELSE 0 IN
    [delivery |-> delivery,
     tax |-> Tax(PlatformFee + delivery + handling + PackingFee + BagsBase(lug))]

Hour(at, length) == (at + length \div 2) % 24

\* Mutant of StorageBase: full days cost the cap, the hours left over their rate.
StorageBaseRest(snap, hours, rate) ==
    IF snap.dayMax = 0 THEN hours * rate
    ELSE (hours \div 24) * snap.dayMax + (hours % 24) * rate

\* The cap counts every day begun.
StorageBase(snap, hours, rate) ==
    IF snap.dayMax = 0 THEN hours * rate
    ELSE Least(hours * rate, Ceiling(hours, 24) * snap.dayMax)

\* The storage fee; the bags set the rate where the caller hands them over and
\* the snapshot has their prices.
StorageCharge(snap, at, length, lug) ==
    LET hours == Greatest(Ceiling(length, 2), MinHours)
        rate  == IF snap.bags /\ lug \in Luggage THEN BagsHourly(lug) ELSE snap.hourly
        mult  == IF IsPeakHour(Hour(at, length)) THEN snap.peak ELSE 10
        fee   == Rounded(StorageBase(snap, hours, rate) * mult, 10)
        store == snap.storeHourly * hours IN
    [fee |-> fee, store |-> store, margin |-> Greatest(0, fee - store)]

\* The bill of a return: the luggage is not handed over.
ReturnQuote(snap, at, length, dist) ==
    LET charge   == StorageCharge(snap, at, length, None)
        delivery == Rounded(dist * snap.perKm, 100) IN
    [length |-> length, peak |-> IsPeakHour(Hour(at, length)), dist |-> dist,
     storage |-> charge.fee, delivery |-> delivery, tax |-> Tax(charge.fee + delivery)]

NoTax   == [taxable |-> 0, cgst |-> 0, sgst |-> 0, igst |-> 0, total |-> 0]
NoQuote == [length |-> 0, peak |-> FALSE, dist |-> 0, storage |-> 0, delivery |-> 0, tax |-> NoTax]

Discount(advance, coupon) ==
    CASE coupon = "WELCOME50" -> Least(advance, 5000)
      [] coupon = "WELCOME20" -> Least(5000, Rounded(advance, 5))
      [] coupon = "HOLDIT10"  -> Least(10000, Rounded(advance, 10))
      [] coupon = "FREEBIE"   -> Least(advance, 2500)
      [] OTHER                -> 0

Payable(advance, tip, coupon) == Greatest(0, advance + tip - Discount(advance, coupon))

(* Areas and rules. *)

NoRule == [of |-> None, live |-> FALSE, whole |-> FALSE,
           terms |-> [hourly |-> 0, dayMax |-> 0, peak |-> 10]]

\* PricingRule.getActiveRule.
Live(a) == {r \in Rules : rule[r].live /\ rule[r].of = a}

NoBooking == [st |-> "none", area |-> None, rule |-> None, snap |-> NoSnapshot,
              agreed |-> NoSnapshot, advance |-> 0, order |-> NoTax, at |-> 0, quote |-> NoQuote]

Idle == [do |-> "idle", r |-> None]

\* The rules there are have been entered otherwise than by the program: whole if
\* they have the platform fee of a return, which the schema requires and which
\* neither form for a new rule has.
Init ==
    /\ \E a \in Areas :
          /\ area = [x \in Areas |-> IF x = a THEN "on" ELSE "none"]
          /\ \E t \in Terms, w \in BOOLEAN, r \in Rules :
                rule = [x \in Rules |-> IF x = r THEN [of |-> a, live |-> TRUE, whole |-> w, terms |-> t]
                                        ELSE [NoRule EXCEPT !.of = a, !.whole = TRUE]]
    /\ booking = [b \in Bookings |-> NoBooking]
    /\ desk = [d \in Admins |-> Idle]
    /\ deleted = {} /\ acts = 0

Act == acts < MaxActs /\ acts' = acts + 1

\* createArea: the area is saved; its rule has no platform fee of a return and is
\* refused, so the area stays without one.
CreateArea(a) ==
    /\ Act /\ area[a] = "none"
    /\ area' = [area EXCEPT ![a] = "on"]
    /\ UNCHANGED <<rule, booking, desk, deleted>>

\* updateArea and toggleAreaStatus.
SetAreaStatus(a, status) ==
    /\ Act /\ area[a] \in {"on", "off"} \ {status}
    /\ area' = [area EXCEPT ![a] = status]
    /\ UNCHANGED <<rule, booking, desk, deleted>>

\* An area is deleted; its rules stay.
DeleteArea(a) ==
    /\ Act /\ area[a] \in {"on", "off"}
    /\ area' = [area EXCEPT ![a] = "gone"]
    /\ UNCHANGED <<rule, booking, desk, deleted>>

\* replaceActiveRule, for a new rule or a copy: the rule in force is read.  One that is
\* not whole as it is read will not be saved, and there is nothing more to the request.
ReplaceFinds(d, r) ==
    /\ Act /\ desk[d] = Idle
    /\ rule[r].live /\ rule[r].whole
    /\ desk' = [desk EXCEPT ![d] = [do |-> "deactivate", r |-> r]]
    /\ UNCHANGED <<area, rule, booking, deleted>>

\* deactivatePriceRule reads the rule as well, and so ends alike.
DeactivateFinds(d, r) == ReplaceFinds(d, r)

\* The rule read is saved as inactive, in whatever area it is by now, unless it is gone.
\* The new rule of a replacement is never whole: it is not created, and nothing takes
\* back what was saved.
Deactivates(d) ==
    /\ desk[d].do = "deactivate"
    /\ LET r == desk[d].r IN
       rule' = IF rule[r].of # None THEN [rule EXCEPT ![r].live = FALSE] ELSE rule
    /\ desk' = [desk EXCEPT ![d] = Idle]
    /\ UNCHANGED <<area, booking, deleted, acts>>

\* updatePriceRule writes what it is given, in place, the area among it; the index
\* refuses a second active rule of the area.
UpdateRule(r, a, t, on, w) ==
    /\ Act /\ rule[r].of # None /\ area[a] # "none"
    /\ on => Live(a) \subseteq {r}
    /\ rule[r].whole => w
    /\ rule' = [rule EXCEPT ![r] = [of |-> a, live |-> on, whole |-> w, terms |-> t]]
    /\ UNCHANGED <<area, booking, desk, deleted>>

DeleteRule(r) ==
    /\ Act /\ rule[r].of # None
    /\ rule' = [rule EXCEPT ![r] = NoRule]
    /\ deleted' = deleted \cup {r}
    /\ UNCHANGED <<area, booking, desk>>

(* Customers. *)

\* checkServiceability and checkServiceable: a place is served by an active area.
Serves(a) == area[a] = "on"

\* schedulePickup: the area serves, it has a rule, and the store is not too far.
\* The coupon and the tip change what the booking shows and not the order.
SchedulePickup(b, a, dist, lug, tip, coupon) ==
    /\ booking[b].st = "none" /\ Serves(a) /\ dist <= MaxDistance
    /\ \E r \in Live(a) :
         LET snap == BuildPricingSnapshot(rule[r].terms)
             order == AdvanceQuote(snap, dist, lug).tax IN
         booking' = [booking EXCEPT ![b] =
                       [NoBooking EXCEPT !.st = "scheduled", !.area = a, !.rule = r,
                                         !.snap = Kept(snap), !.agreed = snap, !.order = order,
                                         !.advance = Payable(order.total, tip, coupon)]]
    /\ UNCHANGED <<area, rule, desk, deleted, acts>>

\* The luggage comes to its store.
Stored(b, at) ==
    /\ booking[b].st = "scheduled"
    /\ booking' = [booking EXCEPT ![b].st = "stored", ![b].at = at]
    /\ UNCHANGED <<area, rule, desk, deleted, acts>>

\* Mutant of ReturnTerms: the bill is made from the rule in force.
ReturnTermsNow(b) ==
    LET now == {r \in Rules : rule[r].of = booking[b].area /\ (rule[r].live \/ r = booking[b].rule)} IN
    BuildPricingSnapshot(rule[CHOOSE r \in now : TRUE].terms)

\* The snapshot of the booking, which every booking has.
ReturnTerms(b) == booking[b].snap

\* Mutant of RuleFound: only a rule in force is found.
RuleFoundLive(b) == Live(booking[b].area) # {}

\* A rule for the bill: the booking's own, in force or not, or the area's.
RuleFound(b) == rule[booking[b].rule].of # None \/ Live(booking[b].area) # {}

\* requestReturn, again as long as the bill is not paid: a rule must be found, but it is
\* not used.
RequestReturn(b, length, dist) ==
    /\ booking[b].st \in {"stored", "final_payment"}
    /\ length >= booking[b].quote.length
    /\ RuleFound(b)
    /\ LET q == ReturnQuote(ReturnTerms(b), booking[b].at, length, dist) IN
       booking' = [booking EXCEPT ![b].quote = q,
                                  ![b].st = IF q.tax.total <= 0 THEN "return_requested" ELSE "final_payment"]
    /\ UNCHANGED <<area, rule, desk, deleted, acts>>

\* The final payment is captured.
FinalCaptured(b) ==
    /\ booking[b].st = "final_payment"
    /\ booking' = [booking EXCEPT ![b].st = "return_requested"]
    /\ UNCHANGED <<area, rule, desk, deleted, acts>>

UpdatesRule(r) ==
    \E a \in Areas, t \in Terms, on, w \in BOOLEAN : UpdateRule(r, a, t, on, w)

AdminNext ==
    \/ \E a \in Areas : CreateArea(a) \/ DeleteArea(a) \/ (\E s \in {"on", "off"} : SetAreaStatus(a, s))
    \/ \E d \in Admins : Deactivates(d) \/ (\E r \in Rules : ReplaceFinds(d, r) \/ DeactivateFinds(d, r))
    \/ \E r \in Rules : DeleteRule(r) \/ UpdatesRule(r)

CustomerNext ==
    \E b \in Bookings :
       \/ \E a \in Areas, dist \in Distances, lug \in Luggage, tip \in Tips, c \in Coupons :
             SchedulePickup(b, a, dist, lug, tip, c)
       \/ \E at \in StoredAt : Stored(b, at)
       \/ \E length \in Lengths, dist \in Distances : RequestReturn(b, length, dist)
       \/ FinalCaptured(b)

Next == AdminNext \/ CustomerNext

Spec == Init /\ [][Next]_vars

(* Properties. *)

\* Areas, rules, bookings and requests are what the schemas allow.
TypeOK ==
    /\ area \in [Areas -> {"none", "on", "off", "gone"}]
    /\ \A r \in Rules : rule[r].of \in Areas \cup {None} /\ rule[r].live \in BOOLEAN
    /\ \A b \in Bookings :
         /\ booking[b].st \in {"none", "scheduled", "stored", "final_payment", "return_requested"}
         /\ booking[b].advance \in Nat /\ booking[b].quote.storage \in Nat
    /\ \A d \in Admins : desk[d].r \in Rules \cup {None}
    /\ deleted \subseteq Rules /\ acts \in 0..MaxActs

\* A customer who has booked can have his return billed, although replacing a rule
\* retires it and always fails to create the next, which leaves the area with none in
\* force (models/PricingRule.js:132): his own rule still serves, wherever it was moved and
\* whoever retired it, unless an administrator deleted it.
ReturnNotRefused ==
    \A b \in Bookings :
      booking[b].st # "none" /\ booking[b].rule \notin deleted => RuleFound(b)

\* A customer pays for storage what the rule asked when he booked, however the
\* rules are edited, replaced or deleted while his luggage is stored, although
\* not every field of the snapshot is kept.
BookedTermsHold ==
    \A b \in Bookings :
      LET k == booking[b] IN
      k.quote # NoQuote =>
        k.quote.storage = StorageCharge(k.agreed, k.at, k.quote.length, None).fee

\* A customer who asks his luggage back again, later, is not billed less for its
\* storage, unless the first bill was made in the peak hours and the second not.
LongerNeverCheaper ==
    [][\A b \in Bookings :
         (booking[b].quote # NoQuote /\ (booking[b].quote.peak => booking'[b].quote.peak))
            => booking'[b].quote.storage >= booking[b].quote.storage]_vars

==============================================================================
