---------------------------- MODULE Pricing_proofs ----------------------------
(* Rules and bills, for all rates, caps, multipliers and times.                 *)
(*                                                                              *)
(* What is billed for storage goes by few fields of the snapshot, none of them  *)
(* one that the booking's schema drops (FeeOfKept), and grows with the time of  *)
(* storage unless the peak ends (FeeGrows): the arithmetic comes first, then    *)
(* the invariant, which relates each bill to its booking (Billed).              *)
EXTENDS Pricing, TLAPS

\* Sums of money, all of them.
Sums == [taxable : Int, cgst : Int, sgst : Int, igst : Int, total : Int]

\* What a rule asks.
Asked == [hourly : Nat, dayMax : Nat, peak : {m \in Nat : m >= 10}]

\* A snapshot,
Snapshots == [perKm : Nat, hourly : Nat, storeHourly : Nat, dayMax : Nat,
              peak : {m \in Nat : m >= 10}, bags : BOOLEAN]

\* ... and a bill.
Quotes == [length : Nat, peak : BOOLEAN, dist : Nat, storage : Nat, delivery : Nat, tax : Sums]

\* A rule.
RuleType == [of : Areas \cup {None}, live : BOOLEAN, whole : BOOLEAN, terms : Asked]

\* A booking.
BookingType ==
    [st : {"none", "scheduled", "stored", "final_payment", "return_requested"},
     area : Areas \cup {None}, rule : Rules \cup {None}, snap : Snapshots, agreed : Snapshots,
     advance : Nat, order : Sums, at : Nat, quote : Quotes]

\* TypeOK, with the documents whole.
Types ==
    /\ area \in [Areas -> {"none", "on", "off", "gone"}]
    /\ rule \in [Rules -> RuleType]
    /\ booking \in [Bookings -> BookingType]
    /\ desk \in [Admins -> [do : {"idle", "deactivate"}, r : Rules \cup {None}]]
    /\ deleted \subseteq Rules /\ acts \in 0..MaxActs

\* The rule a booking was made under is there still, or was deleted,
Ruled(k) ==
    k.st # "none" => /\ k.rule \in Rules
                     /\ rule[k.rule].of # None \/ k.rule \in deleted

\* ... it keeps of the snapshot what its schema has fields for,
Snapped(k) == k.snap = Kept(k.agreed)

\* ... and its bill, once there is one, is of the hours of storage it names.
Billed(k) ==
    /\ k.st \in {"none", "scheduled"} => k.quote = NoQuote
    /\ k.quote # NoQuote =>
         /\ k.quote.storage = StorageCharge(k.snap, k.at, k.quote.length, None).fee
         /\ k.quote.peak = IsPeakHour(Hour(k.at, k.quote.length))

\* All bookings are like that.
Bills == \A b \in Bookings : Snapped(booking[b]) /\ Billed(booking[b]) /\ Ruled(booking[b])

\* The inductive invariant of the module.
PricingInv == Types /\ Bills

(* Arithmetic. *)

\* A product grows with each factor.
LEMMA ProductGrows ==
    ASSUME NEW a \in Nat, NEW b \in Nat, NEW c \in Nat, a <= b
    PROVE  a * c \in Nat /\ a * c <= b * c /\ c * a <= c * b
<1>1. PICK d \in Nat : b = a + d
  <2>1. b - a \in Nat /\ b = a + (b - a)
    OBVIOUS
  <2> QED BY <2>1
<1>2. b * c = a * c + d * c
  BY <1>1
<1>3. a * c \in Nat /\ d * c \in Nat /\ c * a = a * c /\ c * b = b * c
  OBVIOUS
<1> QED BY <1>2, <1>3

\* The tenth part of an amount, rounded, grows with it.
LEMMA RoundedGrows ==
    ASSUME NEW a \in Nat, NEW b \in Nat, a <= b
    PROVE  Rounded(a, 10) \in Nat /\ Rounded(a, 10) <= Rounded(b, 10)
  BY DEF Rounded

\* Hours begun, at least one, grow with the half hours,
Hours(length) == Greatest(Ceiling(length, 2), MinHours)

\* ... and days begun with the hours.
LEMMA HoursGrow ==
    ASSUME NEW l \in Nat, NEW m \in Nat, l <= m
    PROVE  /\ Hours(l) \in Nat /\ Hours(l) <= Hours(m)
           /\ Ceiling(l, 24) \in Nat /\ Ceiling(l, 24) <= Ceiling(m, 24)
  BY DEF Hours, Greatest, Ceiling, MinHours

\* By what the fee is multiplied at the end of a time of storage.
Factor(snap, at, length) == IF IsPeakHour(Hour(at, length)) THEN snap.peak ELSE 10

\* The storage fee of a bill: the luggage is not handed over.
LEMMA FeeIs ==
    ASSUME NEW snap, NEW at, NEW length
    PROVE  StorageCharge(snap, at, length, None).fee
             = Rounded(StorageBase(snap, Hours(length), snap.hourly) * Factor(snap, at, length), 10)
<1>1. None \notin Luggage
  BY PricingAssumption DEF Luggage
<1>2. (IF snap.bags /\ None \in Luggage THEN BagsHourly(None) ELSE snap.hourly) = snap.hourly
  BY <1>1
<1> QED BY <1>2 DEF StorageCharge, Hours, Factor

\* What is charged before the peak, the cap counting the days begun, grows with the hours.
LEMMA BaseGrows ==
    ASSUME NEW snap \in Snapshots, NEW h \in Nat, NEW i \in Nat, h <= i
    PROVE  /\ StorageBase(snap, h, snap.hourly) \in Nat
           /\ StorageBase(snap, h, snap.hourly) <= StorageBase(snap, i, snap.hourly)
<1>1. PICK rate \in Nat, cap \in Nat : rate = snap.hourly /\ cap = snap.dayMax
  BY DEF Snapshots
<1>2. PICK d \in Nat, e \in Nat : d = Ceiling(h, 24) /\ e = Ceiling(i, 24) /\ d <= e
  BY HoursGrow
<1>3. h * rate \in Nat /\ i * rate \in Nat /\ h * rate <= i * rate
  BY ProductGrows
<1>4. d * cap \in Nat /\ e * cap \in Nat /\ d * cap <= e * cap
  BY <1>2, ProductGrows
<1>5. /\ StorageBase(snap, h, snap.hourly) =
           IF cap = 0 THEN h * rate ELSE Least(h * rate, d * cap)
      /\ StorageBase(snap, i, snap.hourly) =
           IF cap = 0 THEN i * rate ELSE Least(i * rate, e * cap)
  BY <1>1, <1>2 DEF StorageBase
<1> QED BY <1>3, <1>4, <1>5 DEF Least

\* A bill for more hours is no less, unless it ends the peak.
LEMMA FeeGrows ==
    ASSUME NEW snap \in Snapshots, NEW at, NEW l \in Nat, NEW m \in Nat, l <= m,
           IsPeakHour(Hour(at, l)) => IsPeakHour(Hour(at, m))
    PROVE  /\ StorageCharge(snap, at, l, None).fee \in Nat
           /\ StorageCharge(snap, at, l, None).fee <= StorageCharge(snap, at, m, None).fee
<1>1. PICK x \in Nat, y \in Nat :
        /\ x = StorageBase(snap, Hours(l), snap.hourly) /\ x <= y
        /\ y = StorageBase(snap, Hours(m), snap.hourly)
  BY HoursGrow, BaseGrows
<1>2. PICK f \in Nat, g \in Nat :
        f = Factor(snap, at, l) /\ g = Factor(snap, at, m) /\ f <= g
  BY DEF Factor, Snapshots
<1>3. x * f \in Nat /\ y * f \in Nat /\ x * f <= y * f /\ y * f <= y * g /\ y * g \in Nat
  BY <1>1, <1>2, ProductGrows
<1>4. x * f <= y * g
  BY <1>3
<1>5. Rounded(x * f, 10) \in Nat /\ Rounded(x * f, 10) <= Rounded(y * g, 10)
  BY <1>3, <1>4, RoundedGrows
<1> QED BY <1>1, <1>2, <1>5, FeeIs

\* The fee does not ask what the schema of the booking drops.
LEMMA FeeOfKept ==
    ASSUME NEW snap \in Snapshots, NEW at, NEW length
    PROVE  /\ Kept(snap) \in Snapshots
           /\ StorageCharge(Kept(snap), at, length, None).fee = StorageCharge(snap, at, length,
                None).fee
<1>1. /\ Kept(snap) \in Snapshots /\ Kept(snap).hourly = snap.hourly
      /\ Kept(snap).dayMax = snap.dayMax /\ Kept(snap).peak = snap.peak
  BY DEF Kept, Snapshots
<1> QED BY <1>1, FeeIs DEF StorageBase, Factor

(* What is quoted. *)

\* A snapshot of what a rule asks.
LEMMA SnapshotIs ==
    ASSUME NEW t \in Asked
    PROVE  BuildPricingSnapshot(t) \in Snapshots
<1>1. PICK h \in Nat : h = t.hourly
  BY DEF Asked
<1>2. KmRate \in Nat /\ Rounded(7 * h, 10) \in Nat
  BY PricingAssumption DEF Rounded
<1> QED BY <1>1, <1>2 DEF BuildPricingSnapshot, Asked, Snapshots

\* Its taxes.
LEMMA TaxIs ==
    ASSUME NEW amount \in Int
    PROVE  Tax(amount) \in Sums
<1> DEFINE tax == Rounded(amount * TaxPercent, 100)
           centre == Rounded(tax, 2)
<1>1. tax \in Int /\ centre \in Int
  BY DEF Rounded, TaxPercent
<1>2. Tax(amount) = [taxable |-> amount, cgst |-> centre, sgst |-> tax - centre, igst |-> 0,
                     total |-> amount + tax]
  BY DEF Tax, CalculateTax, TaxPercent
<1> HIDE DEF tax, centre
<1>3. tax - centre \in Int /\ amount + tax \in Int /\ 0 \in Int
  BY <1>1
<1> QED BY <1>1, <1>2, <1>3 DEF Sums

\* The order of an advance.
LEMMA AdvanceIs ==
    ASSUME NEW snap \in Snapshots, NEW dist \in Nat, NEW lug \in Luggage
    PROVE  AdvanceQuote(snap, dist, lug).tax \in Sums
<1> DEFINE km == Greatest(100, dist)
           delivery == Rounded(km * snap.perKm, 100)
           handling == IF lug = "large" THEN HandlingFee ELSE 0
<1>1. km \in Nat /\ snap.perKm \in Nat
  BY DEF Greatest, Snapshots
<1>2. delivery \in Int
  <2> HIDE DEF km
  <2>1. PICK n \in Nat : n = km * snap.perKm
    BY <1>1
  <2> QED BY <2>1 DEF Rounded
<1>3. handling \in Int /\ PlatformFee \in Int /\ PackingFee \in Int /\ BagsBase(lug) \in Int
  BY DEF HandlingFee, PlatformFee, PackingFee, BagsBase
<1>4. AdvanceQuote(snap, dist, lug).tax =
        Tax(PlatformFee + delivery + handling + PackingFee + BagsBase(lug))
  BY DEF AdvanceQuote
<1> HIDE DEF delivery, handling
<1>5. PlatformFee + delivery + handling + PackingFee + BagsBase(lug) \in Int
  BY <1>2, <1>3
<1> QED BY <1>4, <1>5, TaxIs

\* What the booking shows of it, with the tip and the coupon.
LEMMA PayableIs ==
    ASSUME NEW advance \in Int, NEW tip \in Nat, NEW coupon
    PROVE  Payable(advance, tip, coupon) \in Nat
<1>1. Discount(advance, coupon) \in Int
  BY DEF Discount, Least, Rounded
<1> QED BY <1>1 DEF Payable, Greatest

\* A bill.
LEMMA QuoteIs ==
    ASSUME NEW snap \in Snapshots, NEW at, NEW length \in Nat, NEW dist \in Nat
    PROVE  LET q == ReturnQuote(snap, at, length, dist) IN
           /\ q \in Quotes /\ q.length = length /\ q.peak = IsPeakHour(Hour(at, length))
           /\ q.storage = StorageCharge(snap, at, length, None).fee
<1> DEFINE fee == StorageCharge(snap, at, length, None).fee
           delivery == Rounded(dist * snap.perKm, 100)
<1>1. fee \in Nat
  BY FeeGrows
<1>2. delivery \in Nat
  <2>1. PICK n \in Nat : n = dist * snap.perKm
    BY DEF Snapshots
  <2> QED BY <2>1 DEF Rounded
<1>3. IsPeakHour(Hour(at, length)) \in BOOLEAN
  BY DEF IsPeakHour
<1>4. ReturnQuote(snap, at, length, dist) =
        [length |-> length, peak |-> IsPeakHour(Hour(at, length)), dist |-> dist,
         storage |-> fee, delivery |-> delivery, tax |-> Tax(fee + delivery)]
  BY DEF ReturnQuote
<1> HIDE DEF fee, delivery
<1>5. Tax(fee + delivery) \in Sums
  BY <1>1, <1>2, TaxIs
<1> QED BY <1>1, <1>2, <1>3, <1>4, <1>5 DEF Quotes, fee

\* A booking that is not made yet.
LEMMA NothingBooked ==
    /\ NoBooking \in BookingType /\ NoQuote \in Quotes /\ NoTax \in Sums
    /\ NoBooking.st = "none" /\ NoBooking.quote = NoQuote
    /\ Snapped(NoBooking) /\ Billed(NoBooking) /\ Ruled(NoBooking)
<1>1. NoTax \in Sums
  BY DEF NoTax, Sums
<1>2. NoQuote \in Quotes
  BY <1>1 DEF NoQuote, Quotes
<1>3. NoSnapshot \in Snapshots /\ Kept(NoSnapshot) = NoSnapshot
  <2>1. NoSnapshot \in Snapshots
    BY DEF NoSnapshot, Snapshots
  <2>2. NoSnapshot.perKm = 0 /\ NoSnapshot.bags = FALSE
    BY DEF NoSnapshot
  <2>3. ASSUME NEW s \in Snapshots, s.perKm = 0, s.bags = FALSE PROVE Kept(s) = s
    BY <2>3 DEF Snapshots, Kept
  <2> QED BY <2>1, <2>2, <2>3
<1>4. NoBooking \in BookingType
  BY <1>1, <1>2, <1>3 DEF NoBooking, BookingType
<1> QED BY <1>1, <1>2, <1>3, <1>4 DEF NoBooking, Snapped, Billed, Ruled

(* The invariant, step by step. *)

\* An administrator's request counts.
LEMMA Counted ==
    ASSUME PricingInv, Act
    PROVE  acts' \in 0..MaxActs
<1>1. acts \in 0..MaxActs /\ MaxActs \in Nat /\ acts < MaxActs /\ acts' = acts + 1
  BY PricingAssumption DEF PricingInv, Types, Act
<1> QED BY <1>1

\* Rules stay as they are while customers come and go.
LEMMA BookingWritten ==
    ASSUME PricingInv, NEW b \in Bookings, NEW k \in BookingType, Snapped(k), Billed(k),
           Ruled(k), booking' = [booking EXCEPT ![b] = k],
           UNCHANGED <<area, rule, desk, deleted, acts>>
    PROVE  PricingInv'
<1> USE DEF PricingInv
<1>1. booking'[b] = k /\ \A c \in Bookings \ {b} : booking'[c] = booking[c]
  BY DEF Types
<1>2. Types'
  BY DEF Types
<1>3. Bills'
  BY <1>1 DEF Bills, Snapped, Billed, Ruled
<1> QED BY <1>2, <1>3

\* A booking is made.
LEMMA SchedulePickupStep ==
    ASSUME PricingInv, NEW b \in Bookings, NEW a \in Areas, NEW dist \in Distances,
           NEW lug \in Luggage, NEW tip \in Tips, NEW c \in Coupons,
           SchedulePickup(b, a, dist, lug, tip, c)
    PROVE  PricingInv'
<1>1. PICK r \in Live(a) :
        LET snap  == BuildPricingSnapshot(rule[r].terms)
            order == AdvanceQuote(snap, dist, lug).tax IN
        booking' = [booking EXCEPT ![b] =
                      [NoBooking EXCEPT !.st = "scheduled", !.area = a, !.rule = r,
                                        !.snap = Kept(snap), !.agreed = snap, !.order = order,
                                        !.advance = Payable(order.total, tip, c)]]
  BY DEF SchedulePickup
<1> DEFINE snap  == BuildPricingSnapshot(rule[r].terms)
           order == AdvanceQuote(snap, dist, lug).tax
           pay   == Payable(order.total, tip, c)
           kept  == Kept(snap)
           k == [NoBooking EXCEPT !.st = "scheduled", !.area = a, !.rule = r, !.snap = kept,
                                  !.agreed = snap, !.order = order, !.advance = pay]
<1>2. r \in Rules /\ rule[r].terms \in Asked /\ rule[r].of # None
  BY PricingAssumption DEF Live, PricingInv, Types, RuleType
<1>3. snap \in Snapshots
  BY <1>2, SnapshotIs
<1>4. dist \in Nat /\ tip \in Nat
  BY PricingAssumption
<1>5. booking' = [booking EXCEPT ![b] = k]
  BY <1>1
<1> HIDE DEF snap
<1>6. kept \in Snapshots
  BY <1>3, FeeOfKept
<1>7. order \in Sums
  BY <1>3, <1>4, AdvanceIs
<1> HIDE DEF order
<1>8. pay \in Nat
  <2>1. order.total \in Int
    BY <1>7 DEF Sums
  <2> QED BY <1>4, <2>1, PayableIs
<1> HIDE DEF pay
<1>9. /\ k \in BookingType /\ k.st = "scheduled" /\ k.quote = NoQuote
      /\ k.snap = kept /\ k.agreed = snap /\ k.rule = r
  <2> HIDE DEF kept
  <2>1. /\ NoBooking \in BookingType /\ NoBooking.quote = NoQuote
        /\ "scheduled" \in {"none", "scheduled", "stored", "final_payment", "return_requested"}
    BY NothingBooked
  <2> QED BY <1>2, <1>3, <1>6, <1>7, <1>8, <2>1 DEF BookingType
<1>10. Snapped(k) /\ Billed(k) /\ Ruled(k)
  <2> HIDE DEF k
  <2> QED BY <1>2, <1>9 DEF Snapped, Billed, Ruled, kept
<1> HIDE DEF k
<1> QED BY <1>5, <1>9, <1>10, BookingWritten DEF SchedulePickup

\* The luggage is stored.
LEMMA StoredStep ==
    ASSUME PricingInv, NEW b \in Bookings, NEW at \in StoredAt, Stored(b, at)
    PROVE  PricingInv'
<1> DEFINE k == [booking[b] EXCEPT !.st = "stored", !.at = at]
<1>1. booking[b] \in BookingType /\ Snapped(booking[b]) /\ Billed(booking[b]) /\ Ruled(booking[b])
  BY DEF PricingInv, Types, Bills
<1>2. booking[b].st = "scheduled" /\ at \in Nat
  BY PricingAssumption DEF Stored
<1>3. booking' = [booking EXCEPT ![b] = k]
  BY DEF Stored, PricingInv, Types
<1>4. /\ k \in BookingType /\ k.st = "stored" /\ k.quote = booking[b].quote
      /\ k.snap = booking[b].snap /\ k.agreed = booking[b].agreed
      /\ k.rule = booking[b].rule
  BY <1>1, <1>2 DEF BookingType
<1> HIDE DEF k
<1>5. Snapped(k) /\ Billed(k) /\ Ruled(k)
  BY <1>1, <1>2, <1>4 DEF Snapped, Billed, Ruled
<1> QED BY <1>3, <1>4, <1>5, BookingWritten DEF Stored

\* The bill of a return.
LEMMA RequestReturnStep ==
    ASSUME PricingInv, NEW b \in Bookings, NEW length \in Lengths, NEW dist \in Distances,
           RequestReturn(b, length, dist)
    PROVE  /\ PricingInv'
           /\ \E q \in Quotes :
                /\ booking'[b].quote = q /\ q.length = length
                /\ q.peak = IsPeakHour(Hour(booking[b].at, length))
                /\ q.storage = StorageCharge(booking[b].snap, booking[b].at, length, None).fee
           /\ \A c \in Bookings \ {b} : booking'[c] = booking[c]
<1>1. booking[b] \in BookingType /\ Snapped(booking[b]) /\ Billed(booking[b]) /\ Ruled(booking[b])
  BY DEF PricingInv, Types, Bills
<1>0. booking[b].st # "none"
  BY DEF RequestReturn
<1>2. length \in Nat /\ dist \in Nat
  BY PricingAssumption
<1> DEFINE q == ReturnQuote(booking[b].snap, booking[b].at, length, dist)
           st == IF q.tax.total <= 0 THEN "return_requested" ELSE "final_payment"
           k == [booking[b] EXCEPT !.quote = q, !.st = st]
<1>3. booking' = [booking EXCEPT ![b] = k]
  <2>1. booking' = [booking EXCEPT ![b].quote = q, ![b].st = st]
    BY DEF RequestReturn, ReturnTerms
  <2> HIDE DEF q, st
  <2> QED BY <2>1 DEF PricingInv, Types
<1>4. /\ q \in Quotes /\ q.length = length
      /\ q.peak = IsPeakHour(Hour(booking[b].at, length))
      /\ q.storage = StorageCharge(booking[b].snap, booking[b].at, length, None).fee
  <2>1. booking[b].snap \in Snapshots
    BY <1>1 DEF BookingType
  <2> QED BY <1>2, <2>1, QuoteIs
<1> HIDE DEF q
<1>5. st \in {"return_requested", "final_payment"}
  OBVIOUS
<1> HIDE DEF st
<1>6. /\ k \in BookingType /\ k.st = st /\ k.quote = q /\ k.at = booking[b].at
      /\ k.snap = booking[b].snap /\ k.agreed = booking[b].agreed
      /\ k.rule = booking[b].rule
  BY <1>1, <1>4, <1>5 DEF BookingType
<1> HIDE DEF k
<1>7. Snapped(k) /\ Billed(k) /\ Ruled(k)
  BY <1>0, <1>1, <1>4, <1>5, <1>6 DEF Snapped, Billed, Ruled
<1>8. PricingInv'
  BY <1>3, <1>6, <1>7, BookingWritten DEF RequestReturn
<1>9. booking'[b] = k /\ \A c \in Bookings \ {b} : booking'[c] = booking[c]
  BY <1>3 DEF PricingInv, Types
<1> QED BY <1>4, <1>6, <1>8, <1>9

\* It is paid.
LEMMA FinalCapturedStep ==
    ASSUME PricingInv, NEW b \in Bookings, FinalCaptured(b)
    PROVE  PricingInv'
<1> DEFINE k == [booking[b] EXCEPT !.st = "return_requested"]
<1>1. booking[b] \in BookingType /\ Snapped(booking[b]) /\ Billed(booking[b]) /\ Ruled(booking[b])
  BY DEF PricingInv, Types, Bills
<1>2. booking[b].st = "final_payment" /\ booking' = [booking EXCEPT ![b] = k]
  BY DEF FinalCaptured, PricingInv, Types
<1>3. /\ k \in BookingType /\ k.st = "return_requested" /\ k.quote = booking[b].quote
      /\ k.snap = booking[b].snap /\ k.agreed = booking[b].agreed /\ k.at = booking[b].at
      /\ k.rule = booking[b].rule
  BY <1>1 DEF BookingType
<1> HIDE DEF k
<1>4. Snapped(k) /\ Billed(k) /\ Ruled(k)
  BY <1>1, <1>2, <1>3 DEF Snapped, Billed, Ruled
<1> QED BY <1>2, <1>3, <1>4, BookingWritten DEF FinalCaptured

\* Bookings stay as they are while administrators do nothing to rules,
LEMMA RulesStay ==
    ASSUME PricingInv, UNCHANGED <<rule, booking, deleted>>,
           area' \in [Areas -> {"none", "on", "off", "gone"}],
           desk' \in [Admins -> [do : {"idle", "deactivate"}, r : Rules \cup {None}]],
           acts' \in 0..MaxActs
    PROVE  PricingInv'
<1> USE DEF PricingInv
<1>1. Types'
  BY DEF Types
<1>2. Bills'
  BY DEF Bills, Snapped, Billed, Ruled
<1> QED BY <1>1, <1>2

\* ... and where one is written, which stays a rule of some area or is deleted.
LEMMA RuleWritten ==
    ASSUME PricingInv, NEW r \in Rules, NEW new \in RuleType, rule' = [rule EXCEPT ![r] = new],
           UNCHANGED <<area, booking>>,
           desk' \in [Admins -> [do : {"idle", "deactivate"}, r : Rules \cup {None}]],
           acts' \in 0..MaxActs, deleted \subseteq deleted', deleted' \subseteq Rules,
           new.of # None \/ r \in deleted'
    PROVE  PricingInv'
<1> USE DEF PricingInv
<1>1. rule'[r] = new /\ \A s \in Rules \ {r} : rule'[s] = rule[s]
  BY DEF Types
<1>2. Types'
  BY DEF Types
<1>3. ASSUME NEW b \in Bookings
      PROVE  Snapped(booking[b])' /\ Billed(booking[b])' /\ Ruled(booking[b])'
  <2>1. Snapped(booking[b]) /\ Billed(booking[b]) /\ Ruled(booking[b])
    BY DEF Bills
  <2>2. Snapped(booking[b])' /\ Billed(booking[b])'
    BY <2>1 DEF Snapped, Billed
  <2>3. Ruled(booking[b])'
    BY <1>1, <2>1 DEF Ruled
  <2> QED BY <2>2, <2>3
<1> QED BY <1>2, <1>3 DEF Bills

\* An area is created, ...
LEMMA CreateAreaStep ==
    ASSUME PricingInv, NEW a \in Areas, CreateArea(a)
    PROVE  PricingInv'
<1>1. acts' \in 0..MaxActs
  BY Counted DEF CreateArea
<1> QED BY <1>1, RulesStay DEF CreateArea, PricingInv, Types

\* ... switched on or off, ...
LEMMA SetAreaStatusStep ==
    ASSUME PricingInv, NEW a \in Areas, NEW status \in {"on", "off"}, SetAreaStatus(a, status)
    PROVE  PricingInv'
<1>1. acts' \in 0..MaxActs
  BY Counted DEF SetAreaStatus
<1> QED BY <1>1, RulesStay DEF SetAreaStatus, PricingInv, Types

\* ... or deleted.
LEMMA DeleteAreaStep ==
    ASSUME PricingInv, NEW a \in Areas, DeleteArea(a)
    PROVE  PricingInv'
<1>1. acts' \in 0..MaxActs
  BY Counted DEF DeleteArea
<1> QED BY <1>1, RulesStay DEF DeleteArea, PricingInv, Types

\* A rule to be deactivated is found ...
LEMMA ReplaceFindsStep ==
    ASSUME PricingInv, NEW d \in Admins, NEW r \in Rules, ReplaceFinds(d, r)
    PROVE  PricingInv'
<1>1. acts' \in 0..MaxActs
  BY Counted DEF ReplaceFinds
<1> QED BY <1>1, RulesStay DEF ReplaceFinds, PricingInv, Types

\* ... and deactivated.
LEMMA DeactivatesStep ==
    ASSUME PricingInv, NEW d \in Admins, Deactivates(d)
    PROVE  PricingInv'
<1> DEFINE r == desk[d].r
           new == [rule[r] EXCEPT !.live = FALSE]
<1>1. /\ desk[d].do = "deactivate" /\ r \in Rules \cup {None}
      /\ desk' = [desk EXCEPT ![d] = Idle] /\ UNCHANGED <<area, booking, deleted, acts>>
  BY DEF Deactivates, PricingInv, Types
<1>2. /\ desk' \in [Admins -> [do : {"idle", "deactivate"}, r : Rules \cup {None}]]
      /\ acts' \in 0..MaxActs
  BY <1>1 DEF Idle, PricingInv, Types
<1>3. CASE UNCHANGED rule
  BY <1>1, <1>2, <1>3, RulesStay DEF PricingInv, Types
<1>4. CASE rule' = [rule EXCEPT ![r].live = FALSE] /\ rule[r].of # None /\ r \in Rules
  <2>1. rule[r] \in RuleType
    BY <1>4 DEF PricingInv, Types
  <2>2. new \in RuleType /\ new.of = rule[r].of
    BY <2>1 DEF RuleType
  <2>3. rule' = [rule EXCEPT ![r] = new]
    BY <1>4 DEF PricingInv, Types
  <2>4. deleted \subseteq Rules
    BY DEF PricingInv, Types
  <2> HIDE DEF new, r
  <2> QED BY <1>1, <1>2, <1>4, <2>2, <2>3, <2>4, RuleWritten
<1>5. CASE r \notin Rules
  <2>1. [rule EXCEPT ![r].live = FALSE] = rule
    BY <1>5 DEF PricingInv, Types
  <2> QED BY <1>3, <2>1 DEF Deactivates
<1> QED BY <1>1, <1>3, <1>4, <1>5 DEF Deactivates

\* A rule is edited in place, and is of an area afterwards, the same or another.
LEMMA UpdateRuleStep ==
    ASSUME PricingInv, NEW r \in Rules, NEW a \in Areas, NEW t \in Terms, NEW on \in BOOLEAN,
           NEW w \in BOOLEAN, UpdateRule(r, a, t, on, w)
    PROVE  PricingInv'
<1> DEFINE new == [of |-> a, live |-> on, whole |-> w, terms |-> t]
<1>1. /\ acts' \in 0..MaxActs /\ UNCHANGED <<area, booking, desk, deleted>>
      /\ rule' = [rule EXCEPT ![r] = new]
  BY Counted DEF UpdateRule
<1>2. t \in Asked /\ a # None
  BY PricingAssumption DEF Terms, Asked
<1>3. new \in RuleType /\ new.of # None
  BY <1>2 DEF RuleType
<1> HIDE DEF new
<1> QED BY <1>1, <1>3, RuleWritten DEF PricingInv, Types

\* A rule is deleted.
LEMMA DeleteRuleStep ==
    ASSUME PricingInv, NEW r \in Rules, DeleteRule(r)
    PROVE  PricingInv'
<1>1. /\ acts' \in 0..MaxActs /\ UNCHANGED <<area, booking, desk>>
      /\ rule' = [rule EXCEPT ![r] = NoRule] /\ deleted' = deleted \cup {r}
  BY Counted DEF DeleteRule
<1>2. NoRule \in RuleType
  BY DEF NoRule, RuleType, Asked
<1> QED BY <1>1, <1>2, RuleWritten DEF PricingInv, Types

\* It holds in the beginning.
LEMMA InitHolds == Init => PricingInv
<1> SUFFICES ASSUME Init PROVE PricingInv
  OBVIOUS
<1>1. PICK a \in Areas :
        /\ area = [x \in Areas |-> IF x = a THEN "on" ELSE "none"]
        /\ \E t \in Terms, w \in BOOLEAN, r \in Rules :
              rule = [x \in Rules |-> IF x = r THEN [of |-> a, live |-> TRUE, whole |-> w,
                terms |-> t]
                                      ELSE [NoRule EXCEPT !.of = a, !.whole = TRUE]]
  BY DEF Init
<1>2. PICK t \in Terms, w \in BOOLEAN, r \in Rules :
        rule = [x \in Rules |-> IF x = r THEN [of |-> a, live |-> TRUE, whole |-> w, terms |-> t]
                                ELSE [NoRule EXCEPT !.of = a, !.whole = TRUE]]
  BY <1>1
<1> DEFINE first == [of |-> a, live |-> TRUE, whole |-> w, terms |-> t]
           other == [NoRule EXCEPT !.of = a, !.whole = TRUE]
<1>3. first \in RuleType /\ other \in RuleType
  <2>1. t \in Asked
    BY PricingAssumption DEF Terms, Asked
  <2>2. NoRule \in RuleType
    <3>1. [hourly |-> 0, dayMax |-> 0, peak |-> 10] \in Asked
      BY DEF Asked
    <3> QED BY <3>1 DEF NoRule, RuleType
  <2>3. first \in RuleType
    BY <2>1 DEF RuleType
  <2>4. other \in RuleType
    BY <2>2 DEF RuleType
  <2> QED BY <2>3, <2>4
<1>4. rule = [x \in Rules |-> IF x = r THEN first ELSE other]
  BY <1>2
<1> HIDE DEF first, other
<1>5. Types
  <2>1. area \in [Areas -> {"none", "on", "off", "gone"}]
    BY <1>1
  <2>2. rule \in [Rules -> RuleType]
    BY <1>3, <1>4
  <2>3. booking \in [Bookings -> BookingType]
    BY NothingBooked DEF Init
  <2>4. desk \in [Admins -> [do : {"idle", "deactivate"}, r : Rules \cup {None}]]
    BY DEF Init, Idle
  <2>5. deleted \subseteq Rules /\ acts \in 0..MaxActs
    BY PricingAssumption DEF Init
  <2> QED BY <2>1, <2>2, <2>3, <2>4, <2>5 DEF Types
<1>6. Bills
  BY NothingBooked DEF Init, Bills
<1> QED BY <1>5, <1>6 DEF PricingInv

\* Every step keeps it.
LEMMA NextHolds ==
    ASSUME PricingInv, Next
    PROVE  PricingInv'
<1>1. ASSUME NEW b \in Bookings,
             \/ \E a \in Areas, dist \in Distances, lug \in Luggage, tip \in Tips, c \in Coupons :
                   SchedulePickup(b, a, dist, lug, tip, c)
             \/ \E at \in StoredAt : Stored(b, at)
             \/ \E length \in Lengths, dist \in Distances : RequestReturn(b, length, dist)
             \/ FinalCaptured(b)
      PROVE  PricingInv'
  BY <1>1, SchedulePickupStep, StoredStep, RequestReturnStep, FinalCapturedStep
<1>2. ASSUME NEW a \in Areas, CreateArea(a) \/ DeleteArea(a) \/ (\E s \in {"on",
             "off"} : SetAreaStatus(a, s))
      PROVE  PricingInv'
  BY <1>2, CreateAreaStep, DeleteAreaStep, SetAreaStatusStep
<1>3. ASSUME NEW d \in Admins,
             Deactivates(d) \/ (\E r \in Rules : ReplaceFinds(d, r) \/ DeactivateFinds(d, r))
      PROVE  PricingInv'
  BY <1>3, DeactivatesStep, ReplaceFindsStep DEF DeactivateFinds
<1>4. ASSUME NEW r \in Rules,
             DeleteRule(r) \/ UpdatesRule(r)
      PROVE  PricingInv'
  BY <1>4, DeleteRuleStep, UpdateRuleStep DEF UpdatesRule
<1> QED BY <1>1, <1>2, <1>3, <1>4 DEF Next, AdminNext, CustomerNext

\* The bills that are there stay, or are of a longer time.
Longer(k, l) ==
    k.quote # NoQuote =>
       \/ l.quote = k.quote
       \/ /\ l.quote.length >= k.quote.length
          /\ l.quote.peak = IsPeakHour(Hour(k.at, l.quote.length))
          /\ l.quote.storage = StorageCharge(k.snap, k.at, l.quote.length, None).fee

\* No step does anything else to a bill.
LEMMA BillsGrow ==
    ASSUME PricingInv, [Next]_vars, NEW b \in Bookings
    PROVE  Longer(booking[b], booking'[b])
<1>1. booking \in [Bookings -> BookingType] /\ Billed(booking[b])
  BY DEF PricingInv, Types, Bills
<1>2. CASE booking' = booking
  BY <1>2 DEF Longer
<1>3. ASSUME NEW c \in Bookings, NEW at, Stored(c, at) \/ FinalCaptured(c)
      PROVE  booking'[b].quote = booking[b].quote
  BY <1>1, <1>3 DEF Stored, FinalCaptured, BookingType
<1>4. ASSUME NEW c \in Bookings, NEW length \in Lengths, NEW dist \in Distances,
             RequestReturn(c, length, dist)
      PROVE  Longer(booking[b], booking'[b])
  <2>1. CASE b # c
    BY <1>4, <2>1, RequestReturnStep DEF Longer
  <2>2. CASE b = c
    <3>1. length >= booking[b].quote.length
      BY <1>4, <2>2 DEF RequestReturn
    <3>2. PICK q \in Quotes :
            /\ booking'[b].quote = q /\ q.length = length
            /\ q.peak = IsPeakHour(Hour(booking[b].at, length))
            /\ q.storage = StorageCharge(booking[b].snap, booking[b].at, length, None).fee
      BY <1>4, <2>2, RequestReturnStep
    <3> QED BY <3>1, <3>2 DEF Longer
  <2> QED BY <2>1, <2>2
<1>5. ASSUME NEW c \in Bookings, NEW a, NEW dist, NEW lug, NEW tip, NEW code,
             SchedulePickup(c, a, dist, lug, tip, code)
      PROVE  Longer(booking[b], booking'[b])
  <2>1. CASE b # c
    <3>1. booking'[b] = booking[b]
      BY <1>1, <1>5, <2>1 DEF SchedulePickup
    <3> QED BY <3>1 DEF Longer
  <2>2. CASE b = c
    BY <1>1, <1>5, <2>2 DEF SchedulePickup, Billed, Longer
  <2> QED BY <2>1, <2>2
<1>6. ASSUME CustomerNext PROVE Longer(booking[b], booking'[b])
  BY <1>3, <1>4, <1>5, <1>6 DEF CustomerNext, Longer
<1>7. ASSUME AdminNext PROVE booking' = booking
  BY <1>7
     DEF AdminNext, CreateArea, DeleteArea, SetAreaStatus, Deactivates, ReplaceFinds,
         DeactivateFinds, DeleteRule, UpdatesRule, UpdateRule
<1> QED BY <1>2, <1>6, <1>7 DEF Next, vars

(* The theorems. *)

\* The invariant of rules and bills is inductive: types, the rule of each booking, which
\* is there unless it was deleted, and bills that are of the snapshot kept.
THEOREM PricingInvariant == Spec => []PricingInv
<1>1. Init => PricingInv
  BY InitHolds
<1>2. PricingInv /\ [Next]_vars => PricingInv'
  <2>1. ASSUME PricingInv, UNCHANGED vars PROVE PricingInv'
    BY <2>1 DEF vars, PricingInv, Types, Bills, Snapped, Billed, Ruled
  <2> QED BY <2>1, NextHolds
<1> QED BY <1>1, <1>2, PTL DEF Spec

\* Type correctness: areas, rules, bookings and requests keep their shapes, and no
\* amount is negative.
THEOREM TypeCorrect == Spec => []TypeOK
<1>1. PricingInv => TypeOK
  BY DEF PricingInv, Types, TypeOK, RuleType, BookingType, Quotes
<1> QED BY <1>1, PricingInvariant, PTL

\* However administrators edit, move, retire and fail to replace rules at once, a customer
\* who has booked finds a rule for his bill, unless his own was deleted.
THEOREM ReturnFindsRule == Spec => []ReturnNotRefused
<1>1. PricingInv => ReturnNotRefused
  BY DEF PricingInv, Bills, Ruled, ReturnNotRefused, RuleFound
<1> QED BY <1>1, PricingInvariant, PTL

\* A customer pays for storage what the rule asked when he booked, for all rates, caps
\* and times, although the schema drops fields of the snapshot.
THEOREM TermsHold == Spec => []BookedTermsHold
<1>1. PricingInv => BookedTermsHold
  <2> SUFFICES ASSUME PricingInv, NEW b \in Bookings, booking[b].quote # NoQuote
               PROVE  booking[b].quote.storage =
                        StorageCharge(booking[b].agreed, booking[b].at, booking[b].quote.length,
                          None).fee
    BY DEF BookedTermsHold
  <2>1. Snapped(booking[b]) /\ Billed(booking[b]) /\ booking[b].agreed \in Snapshots
    BY DEF PricingInv, Types, Bills, BookingType
  <2> QED BY <2>1, FeeOfKept DEF Snapped, Billed
<1> QED BY <1>1, PricingInvariant, PTL

\* A second, later bill is no less, for all rates, caps and times: the daily cap
\* counts days begun, so that it never undoes what the hours before cost.
THEOREM LongerCostsNoLess == Spec => LongerNeverCheaper
<1>1. ASSUME PricingInv, [Next]_vars, NEW b \in Bookings, booking[b].quote # NoQuote,
             booking[b].quote.peak => booking'[b].quote.peak
      PROVE  booking'[b].quote.storage >= booking[b].quote.storage
  <2>1. /\ booking[b] \in BookingType /\ Billed(booking[b]) /\ Longer(booking[b], booking'[b])
        /\ booking'[b] \in BookingType
    <3>1. PricingInv'
      <4>1. CASE UNCHANGED vars
        BY <1>1, <4>1 DEF vars, PricingInv, Types, Bills, Snapped, Billed, Ruled
      <4> QED BY <1>1, <4>1, NextHolds
    <3> QED BY <1>1, <3>1, BillsGrow DEF PricingInv, Types, Bills
  <2>2. PICK snap \in Snapshots, l \in Nat, m \in Nat, s \in Nat :
          /\ snap = booking[b].snap /\ l = booking[b].quote.length
          /\ m = booking'[b].quote.length /\ s = booking[b].quote.storage
    BY <2>1 DEF BookingType, Quotes
  <2>3. CASE booking'[b].quote = booking[b].quote
    BY <2>2, <2>3
  <2>4. CASE booking'[b].quote # booking[b].quote
    <3>1. /\ m >= l /\ booking'[b].quote.peak = IsPeakHour(Hour(booking[b].at, m))
          /\ booking'[b].quote.storage = StorageCharge(snap, booking[b].at, m, None).fee
          /\ booking[b].quote.storage = StorageCharge(snap, booking[b].at, l, None).fee
          /\ booking[b].quote.peak = IsPeakHour(Hour(booking[b].at, l))
      BY <1>1, <2>1, <2>2, <2>4 DEF Longer, Billed
    <3>2. StorageCharge(snap, booking[b].at, l, None).fee \in Nat
      BY <2>2, FeeGrows
    <3>3. StorageCharge(snap, booking[b].at, l, None).fee
            <= StorageCharge(snap, booking[b].at, m, None).fee
      BY <1>1, <2>2, <3>1, FeeGrows
    <3>4. StorageCharge(snap, booking[b].at, m, None).fee \in Nat
      BY <2>2, FeeGrows
    <3> QED BY <3>1, <3>2, <3>3, <3>4
  <2> QED BY <2>3, <2>4
<1>2. PricingInv /\ [Next]_vars
         => [\A b \in Bookings :
               (booking[b].quote # NoQuote /\ (booking[b].quote.peak => booking'[b].quote.peak))
                  => booking'[b].quote.storage >= booking[b].quote.storage]_vars
  BY <1>1
<1> QED BY <1>2, PricingInvariant, PTL DEF Spec, LongerNeverCheaper

==============================================================================
