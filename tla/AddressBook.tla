------------------------------ MODULE AddressBook ------------------------------
(* A user's addresses and current location, kept in one document.  Adding an  *)
(* address, and the administrators' requests, are transactions on the whole   *)
(* document.  Updating and deleting one are not, and read the addresses       *)
(* without the version that would guard the write: an update writes, by       *)
(* position, the fields it changed, and a delete the whole list as it had     *)
(* been read.                                                                 *)
(*                                                                            *)
(* Of an address, its coordinates are kept; two addresses are the same if     *)
(* these are, as with their text, which is left out.                          *)
EXTENDS Integers, Sequences

CONSTANTS
    Ids,          \* addresses
    Spots,        \* coordinates
    Areas,        \* serviceable areas
    MaxAddresses, \* ADDRESS_LIMITS, and the schema's validator
    Editors,      \* requests that take more than one step
    None,
    MaxRequests   \* a bound

ASSUME AddressAssumption ==
    /\ MaxAddresses \in Nat \ {0} /\ MaxRequests \in Nat
    /\ Ids \cap {None, "hole"} = {} /\ None \notin Spots \cup Areas

VARIABLES
    list,      \* user.addresses
    location,  \* user.location: a spot, None when it is unset
    area,      \* user.service_area_id: an area, None when it is null
    lookedUp,  \* the place for which the area is what the lookup answered
    editor,
    kept,      \* addresses added and not deleted since, as their owner was told
    cleared,   \* an administrator took the default away
    whence,    \* what the location was last: the default's spot, another, unknown
    raced,     \* unguarded writes to a list other than the one read
    requests

place   == <<location, area, lookedUp>>
history == <<kept, cleared, whence, raced>>
addressVars == <<list, place, editor, history, requests>>

Hole   == [id |-> "hole", spot |-> None, default |-> FALSE]
Broken == [Hole EXCEPT !.id = None]
Free   == [do |-> "free", at |-> 0, read |-> <<>>, spot |-> None, default |-> FALSE]

AddressInit ==
    /\ list = <<>> /\ location = None /\ area = None /\ lookedUp = None
    /\ editor = [h \in Editors |-> Free]
    /\ kept = {} /\ cleared = FALSE /\ whence = "default" /\ raced = {}
    /\ requests = 0

Addresses == [id : Ids \cup {None, "hole"}, spot : Spots \cup {None}, default : BOOLEAN]

IdsOf(l) == {l[i].id : i \in DOMAIN l} \ {None, "hole"}
Position(l, a) == CHOOSE i \in DOMAIN l : l[i].id = a

\* A null in the list makes every search for an address throw; an address that
\* lacks its required fields fails the validation of the list when all of it is written.
Searchable(l) == \A i \in DOMAIN l : l[i].id # "hole"
Valid(l)      == Searchable(l) /\ \A i \in DOMAIN l : l[i].id # None

isDuplicateAddress(l, spot, own) ==
    spot # None /\ \E i \in DOMAIN l : l[i].id # own /\ l[i].spot = spot

OnlyDefault(l, a) == [i \in DOMAIN l |-> [l[i] EXCEPT !.default = (l[i].id = a)]]

\* One address moved, marked as the default or not, and taken out.
Moved(l, i, spot)  == IF spot = None THEN l ELSE [l EXCEPT ![i].spot = spot]
Marked(l, i, mark) == [l EXCEPT ![i].default = mark]
Without(l, i)      == [j \in 1..(Len(l) - 1) |-> l[IF j < i THEN j ELSE j + 1]]

\* The user is put at a place, with the area that reaches it: any, as administrators add,
\* move, switch off and delete areas at any time and leave the users alone; or none, if
\* none in force reaches it or the lookup, whose errors are swallowed, failed.
checkServiceability(spot) ==
    /\ location' = spot
    /\ area' \in Areas \cup {None} /\ lookedUp' = spot

Stay == UNCHANGED <<place, whence>>

\* user.location and user.service_area_id, if the address has coordinates.
Follow(spot) ==
    \/ spot = None /\ Stay
    \/ spot # None /\ checkServiceability(spot) /\ whence' = "default"

Away == IF whence = "unknown" THEN whence ELSE "other"

\* An address no request knows.
Unused == Ids \ (IdsOf(list) \cup kept \cup UNION {IdsOf(editor[h].read) : h \in Editors})

(* The owner's requests. *)

addAddress(a, spot, asked) ==
    /\ a \in Unused
    /\ Len(list) < MaxAddresses /\ Valid(list) /\ ~isDuplicateAddress(list, spot, None)
    /\ LET default == asked \/ list = <<>>
           added   == Append(list, [id |-> a, spot |-> spot, default |-> default])
       IN /\ list' = IF default THEN OnlyDefault(added, a) ELSE added
          /\ IF default THEN Follow(spot) ELSE Stay
    /\ kept' = kept \cup {a}
    /\ UNCHANGED <<editor, cleared, raced>>

BeginEdit(h, do, a, spot, asked) ==
    /\ editor[h] = Free
    /\ Searchable(list) /\ a \in IdsOf(list)
    /\ editor' = [editor EXCEPT ![h] =
            [do |-> do, at |-> Position(list, a), read |-> list, spot |-> spot, default |-> asked]]
    /\ UNCHANGED <<list, place, history>>

Race(h) == raced' = IF list = editor[h].read THEN raced ELSE raced \cup {editor[h].do}

\* Mutant of Positional: the whole list is written, as it had been read.
PositionalWhole(old, new) == new

Differs(old, new, i) == i \in DOMAIN old /\ old[i] # new[i]

\* How long the list is after a write by position of what differs.
Reach(old, new) ==
    CHOOSE n \in 0..(Len(list) + Len(old)) :
        /\ n >= Len(list) /\ \A i \in DOMAIN old : Differs(old, new, i) => i <= n
        /\ n = Len(list) \/ Differs(old, new, n)

\* What is there to be written to.
Base(old, new, i) ==
    IF i \in DOMAIN list THEN list[i] ELSE IF Differs(old, new, i) THEN Broken ELSE Hole

Merged(base, was, is) ==
    [id      |-> IF was.id # is.id THEN is.id ELSE base.id,
     spot    |-> IF was.spot # is.spot THEN is.spot ELSE base.spot,
     default |-> IF was.default # is.default THEN is.default ELSE base.default]

\* The document's list after a write, by position, of what differs between the
\* list read and what the request made of it.
Positional(old, new) ==
    [i \in 1..Reach(old, new) |->
        IF Differs(old, new, i) THEN Merged(Base(old, new, i), old[i], new[i])
        ELSE Base(old, new, i)]

\* "spot" None: the coordinates are not among the fields sent.
UpdateAddress(h, a, spot, asked) ==
    /\ a \in IdsOf(list)
    /\ LET i == Position(list, a) IN
       ~isDuplicateAddress(list, IF spot = None THEN list[i].spot ELSE spot, a)
    /\ BeginEdit(h, "update", a, spot, asked)

\* Mutant of WriteUpdate: the other addresses keep their mark.
WriteUpdateBesides(h) ==
    /\ editor[h].do = "update"
    /\ LET k     == editor[h]
           moved == Moved(k.read, k.at, k.spot)
           new   == IF k.default THEN Marked(moved, k.at, TRUE) ELSE moved
       IN /\ list' = Positional(k.read, new)
          /\ IF new[k.at].default THEN Follow(new[k.at].spot) ELSE Stay
    /\ Race(h)
    /\ editor' = [editor EXCEPT ![h] = Free]
    /\ UNCHANGED <<kept, cleared>>

WriteUpdate(h) ==
    /\ editor[h].do = "update"
    /\ LET k     == editor[h]
           id    == k.read[k.at].id
           moved == Moved(k.read, k.at, k.spot)
           new   == IF k.default /\ ~k.read[k.at].default THEN OnlyDefault(moved, id) ELSE moved
       IN /\ list' = Positional(k.read, new)
          /\ IF new[k.at].default THEN Follow(new[k.at].spot) ELSE Stay
    /\ Race(h)
    /\ editor' = [editor EXCEPT ![h] = Free]
    /\ UNCHANGED <<kept, cleared>>

DeleteAddress(h, a) == BeginEdit(h, "delete", a, None, FALSE)

\* The last address is gone: so are the location and its area.
Nowhere == location' = None /\ area' = None /\ lookedUp' = None

\* Mutant of WriteDelete: the location stays at the default deleted.
WriteDeleteStays(h) ==
    /\ editor[h].do = "delete"
    /\ LET k    == editor[h]
           left == Without(k.read, k.at)
           new  == IF k.read[k.at].default /\ left # <<>> THEN Marked(left, 1, TRUE) ELSE left
       IN IF ~Valid(left) THEN UNCHANGED <<list, kept, raced>>
          ELSE list' = new /\ kept' = kept \ {k.read[k.at].id} /\ Race(h)
    /\ editor' = [editor EXCEPT ![h] = Free]
    /\ UNCHANGED <<place, whence, cleared>>

WriteDelete(h) ==
    /\ editor[h].do = "delete"
    /\ LET k    == editor[h]
           left == Without(k.read, k.at)
           new  == IF k.read[k.at].default /\ left # <<>> THEN Marked(left, 1, TRUE) ELSE left
       IN IF ~Valid(left) THEN UNCHANGED <<list, place, kept, whence, raced>>
          ELSE /\ list' = new
               /\ kept' = kept \ {k.read[k.at].id}
               /\ IF left = <<>> THEN Nowhere /\ whence' = "default"
                  ELSE IF k.read[k.at].default THEN Follow(left[1].spot)
                  ELSE Stay
               /\ Race(h)
    /\ editor' = [editor EXCEPT ![h] = Free]
    /\ UNCHANGED <<cleared>>

UpdateLocation(h, a, spot) == BeginEdit(h, "locate", a, spot, FALSE)

\* The address is moved ...
WriteLocation(h) ==
    /\ editor[h].do = "locate"
    /\ LET k == editor[h] IN
       /\ list' = Positional(k.read, Moved(k.read, k.at, k.spot))
       /\ whence' = IF \E i \in DOMAIN list' : i = k.at /\ list'[i].default THEN Away ELSE whence
       /\ editor' = [editor EXCEPT ![h] = [k EXCEPT !.do = "located"]]
    /\ Race(h)
    /\ UNCHANGED <<place, kept, cleared>>

Default(l, spot) == \E i \in DOMAIN l : l[i].default /\ l[i].spot = spot

\* ... and then the user, be it the default address or not.
SetLocation(h) ==
    /\ editor[h].do = "located"
    /\ checkServiceability(editor[h].spot)
    /\ whence' = IF Default(list, location') THEN "default" ELSE "other"
    /\ editor' = [editor EXCEPT ![h] = Free]
    /\ UNCHANGED <<list, kept, cleared, raced>>

\* Of the profile, or when it is completed at sign-up (updateUserDetails).
updateProfile(spot) ==
    /\ checkServiceability(spot) /\ whence' = "other"
    /\ UNCHANGED <<list, editor, kept, cleared, raced>>

(* The administrators'. *)

\* "is_default" not sent: "same".  The area is left as it was.
updateUserAddress(a, spot, asked) ==
    /\ Valid(list) /\ a \in IdsOf(list)
    /\ LET i     == Position(list, a)
           only  == IF asked = "yes" THEN OnlyDefault(list, a) ELSE list
           moved == Moved(only, i, spot)
       IN /\ list' = IF asked = "no" THEN Marked(moved, i, FALSE) ELSE moved
          /\ cleared' = (cleared \/ (asked = "no" /\ list[i].default))
    /\ location' = IF spot = None THEN location ELSE spot
    /\ whence' = IF list' = list /\ location' = location THEN whence ELSE "unknown"
    /\ UNCHANGED <<area, lookedUp, editor, kept, raced>>

addUserAddress(a, spot, asked) ==
    /\ a \in Unused
    /\ Len(list) < MaxAddresses /\ Valid(list)
    /\ LET default == asked \/ list = <<>>
           added   == Append(list, [id |-> a, spot |-> spot, default |-> default])
       IN /\ list' = IF default THEN OnlyDefault(added, a) ELSE added
          /\ whence' = IF default THEN Away ELSE whence
    /\ kept' = kept \cup {a}
    /\ UNCHANGED <<place, editor, cleared, raced>>

deleteUserAddress(a) ==
    /\ Valid(list) /\ a \in IdsOf(list)
    /\ LET i    == Position(list, a)
           left == Without(list, i)
       IN /\ list' = IF list[i].default /\ left # <<>>
                     THEN Marked(left, Len(left), TRUE) ELSE left
          /\ whence' = IF list[i].default \/ left = <<>> THEN Away ELSE whence
    /\ kept' = kept \ {a}
    /\ UNCHANGED <<place, editor, cleared, raced>>

Request ==
    \/ \E a \in Ids, spot \in Spots \cup {None}, asked \in BOOLEAN :
          addAddress(a, spot, asked) \/ addUserAddress(a, spot, asked)
    \/ \E a \in Ids, spot \in Spots \cup {None}, asked \in {"same", "yes", "no"} :
          updateUserAddress(a, spot, asked)
    \/ \E a \in Ids : deleteUserAddress(a)
    \/ \E spot \in Spots : updateProfile(spot)
    \/ \E h \in Editors, a \in Ids :
          \/ \E spot \in Spots \cup {None}, asked \in BOOLEAN : UpdateAddress(h, a, spot, asked)
          \/ \E spot \in Spots : UpdateLocation(h, a, spot)
          \/ DeleteAddress(h, a)

AddressNext ==
    \/ Request /\ requests < MaxRequests /\ requests' = requests + 1
    \/ /\ \E h \in Editors : WriteUpdate(h) \/ WriteDelete(h) \/ WriteLocation(h) \/ SetLocation(h)
       /\ UNCHANGED requests

AddressSpec == AddressInit /\ [][AddressNext]_addressVars

(* Properties. *)

Defaults == {i \in DOMAIN list : list[i].default}

Book(l) == l \in Seq(Addresses) /\ Len(l) <= MaxAddresses

Edits ==
    [do : {"free", "update", "delete", "locate", "located"}, at : Nat, read : Seq(Addresses),
     spot : Spots \cup {None}, default : BOOLEAN]

Known(k) ==
    \/ k = Free
    \/ /\ k.do # "free"
       /\ Book(k.read) /\ k.at \in DOMAIN k.read /\ k.read[k.at].id \in Ids
       /\ k.do \in {"locate", "located"} => k.spot \in Spots

\* The list keeps to its limit, whatever is written by position, or as it was read,
\* into a list that others changed; and a request knows an address of the list it read.
AddressTypeOK ==
    /\ Book(list)
    /\ location \in Spots \cup {None} /\ area \in Areas \cup {None}
    /\ lookedUp \in Spots \cup {None}
    /\ editor \in [Editors -> Edits] /\ \A h \in Editors : Known(editor[h])
    /\ kept \subseteq Ids /\ cleared \in BOOLEAN
    /\ whence \in {"default", "other", "unknown"} /\ raced \subseteq {"update", "delete", "locate"}

\* A user has one default address: never two, unless an update or a delete wrote to a
\* list other than the one it had read, and never none, unless an administrator took it away.
OneDefault ==
    /\ raced \cap {"update", "delete"} = {} => \A i, j \in Defaults : i = j
    /\ raced = {} /\ ~cleared /\ list # <<>> => Defaults # {}

\* An address added and not deleted is in the list and a deleted one is not, unless a
\* delete wrote back the list it had read over another's change.
NothingLost == "delete" \notin raced => IdsOf(list) = kept

\* Once it follows the default address, the owner's requests that choose another, move
\* or delete it take the location along; the area orders are served from is the one looked
\* up for that location, until an administrator moves it; and without one there is no area.
LocationFollows ==
    /\ whence = "default" /\ raced = {} =>
          /\ \A i \in Defaults : list[i].spot # None => location = list[i].spot
          /\ list = <<>> => location = None
    /\ whence # "unknown" => lookedUp = location
    /\ location = None => area = None

(* The inductive invariant behind them. *)

\* No address is in a list twice, even in one that was raced.
Distinct(l) == \A i, j \in DOMAIN l : l[i].id \in Ids /\ l[i].id = l[j].id => i = j

AddressInv ==
    /\ Distinct(list) /\ \A h \in Editors : Distinct(editor[h].read)
    /\ OneDefault /\ NothingLost /\ LocationFollows

================================================================================
