------------------------------- MODULE Accounts -------------------------------
(* One phone number at one of the four portals (user, driver, store owner,     *)
(* store): the account behind it, the one-time code sent to it, the account's  *)
(* sessions, and the cached profile that lets its requests in; and the         *)
(* administrators who change the account's status meanwhile.                   *)
(*                                                                             *)
(* The portals run the same handlers with differences that matter: in which    *)
(* order the account and the code are looked at, whom they refuse, and what a  *)
(* sign-in writes.  A request under way is a record in handler; between any    *)
(* two of its steps others run, and it may end there.                          *)
EXTENDS Naturals, FiniteSets

CONSTANTS
    Handlers,     \* requests under way at once
    Tokens,       \* refresh tokens
    MaxAttempts   \* OTP_MAX_ATTEMPTS

ASSUME LimitsAssumption == MaxAttempts \in Nat \ {0} /\ IsFiniteSet(Handlers)

VARIABLES
    role,      \* the portal
    status,    \* account_status of the account, "none" while there is none
    verified,  \* its verification_status lets it sign in
    key,       \* the Redis keys of the phone number
    cached,    \* account_status in the cached profile, "none" when not cached
    sessions,  \* refresh tokens whose key is in Redis
    handler    \* the next step of each request under way

vars == <<role, status, verified, key, cached, sessions, handler>>

Roles  == {"user", "driver", "owner", "store"}
Status == {"active", "pending", "inactive", "blocked"}
Down   == {"inactive", "blocked"}

\* The code itself is right or wrong at the moment it is compared: whether one
\* is there is what is kept.
NoKeys == [code |-> FALSE, fails |-> 0, marker |-> FALSE]

Idle == [do |-> "idle", seen |-> "none", token |-> {}, left |-> {}, late |-> FALSE]

At(h, do)    == handler[h].do = do
Go(h, do)    == handler' = [handler EXCEPT ![h].do = do]
End(h)       == handler' = [handler EXCEPT ![h] = Idle]
Finish(h, x) ==
    LET k == handler[h] IN
    handler' = [handler EXCEPT ![h] =
                  IF k.left = {x} THEN Idle ELSE [k EXCEPT !.left = k.left \ {x}]]
Begin(h, do) == handler[h] = Idle /\ handler' = [handler EXCEPT ![h].do = do]

\* A request reads the account: whatever it decides, it decides on this.
Reads(h, do) == handler' = [handler EXCEPT ![h].do = do, ![h].late = FALSE]

\* The steps that act on what the account was when it was read.
Decided == {"compare", "clean", "create", "session", "write", "rotate", "new_session"}

(* Whom a portal lets sign in. *)

VerifyUser(s)          == s \notin Down

\* Mutant of VerifyDriver: nobody looks at the driver's account.
VerifyDriverAny(s) == s \in Status \cup {"none"}

VerifyDriver(s)        == s # "blocked"
VerifyStoreOwner(s, v) == s \notin {"blocked", "pending"} /\ v
\* The store's owner must be active as well: that is StoreNetwork's, and a
\* request that ends early here.
VerifyStore(s)         == s = "active"

Init ==
    /\ role \in Roles
    /\ status = "none" /\ verified = FALSE
    /\ key = NoKeys
    /\ cached = "none" /\ sessions = {}
    /\ handler = [h \in Handlers |-> Idle]

(* A code is asked for.  The limits on how often only turn requests away: one  *)
(* they refuse is one that ends early.                                         *)

Asks(h, r) == role = r /\ Begin(h, "issue")

\* A number nobody has leaves a marker.
AuthUser(h) ==
    /\ Asks(h, "user") /\ VerifyUser(status)
    /\ key' = [key EXCEPT !.marker = @ \/ status = "none"]
    /\ UNCHANGED <<role, status, verified, cached, sessions>>

SendOTPUser(h) ==
    /\ Asks(h, "user") /\ VerifyUser(status) /\ (status = "none" => key.marker)
    /\ UNCHANGED <<role, status, verified, key, cached, sessions>>

\* Mutant of AuthDriver: the pending document is written over the one that is there.
AuthDriverUpserts(h) ==
    /\ Asks(h, "driver")
    /\ status' = "pending"
    /\ UNCHANGED <<role, verified, key, cached, sessions>>

\* An unknown driver has a document from his first request on.
AuthDriver(h) ==
    /\ Asks(h, "driver") /\ VerifyDriver(status)
    /\ status' = IF status = "none" THEN "pending" ELSE status
    /\ UNCHANGED <<role, verified, key, cached, sessions>>

SendOTPDriver(h) ==
    /\ Asks(h, "driver") /\ status # "none" /\ VerifyDriver(status)
    /\ UNCHANGED <<role, status, verified, key, cached, sessions>>

RegisterStoreOwner(h) ==
    /\ Asks(h, "owner") /\ ~verified
    /\ key' = [key EXCEPT !.marker = TRUE]
    /\ UNCHANGED <<role, status, verified, cached, sessions>>

LoginStoreOwner(h) ==
    /\ Asks(h, "owner") /\ status # "none" /\ VerifyStoreOwner(status, verified)
    /\ UNCHANGED <<role, status, verified, key, cached, sessions>>

SendOTPOwner(h) ==
    /\ Asks(h, "owner") /\ key.marker
    /\ UNCHANGED <<role, status, verified, key, cached, sessions>>

\* An owner asks for a code to a new number, which nobody may have.
AskForNewNumber(h) ==
    /\ Asks(h, "owner") /\ status = "none"
    /\ UNCHANGED <<role, status, verified, key, cached, sessions>>

\* A store asks the first time as it does again.
LoginStore(h) ==
    /\ Asks(h, "store") /\ VerifyStore(status)
    /\ UNCHANGED <<role, status, verified, key, cached, sessions>>

\* A user's new code clears the failures with the old one; elsewhere they stay.
IssueOTP(h) ==
    /\ At(h, "issue")
    /\ key' = IF role = "user"
              THEN [NoKeys EXCEPT !.code = TRUE, !.marker = key.marker]
              ELSE [key EXCEPT !.code = TRUE]
    /\ End(h)
    /\ UNCHANGED <<role, status, verified, cached, sessions>>

(* A code comes back.  Drivers and stores are looked at before it is compared, *)
(* users and owners after.                                                     *)

\* Mutant of VerifyGate: the failures do not close the gate.
VerifyGateOpen(h, do) ==
    /\ Begin(h, do)
    /\ UNCHANGED <<role, status, verified, key, cached, sessions>>

\* After too many failures the code is deleted and the request refused.
VerifyGate(h, do) ==
    /\ handler[h] = Idle
    /\ IF key.fails >= MaxAttempts
       THEN key' = [key EXCEPT !.code = FALSE] /\ UNCHANGED handler
       ELSE Begin(h, do) /\ UNCHANGED key
    /\ UNCHANGED <<role, status, verified, cached, sessions>>

UserVerifies(h)   == role = "user"   /\ VerifyGate(h, "compare")
DriverVerifies(h) == role = "driver" /\ VerifyGate(h, "read_first")
OwnerVerifies(h)  == role = "owner"  /\ VerifyGate(h, "compare")
StoreVerifies(h)  == role = "store"  /\ VerifyGate(h, "read_first")
ChangeNumber(h)   == role = "owner"  /\ VerifyGate(h, "claim_compare")

\* A driver or store that may not sign in is refused, and its code stays.
ReadFirst(h) ==
    /\ At(h, "read_first")
    /\ IF status # "none" /\ (role = "driver" => VerifyDriver(status))
                          /\ (role = "store" => VerifyStore(status))
       THEN Reads(h, "compare") ELSE End(h)
    /\ UNCHANGED <<role, status, verified, key, cached, sessions>>

CompareOTP(h) ==
    /\ handler[h].do \in {"compare", "claim_compare"}
    /\ \/ /\ key' = [key EXCEPT !.fails = @ + 1]
          /\ End(h)
       \/ /\ key.code
          /\ Go(h, CASE At(h, "claim_compare") -> "claim_clean"
                     [] At(h, "compare") /\ role \in {"driver", "store"} -> "clean"
                     [] OTHER -> "read_after")
          /\ UNCHANGED key
    /\ UNCHANGED <<role, status, verified, cached, sessions>>

\* A suspended user loses his keys; a number nobody has needs its marker.
ReadUser(h) ==
    /\ role = "user" /\ At(h, "read_after")
    /\ \/ status = "none" /\ key.marker /\ Reads(h, "create") /\ UNCHANGED key
       \/ status = "none" /\ ~key.marker /\ End(h) /\ UNCHANGED key
       \/ status # "none" /\ VerifyUser(status) /\ Reads(h, "clean") /\ UNCHANGED key
       \/ ~VerifyUser(status) /\ End(h) /\ key' = NoKeys
    /\ UNCHANGED <<role, status, verified, cached, sessions>>

ReadOwner(h) ==
    /\ role = "owner" /\ At(h, "read_after")
    /\ \/ status = "none" /\ key.marker /\ Reads(h, "create")
       \/ status # "none" /\ VerifyStoreOwner(status, verified) /\ Reads(h, "clean")
       \/ ~(status = "none" /\ key.marker) /\ ~VerifyStoreOwner(status, verified) /\ End(h)
    /\ UNCHANGED <<role, status, verified, key, cached, sessions>>

\* The number is unique: of two registrations one fails.  An owner's marker goes
\* in a command of its own, which nobody else looks at in between.
CreateAccount(h) ==
    /\ At(h, "create")
    /\ IF status = "none"
       THEN /\ status' = "active" /\ verified' = TRUE
            /\ key' = [key EXCEPT !.marker = @ /\ role = "user"]
            /\ Go(h, "clean")
       ELSE End(h) /\ UNCHANGED <<status, verified, key>>
    /\ UNCHANGED <<role, cached, sessions>>

CleanupOTPKeys(h) ==
    /\ handler[h].do \in {"clean", "claim_clean"}
    /\ key' = [NoKeys EXCEPT !.marker = key.marker /\ role # "user"]
    /\ Go(h, IF At(h, "clean") THEN "session" ELSE "claim")
    /\ UNCHANGED <<role, status, verified, cached, sessions>>

\* The owner's new number, unless somebody has registered it meanwhile.
ClaimNumber(h) ==
    /\ At(h, "claim")
    /\ IF status = "none" THEN status' = "active" /\ verified' = TRUE /\ cached' = "none"
       ELSE UNCHANGED <<status, verified, cached>>
    /\ End(h)
    /\ UNCHANGED <<role, key, sessions>>

\* A refresh ends with its new session, and so does a user's sign-in, which
\* leaves his account alone; the others go on to write theirs.
GenerateTokenPair(h) ==
    /\ handler[h].do \in {"session", "new_session"}
    /\ \E t \in Tokens \ sessions : sessions' = sessions \cup {t}
    /\ IF At(h, "session") /\ role # "user"
       THEN handler' = [handler EXCEPT ![h].do = "write", ![h].left = {"account", "cache"}]
       ELSE End(h)
    /\ UNCHANGED <<role, status, verified, key, cached>>

WriteDriver(h) ==
    /\ role = "driver" /\ At(h, "write")
    /\ status' = "active" /\ verified' = TRUE
    /\ End(h)
    /\ UNCHANGED <<role, key, cached, sessions>>

WriteStore(h) ==
    /\ role = "store" /\ At(h, "write")
    /\ verified' = TRUE
    /\ End(h)
    /\ UNCHANGED <<role, status, key, cached, sessions>>

\* The owner's document and his cached profile are written without waiting for
\* one another.
WriteOwner(h) ==
    /\ role = "owner" /\ At(h, "write")
    /\ \E x \in handler[h].left :
          /\ IF x = "cache" THEN cached' = "active" /\ UNCHANGED <<status, verified>>
             ELSE status' = "active" /\ verified' = TRUE /\ UNCHANGED cached
          /\ Finish(h, x)
    /\ UNCHANGED <<role, key, sessions>>

(* Sessions. *)

\* A token whose key is gone revokes every session of the account.  Any token
\* that has no key stands for one that was spent.
RefreshToken(h, t) ==
    /\ handler[h] = Idle /\ status # "none"
    /\ IF t \in sessions
       THEN handler' = [handler EXCEPT ![h].do = "renew", ![h].token = {t}] /\ UNCHANGED sessions
       ELSE sessions' = {} /\ UNCHANGED handler
    /\ UNCHANGED <<role, status, verified, key, cached>>

\* The account is looked at again: its session is renewed, or the token goes.
Renews(h, ok) ==
    IF ok THEN Reads(h, "rotate") /\ UNCHANGED sessions
    ELSE End(h) /\ sessions' = sessions \ handler[h].token

RenewUser(h) ==
    /\ role = "user" /\ At(h, "renew")
    /\ Renews(h, VerifyUser(status))
    /\ UNCHANGED <<role, status, verified, key, cached>>

RenewDriver(h) ==
    /\ role = "driver" /\ At(h, "renew")
    /\ Renews(h, VerifyDriver(status) /\ verified)
    /\ UNCHANGED <<role, status, verified, key, cached>>

\* A store that is refused loses all its sessions.
RenewStore(h) ==
    /\ role = "store" /\ At(h, "renew")
    /\ IF VerifyStore(status) THEN Reads(h, "rotate") /\ UNCHANGED sessions
       ELSE End(h) /\ sessions' = {}
    /\ UNCHANGED <<role, status, verified, key, cached>>

\* An owner is judged by his cached profile, which is filled if it is missing
\* and dropped if he is refused.
RenewOwner(h) ==
    /\ role = "owner" /\ At(h, "renew")
    /\ LET profile == IF cached = "none" THEN status ELSE cached IN
       IF profile # "blocked" /\ verified
       THEN /\ handler' = [handler EXCEPT ![h].do = "rotate", ![h].late = profile # status]
            /\ cached' = profile /\ UNCHANGED sessions
       ELSE End(h) /\ cached' = "none" /\ sessions' = sessions \ handler[h].token
    /\ UNCHANGED <<role, status, verified, key>>

\* Nobody looks whether the token's key was still there.
RotateToken(h) ==
    /\ At(h, "rotate")
    /\ sessions' = sessions \ handler[h].token
    /\ handler' = [handler EXCEPT ![h].do = "new_session", ![h].token = {}]
    /\ UNCHANGED <<role, status, verified, key, cached>>

Logout(t) ==
    /\ role # "owner" /\ t \in sessions
    /\ sessions' = sessions \ {t}
    /\ UNCHANGED <<role, status, verified, key, cached, handler>>

\* An owner takes his cached profile with him.
OwnerLogsOut(t) ==
    /\ role = "owner" /\ t \in sessions
    /\ sessions' = sessions \ {t} /\ cached' = "none"
    /\ UNCHANGED <<role, status, verified, key, handler>>

(* The gate before every other request of the account. *)

\* With a cached profile the gate changes nothing; without one it reads the
\* account and fills the cache in a write it does not wait for.
CheckAccountStatus(h) ==
    /\ handler[h] = Idle /\ cached = "none" /\ status # "none"
    /\ handler' = [handler EXCEPT ![h].do = "fill", ![h].seen = status]
    /\ UNCHANGED <<role, status, verified, key, cached, sessions>>

\* Mutant of FillCache: what was read is not what is cached.
FillCacheActive(h) ==
    /\ At(h, "fill")
    /\ cached' = "active"
    /\ End(h)
    /\ UNCHANGED <<role, status, verified, key, sessions>>

FillCache(h) ==
    /\ At(h, "fill")
    /\ cached' = handler[h].seen
    /\ End(h)
    /\ UNCHANGED <<role, status, verified, key, sessions>>

DropsProfile(r) ==
    /\ role = r /\ status # "none"
    /\ cached' = "none"
    /\ UNCHANGED <<role, status, verified, key, sessions, handler>>

UpdateUserDetails == DropsProfile("user")
CompleteProfile   == DropsProfile("owner")

(* Administrators. *)

CreateStoreOwner ==
    /\ role = "owner" /\ status = "none"
    /\ status' = "active" /\ verified' = TRUE
    /\ UNCHANGED <<role, key, cached, sessions, handler>>

\* An administrator's store is verified, an owner's is not.
CreateStore(v) ==
    /\ role = "store" /\ status = "none"
    /\ status' = "pending" /\ verified' = v
    /\ UNCHANGED <<role, key, cached, sessions, handler>>

\* Requests that have read the account and not yet acted on it are late now.
Overtakes(h, left) ==
    handler' = [g \in Handlers |->
                  IF g = h THEN [Idle EXCEPT !.do = "revoke", !.left = left]
                  ELSE [handler[g] EXCEPT !.late = @ \/ handler[g].do \in Decided]]

\* The write, then the cached profile and the sessions, together.
SetStatus(h, to) ==
    /\ handler[h] = Idle /\ status \notin {"none", to}
    /\ status' = to
    /\ Overtakes(h, {"cache"} \cup IF to \in Down THEN {"sessions"} ELSE {})
    /\ UNCHANGED <<role, verified, key, cached, sessions>>

\* Bookings in progress, or a trip, refuse the request: it changes nothing then.
UpdateUserStatus(h, to)       == role = "user"   /\ SetStatus(h, to)
UpdateDriverStatus(h, to)     == role = "driver" /\ SetStatus(h, to)
UpdateStoreOwnerStatus(h, to) == role = "owner"  /\ SetStatus(h, to)
ToggleStoreStatus(h, to)      == role = "store"  /\ SetStatus(h, to)

BulkDeactivate(h) ==
    /\ role # "driver" /\ status = "active"
    /\ SetStatus(h, "inactive")

\* A driver on a trip is passed over, and his sessions are revoked all the same.
BulkDeactivateDrivers(h) ==
    /\ role = "driver" /\ handler[h] = Idle /\ status # "none"
    /\ status' \in {status, IF status = "active" THEN "inactive" ELSE status}
    /\ Overtakes(h, {"cache", "sessions"})
    /\ UNCHANGED <<role, verified, key, cached, sessions>>

RevokeAccess(h) ==
    /\ At(h, "revoke")
    /\ \E x \in handler[h].left :
          /\ IF x = "cache" THEN cached' = "none" /\ UNCHANGED sessions
             ELSE sessions' = {} /\ UNCHANGED cached
          /\ Finish(h, x)
    /\ UNCHANGED <<role, status, verified, key>>

\* The administrator's form may verify a driver or a store, or take that back.
AdminVerifies(v) ==
    /\ role \in {"driver", "store"} /\ status # "none"
    /\ verified' = v /\ cached' = "none"
    /\ UNCHANGED <<role, status, key, sessions, handler>>

(* Time and failure. *)

Expire ==
    /\ \/ key.code /\ key' = [key EXCEPT !.code = FALSE]
       \/ key.fails > 0 /\ key' = [key EXCEPT !.fails = 0]
       \/ key.marker /\ key' = [key EXCEPT !.marker = FALSE]
    /\ UNCHANGED <<role, status, verified, cached, sessions, handler>>

ExpireCache ==
    /\ cached # "none" /\ cached' = "none"
    /\ UNCHANGED <<role, status, verified, key, sessions, handler>>

ExpireSession(t) ==
    /\ t \in sessions /\ sessions' = sessions \ {t}
    /\ UNCHANGED <<role, status, verified, key, cached, handler>>

\* A request ends between two of its steps, by an error or with its process.
Crash(h) ==
    /\ handler[h] # Idle /\ End(h)
    /\ UNCHANGED <<role, status, verified, key, cached, sessions>>

Step(h) ==
    \/ IssueOTP(h) \/ ReadFirst(h) \/ CompareOTP(h) \/ ReadUser(h) \/ ReadOwner(h)
    \/ CreateAccount(h) \/ CleanupOTPKeys(h) \/ ClaimNumber(h) \/ GenerateTokenPair(h)
    \/ WriteDriver(h) \/ WriteStore(h) \/ WriteOwner(h)
    \/ RenewUser(h) \/ RenewDriver(h) \/ RenewStore(h) \/ RenewOwner(h) \/ RotateToken(h)
    \/ FillCache(h) \/ RevokeAccess(h)

Next ==
    \/ \E h \in Handlers :
          \/ AuthUser(h) \/ SendOTPUser(h) \/ AuthDriver(h) \/ SendOTPDriver(h)
          \/ RegisterStoreOwner(h) \/ LoginStoreOwner(h) \/ SendOTPOwner(h)
          \/ AskForNewNumber(h) \/ LoginStore(h)
          \/ UserVerifies(h) \/ DriverVerifies(h) \/ OwnerVerifies(h) \/ StoreVerifies(h)
          \/ ChangeNumber(h) \/ CheckAccountStatus(h)
          \/ \E t \in Tokens : RefreshToken(h, t)
          \/ \E to \in Status :
                \/ UpdateUserStatus(h, to) \/ UpdateDriverStatus(h, to)
                \/ UpdateStoreOwnerStatus(h, to) \/ ToggleStoreStatus(h, to)
          \/ BulkDeactivate(h) \/ BulkDeactivateDrivers(h) \/ Step(h) \/ Crash(h)
    \/ CreateStoreOwner \/ \E v \in BOOLEAN : CreateStore(v) \/ AdminVerifies(v)
    \/ \E t \in Tokens : Logout(t) \/ OwnerLogsOut(t) \/ ExpireSession(t)
    \/ UpdateUserDetails \/ CompleteProfile \/ Expire \/ ExpireCache

Spec == Init /\ [][Next]_vars

\* Redis lets its keys expire.  A request may stop wherever it is.
FairSpec ==
    /\ Spec
    /\ \A t \in Tokens : WF_vars(ExpireSession(t))
    /\ WF_vars(ExpireCache)

\* Every variable keeps its shape: documents, caches, tokens and requests under way.
TypeOK ==
    /\ role \in Roles
    /\ status \in Status \cup {"none"} /\ verified \in BOOLEAN
    /\ key \in [code : BOOLEAN, fails : Nat, marker : BOOLEAN]
    /\ cached \in Status \cup {"none"}
    /\ sessions \subseteq Tokens
    /\ \A h \in Handlers :
          /\ handler[h].seen \in Status \cup {"none"}
          /\ handler[h].late \in BOOLEAN
          /\ handler[h].token \subseteq Tokens

\* The failures are read before a code is compared and raised after: only the
\* requests under way at that moment may go over the limit.
AttemptsLimited == key.fails <= MaxAttempts + Cardinality(Handlers) - 1

\* The statuses a portal refuses.
Suspended == IF role \in {"user", "store"} THEN Down ELSE {"blocked"}

\* A suspended account gets no new session, by its code or by an older session,
\* except from a request that had read the account before it was suspended, or
\* an owner's whose cached profile was still the old one.
SuspendedGetsNoSession ==
    [][sessions' \ sessions # {} /\ status \in Suspended =>
          \E h \in Handlers : handler'[h] # handler[h] /\ handler[h].late]_vars

\* What an administrator has suspended stays so until an administrator says
\* otherwise, except for a sign-in that had read the account before.
SuspensionHolds ==
    [][status' # status /\ status \in Suspended =>
          \E h \in Handlers :
              handler'[h] # handler[h] /\ (handler[h].late \/ handler'[h].do = "revoke")]_vars

\* A suspension that stays takes hold in the end, even when the request that
\* should have revoked the sessions breaks off: no session is left and no profile
\* lets the account in any more.
SuspensionTakesHold ==
    <>[](status \in Suspended) => <>[](sessions = {} /\ cached # "active")

==============================================================================
