--------------------------- MODULE Accounts_proofs ---------------------------
(* Proofs about Accounts for any number of requests at once and any limit of   *)
(* attempts: how far the failures go, and what a suspension stops.             *)
(*                                                                             *)
(* AttemptsLimited is not inductive.  AttemptsInv counts the requests let in   *)
(* below the limit that may still fail, the Comparing ones, together with the  *)
(* failures.  Of a suspension, LateInv says that every request that goes on to *)
(* act on a suspended account read it before: its flag late is set.            *)
(*                                                                             *)
(* The last part proves the invariants of AddressBook, an account's addresses. *)
EXTENDS Accounts, AddressBook, FiniteSetTheorems, SequenceTheorems, WellFoundedInduction, TLAPS

(* Requests. *)

\* What a request does next.
Dos == {"idle", "issue", "read_first", "compare", "claim_compare", "read_after", "create",
        "clean", "claim_clean", "claim", "session", "write", "renew", "rotate",
        "new_session", "fill", "revoke"}

\* A request.
Requests == [do : Dos, seen : Status \cup {"none"}, token : SUBSET Tokens,
             left : SUBSET {"account", "cache", "sessions"}, late : BOOLEAN]

\* TypeOK, and what a request does next.
Types ==
    /\ role \in Roles
    /\ status \in Status \cup {"none"} /\ verified \in BOOLEAN
    /\ key \in [code : BOOLEAN, fails : Nat, marker : BOOLEAN]
    /\ cached \in Status \cup {"none"}
    /\ sessions \subseteq Tokens
    /\ handler \in [Handlers -> Requests]

\* The requests that will compare a code, and were let in by its failures.
Comparing == {h \in Handlers : handler[h].do \in {"read_first", "compare", "claim_compare"}}

\* Those let in while the failures allowed it are all that can still add to them.
AttemptsInv == key.fails + Cardinality(Comparing) <= MaxAttempts + Cardinality(Handlers) - 1

\* A request that has found the account fit, and has yet to act on that.
Judged(do) ==
    do \in Decided \ {"compare"} \/ (do = "compare" /\ role \in {"driver", "store"})

\* A request that goes on about a suspended account read it before.
LateInv ==
    \A h \in Handlers : Judged(handler[h].do) /\ status \in Suspended => handler[h].late

\* The inductive invariant of the module.
AccountsInv == Types /\ AttemptsInv /\ LateInv

\* Request h goes on to do, late or not; the others are as they were.
Turns(h, do, late) ==
    /\ handler' \in [Handlers -> Requests]
    /\ handler'[h].do = do /\ handler'[h].late = late
    /\ \A g \in Handlers \ {h} : handler'[g] = handler[g]

\* The fields of a request.
LEMMA Fields ==
    ASSUME Types, NEW h \in Handlers
    PROVE  /\ handler[h] \in Requests
           /\ handler[h].do \in Dos /\ handler[h].seen \in Status \cup {"none"}
           /\ handler[h].token \in SUBSET Tokens
           /\ handler[h].left \in SUBSET {"account", "cache", "sessions"}
           /\ handler[h].late \in BOOLEAN
  BY DEF Types, Requests

\* ... and of none.
LEMMA IdleFields == Idle \in Requests /\ Idle.do = "idle" /\ Idle.late = FALSE
  BY DEF Idle, Requests, Dos

\* What a write to the record of a request makes of it.
LEMMA Written ==
    ASSUME Types, NEW h \in Handlers, NEW r \in Requests, handler' = [handler EXCEPT ![h] = r]
    PROVE  Turns(h, r.do, r.late)
  BY DEF Turns, Types

\* The ways to write it: the next step,
LEMMA Goes ==
    ASSUME Types, NEW h \in Handlers, NEW do \in Dos, handler' = [handler EXCEPT ![h].do = do]
    PROVE  Turns(h, do, handler[h].late)
<1> DEFINE r == [handler[h] EXCEPT !.do = do]
<1>1. r \in Requests /\ r.do = do /\ r.late = handler[h].late
  BY Fields DEF Requests
<1>2. handler' = [handler EXCEPT ![h] = r]
  BY DEF Types
<1> HIDE DEF r
<1> QED BY <1>1, <1>2, Written

\* ... with the account just read,
LEMMA Rereads ==
    ASSUME Types, NEW h \in Handlers, NEW do \in Dos, NEW late \in BOOLEAN,
           handler' = [handler EXCEPT ![h].do = do, ![h].late = late]
    PROVE  Turns(h, do, late)
<1> DEFINE r == [handler[h] EXCEPT !.do = do, !.late = late]
<1>1. r \in Requests /\ r.do = do /\ r.late = late
  BY Fields DEF Requests
<1>2. handler' = [handler EXCEPT ![h] = r]
  BY DEF Types
<1> HIDE DEF r
<1> QED BY <1>1, <1>2, Written

\* ... with what is left to do,
LEMMA Plans ==
    ASSUME Types, NEW h \in Handlers, NEW do \in Dos,
           NEW left \in SUBSET {"account", "cache", "sessions"},
           handler' = [handler EXCEPT ![h].do = do, ![h].left = left]
    PROVE  Turns(h, do, handler[h].late)
<1> DEFINE r == [handler[h] EXCEPT !.do = do, !.left = left]
<1>1. r \in Requests /\ r.do = do /\ r.late = handler[h].late
  BY Fields DEF Requests
<1>2. handler' = [handler EXCEPT ![h] = r]
  BY DEF Types
<1> HIDE DEF r
<1> QED BY <1>1, <1>2, Written

\* ... with a token,
LEMMA Holds ==
    ASSUME Types, NEW h \in Handlers, NEW do \in Dos, NEW token \in SUBSET Tokens,
           handler' = [handler EXCEPT ![h].do = do, ![h].token = token]
    PROVE  Turns(h, do, handler[h].late)
<1> DEFINE r == [handler[h] EXCEPT !.do = do, !.token = token]
<1>1. r \in Requests /\ r.do = do /\ r.late = handler[h].late
  BY Fields DEF Requests
<1>2. handler' = [handler EXCEPT ![h] = r]
  BY DEF Types
<1> HIDE DEF r
<1> QED BY <1>1, <1>2, Written

\* ... with the status read,
LEMMA Notes ==
    ASSUME Types, NEW h \in Handlers, NEW do \in Dos, NEW seen \in Status \cup {"none"},
           handler' = [handler EXCEPT ![h].do = do, ![h].seen = seen]
    PROVE  Turns(h, do, handler[h].late)
<1> DEFINE r == [handler[h] EXCEPT !.do = do, !.seen = seen]
<1>1. r \in Requests /\ r.do = do /\ r.late = handler[h].late
  BY Fields DEF Requests
<1>2. handler' = [handler EXCEPT ![h] = r]
  BY DEF Types
<1> HIDE DEF r
<1> QED BY <1>1, <1>2, Written

\* ... or none.
LEMMA Ends ==
    ASSUME Types, NEW h \in Handlers, End(h)
    PROVE  Turns(h, "idle", FALSE)
  BY Written, IdleFields DEF End

\* Of what is left, x is done.
LEMMA Finishes ==
    ASSUME Types, NEW h \in Handlers, NEW x \in handler[h].left, Finish(h, x)
    PROVE  /\ Turns(h, "idle", FALSE) \/ Turns(h, handler[h].do, handler[h].late)
           /\ handler'[h].left # handler[h].left \/ handler'[h].do = "idle"
<1> DEFINE left == handler[h].left \ {x}
           r == [handler[h] EXCEPT !.left = handler[h].left \ {x}]
<1>1. /\ r \in Requests /\ r.do = handler[h].do /\ r.late = handler[h].late /\ r.left = left
      /\ left # handler[h].left
  BY Fields DEF Requests
<1>2. handler' = [handler EXCEPT ![h] = IF handler[h].left = {x} THEN Idle ELSE r]
  BY DEF Finish
<1>3. handler' = [handler EXCEPT ![h] = r] => handler'[h] = r
  BY DEF Types
<1> HIDE DEF r, left
<1> QED BY <1>1, <1>2, <1>3, Written, IdleFields DEF Turns

\* An administrator's write makes requests late.
LEMMA OvertakesAll ==
    ASSUME Types, NEW h \in Handlers, NEW left \in SUBSET {"account", "cache", "sessions"},
           handler[h] = Idle, Overtakes(h, left)
    PROVE  /\ handler' \in [Handlers -> Requests] /\ handler'[h].do = "revoke"
           /\ \A g \in Handlers \ {h} :
                /\ handler'[g].do = handler[g].do
                /\ handler'[g].late = (handler[g].late \/ handler[g].do \in Decided)
<1> DEFINE r == [Idle EXCEPT !.do = "revoke", !.left = left]
<1>1. r \in Requests /\ r.do = "revoke"
  BY DEF Idle, Requests, Dos
<1> HIDE DEF r
<1>2. ASSUME NEW g \in Handlers
      PROVE  /\ [handler[g] EXCEPT !.late = @ \/ handler[g].do \in Decided] \in Requests
             /\ [handler[g] EXCEPT !.late = @ \/ handler[g].do \in Decided].do = handler[g].do
             /\ [handler[g] EXCEPT !.late = @ \/ handler[g].do \in Decided].late
                   = (handler[g].late \/ handler[g].do \in Decided)
  BY <1>2, Fields DEF Requests
<1>3. handler' = [g \in Handlers |->
                    IF g = h THEN r ELSE [handler[g] EXCEPT !.late = @ \/ handler[g].do \in Decided]]
  BY DEF Overtakes, r
<1> QED BY <1>1, <1>2, <1>3

(* What each action does to the requests. *)

\* A request for a code of a user,
LEMMA AuthUserTurns ==
    ASSUME Types, NEW h \in Handlers, AuthUser(h)
    PROVE  handler[h].do = "idle" /\ Turns(h, "issue", handler[h].late)
  BY Goes, IdleFields DEF AuthUser, Asks, Begin, Dos

\* ... again,
LEMMA SendOTPUserTurns ==
    ASSUME Types, NEW h \in Handlers, SendOTPUser(h)
    PROVE  handler[h].do = "idle" /\ Turns(h, "issue", handler[h].late)
  BY Goes, IdleFields DEF SendOTPUser, Asks, Begin, Dos

\* ... of a driver,
LEMMA AuthDriverTurns ==
    ASSUME Types, NEW h \in Handlers, AuthDriver(h)
    PROVE  handler[h].do = "idle" /\ Turns(h, "issue", handler[h].late)
  BY Goes, IdleFields DEF AuthDriver, Asks, Begin, Dos

\* ... again,
LEMMA SendOTPDriverTurns ==
    ASSUME Types, NEW h \in Handlers, SendOTPDriver(h)
    PROVE  handler[h].do = "idle" /\ Turns(h, "issue", handler[h].late)
  BY Goes, IdleFields DEF SendOTPDriver, Asks, Begin, Dos

\* ... of a new owner,
LEMMA RegisterStoreOwnerTurns ==
    ASSUME Types, NEW h \in Handlers, RegisterStoreOwner(h)
    PROVE  handler[h].do = "idle" /\ Turns(h, "issue", handler[h].late)
  BY Goes, IdleFields DEF RegisterStoreOwner, Asks, Begin, Dos

\* ... of one who has registered,
LEMMA LoginStoreOwnerTurns ==
    ASSUME Types, NEW h \in Handlers, LoginStoreOwner(h)
    PROVE  handler[h].do = "idle" /\ Turns(h, "issue", handler[h].late)
  BY Goes, IdleFields DEF LoginStoreOwner, Asks, Begin, Dos

\* ... again,
LEMMA SendOTPOwnerTurns ==
    ASSUME Types, NEW h \in Handlers, SendOTPOwner(h)
    PROVE  handler[h].do = "idle" /\ Turns(h, "issue", handler[h].late)
  BY Goes, IdleFields DEF SendOTPOwner, Asks, Begin, Dos

\* ... for his new number,
LEMMA AskForNewNumberTurns ==
    ASSUME Types, NEW h \in Handlers, AskForNewNumber(h)
    PROVE  handler[h].do = "idle" /\ Turns(h, "issue", handler[h].late)
  BY Goes, IdleFields DEF AskForNewNumber, Asks, Begin, Dos

\* ... of a store, goes on to issue it.
LEMMA LoginStoreTurns ==
    ASSUME Types, NEW h \in Handlers, LoginStore(h)
    PROVE  handler[h].do = "idle" /\ Turns(h, "issue", handler[h].late)
  BY Goes, IdleFields DEF LoginStore, Asks, Begin, Dos

\* A code comes back: a user is let in to have it compared while the failures allow it,
LEMMA UserVerifiesTurns ==
    ASSUME Types, NEW h \in Handlers, UserVerifies(h)
    PROVE  \/ UNCHANGED handler
           \/ handler[h].do = "idle" /\ key.fails < MaxAttempts /\ UNCHANGED key
              /\ Turns(h, "compare", handler[h].late)
  BY Goes, IdleFields, LimitsAssumption DEF UserVerifies, VerifyGate, Begin, Dos, Types

\* ... a driver to be looked at first,
LEMMA DriverVerifiesTurns ==
    ASSUME Types, NEW h \in Handlers, DriverVerifies(h)
    PROVE  \/ UNCHANGED handler
           \/ handler[h].do = "idle" /\ key.fails < MaxAttempts /\ UNCHANGED key
              /\ Turns(h, "read_first", handler[h].late)
  BY Goes, IdleFields, LimitsAssumption
     DEF DriverVerifies, VerifyGate, Begin, Dos, Types

\* ... an owner,
LEMMA OwnerVerifiesTurns ==
    ASSUME Types, NEW h \in Handlers, OwnerVerifies(h)
    PROVE  \/ UNCHANGED handler
           \/ handler[h].do = "idle" /\ key.fails < MaxAttempts /\ UNCHANGED key
              /\ Turns(h, "compare", handler[h].late)
  BY Goes, IdleFields, LimitsAssumption DEF OwnerVerifies, VerifyGate, Begin, Dos, Types

\* ... a store,
LEMMA StoreVerifiesTurns ==
    ASSUME Types, NEW h \in Handlers, StoreVerifies(h)
    PROVE  \/ UNCHANGED handler
           \/ handler[h].do = "idle" /\ key.fails < MaxAttempts /\ UNCHANGED key
              /\ Turns(h, "read_first", handler[h].late)
  BY Goes, IdleFields, LimitsAssumption DEF StoreVerifies, VerifyGate, Begin, Dos, Types

\* ... and an owner with his new number.
LEMMA ChangeNumberTurns ==
    ASSUME Types, NEW h \in Handlers, ChangeNumber(h)
    PROVE  \/ UNCHANGED handler
           \/ handler[h].do = "idle" /\ key.fails < MaxAttempts /\ UNCHANGED key
              /\ Turns(h, "claim_compare", handler[h].late)
  BY Goes, IdleFields, LimitsAssumption DEF ChangeNumber, VerifyGate, Begin, Dos, Types

\* The code is issued.
LEMMA IssueOTPTurns ==
    ASSUME Types, NEW h \in Handlers, IssueOTP(h)
    PROVE  handler[h].do = "issue" /\ Turns(h, "idle", FALSE)
  BY Ends DEF IssueOTP, At

\* A driver or a store that is fit goes on to the comparison.
LEMMA ReadFirstTurns ==
    ASSUME Types, NEW h \in Handlers, ReadFirst(h)
    PROVE  /\ handler[h].do = "read_first"
           /\ \/ Turns(h, "idle", FALSE)
              \/ (role \in {"driver", "store"} => status \notin Suspended) /\ Turns(h, "compare",
                   FALSE)
  BY Ends, Rereads
     DEF ReadFirst, At, Reads, Dos, Types, VerifyDriver, VerifyStore, Suspended,
         Down

\* A wrong code ends the request and counts, a right one lets it go on.
LEMMA CompareOTPTurns ==
    ASSUME Types, NEW h \in Handlers, CompareOTP(h)
    PROVE  \/ /\ handler[h].do \in {"compare", "claim_compare"} /\ key'.fails = key.fails + 1
              /\ Turns(h, "idle", FALSE)
           \/ /\ UNCHANGED key /\ handler[h].do \in {"compare", "claim_compare"}
              /\ \/ handler[h].do = "compare" /\ role \in {"driver", "store"}
                    /\ Turns(h, "clean", handler[h].late)
                 \/ Turns(h, "claim_clean", handler[h].late) \/ Turns(h, "read_after",
                      handler[h].late)
<1>1. handler[h].do \in {"compare", "claim_compare"}
  BY DEF CompareOTP
<1>2. CASE key' = [key EXCEPT !.fails = @ + 1] /\ End(h)
  BY <1>1, <1>2, Ends DEF Types
<1>3. ASSUME NEW do, do = (CASE At(h, "claim_compare") -> "claim_clean"
                            [] At(h, "compare") /\ role \in {"driver", "store"} -> "clean"
                            [] OTHER -> "read_after"),
             Go(h, do), UNCHANGED key
      PROVE  \/ handler[h].do = "compare" /\ role \in {"driver", "store"}
                /\ Turns(h, "clean", handler[h].late)
             \/ Turns(h, "claim_clean", handler[h].late) \/ Turns(h, "read_after", handler[h].late)
  <2>1. /\ do \in {"claim_clean", "clean", "read_after"}
        /\ do = "clean" => handler[h].do = "compare" /\ role \in {"driver", "store"}
    BY <1>1, <1>3 DEF At
  <2>2. Turns(h, do, handler[h].late)
    BY <1>3, <2>1, Goes DEF Go, Dos
  <2> QED BY <2>1, <2>2
<1> QED BY <1>1, <1>2, <1>3 DEF CompareOTP

\* A user that is fit goes on,
LEMMA ReadUserTurns ==
    ASSUME Types, NEW h \in Handlers, ReadUser(h)
    PROVE  /\ handler[h].do = "read_after"
           /\ \/ Turns(h, "idle", FALSE)
              \/ status \notin Suspended /\ (Turns(h, "create", FALSE) \/ Turns(h, "clean", FALSE))
  BY Ends, Rereads DEF ReadUser, At, Reads, Dos, VerifyUser, Suspended, Down

\* ... and so does an owner.
LEMMA ReadOwnerTurns ==
    ASSUME Types, NEW h \in Handlers, ReadOwner(h)
    PROVE  /\ handler[h].do = "read_after"
           /\ \/ Turns(h, "idle", FALSE)
              \/ status \notin Suspended /\ (Turns(h, "create", FALSE) \/ Turns(h, "clean", FALSE))
  BY Ends, Rereads DEF ReadOwner, At, Reads, Dos, VerifyStoreOwner, Suspended, Down

\* An account is created, unless somebody was faster.
LEMMA CreateAccountTurns ==
    ASSUME Types, NEW h \in Handlers, CreateAccount(h)
    PROVE  /\ handler[h].do = "create"
           /\ \/ Turns(h, "idle", FALSE) /\ UNCHANGED status
              \/ status = "none" /\ Turns(h, "clean", handler[h].late)
  BY Ends, Goes DEF CreateAccount, At, Go, Dos

\* The keys are cleaned up.
LEMMA CleanupOTPKeysTurns ==
    ASSUME Types, NEW h \in Handlers, CleanupOTPKeys(h)
    PROVE  \/ handler[h].do = "clean" /\ Turns(h, "session", handler[h].late)
           \/ handler[h].do = "claim_clean" /\ Turns(h, "claim", handler[h].late)
  BY Goes DEF CleanupOTPKeys, At, Go, Dos

\* The new number is claimed.
LEMMA ClaimNumberTurns ==
    ASSUME Types, NEW h \in Handlers, ClaimNumber(h)
    PROVE  handler[h].do = "claim" /\ Turns(h, "idle", FALSE)
  BY Ends DEF ClaimNumber, At

\* A session is opened: of a sign-in with an account to write, or the last step.
LEMMA GenerateTokenPairTurns ==
    ASSUME Types, NEW h \in Handlers, GenerateTokenPair(h)
    PROVE  /\ handler[h].do \in {"session", "new_session"}
           /\ Turns(h, "idle", FALSE) \/ (handler[h].do = "session" /\ Turns(h, "write",
                handler[h].late))
<1>1. handler[h].do \in {"session", "new_session"}
  BY DEF GenerateTokenPair
<1>2. CASE End(h)
  BY <1>1, <1>2, Ends
<1>3. CASE ~End(h)
  <2> DEFINE left == {"account", "cache"}
  <2>1. left \in SUBSET {"account", "cache", "sessions"}
    OBVIOUS
  <2>2. /\ handler[h].do = "session"
        /\ handler' = [handler EXCEPT ![h].do = "write", ![h].left = left]
    BY <1>3 DEF GenerateTokenPair, At
  <2> HIDE DEF left
  <2> QED BY <2>1, <2>2, Plans DEF Dos
<1> QED BY <1>2, <1>3

\* A driver's account is written,
LEMMA WriteDriverTurns ==
    ASSUME Types, NEW h \in Handlers, WriteDriver(h)
    PROVE  handler[h].do = "write" /\ Turns(h, "idle", FALSE)
  BY Ends DEF WriteDriver, At

\* ... a store's,
LEMMA WriteStoreTurns ==
    ASSUME Types, NEW h \in Handlers, WriteStore(h)
    PROVE  handler[h].do = "write" /\ Turns(h, "idle", FALSE)
  BY Ends DEF WriteStore, At

\* ... an owner's and his cached profile.
LEMMA WriteOwnerTurns ==
    ASSUME Types, NEW h \in Handlers, WriteOwner(h)
    PROVE  /\ handler[h].do = "write" /\ handler'[h] # handler[h]
           /\ Turns(h, "idle", FALSE) \/ Turns(h, handler[h].do, handler[h].late)
  BY Finishes DEF WriteOwner, At

\* A session is refreshed: the request goes on to look at the account,
LEMMA RefreshTokenTurns ==
    ASSUME Types, NEW h \in Handlers, NEW t \in Tokens, RefreshToken(h, t)
    PROVE  \/ UNCHANGED handler
           \/ handler[h].do = "idle" /\ Turns(h, "renew", handler[h].late)
<1> DEFINE token == {t}
<1>1. token \in SUBSET Tokens
  OBVIOUS
<1>2. /\ handler[h].do = "idle"
      /\ UNCHANGED handler \/ handler' = [handler EXCEPT ![h].do = "renew", ![h].token = token]
  BY IdleFields DEF RefreshToken
<1> HIDE DEF token
<1> QED BY <1>1, <1>2, Holds DEF Dos

\* ... a user's,
LEMMA RenewUserTurns ==
    ASSUME Types, NEW h \in Handlers, RenewUser(h)
    PROVE  /\ handler[h].do = "renew"
           /\ Turns(h, "idle", FALSE) \/ (status \notin Suspended /\ Turns(h, "rotate", FALSE))
  BY Ends, Rereads DEF RenewUser, At, Renews, Reads, Dos, VerifyUser, Suspended, Down

\* ... a driver's,
LEMMA RenewDriverTurns ==
    ASSUME Types, NEW h \in Handlers, RenewDriver(h)
    PROVE  /\ handler[h].do = "renew"
           /\ Turns(h, "idle", FALSE) \/ (status \notin Suspended /\ Turns(h, "rotate", FALSE))
  BY Ends, Rereads
     DEF RenewDriver, At, Renews, Reads, Dos, VerifyDriver, Suspended, Down

\* ... a store's,
LEMMA RenewStoreTurns ==
    ASSUME Types, NEW h \in Handlers, RenewStore(h)
    PROVE  /\ handler[h].do = "renew"
           /\ Turns(h, "idle", FALSE) \/ (status \notin Suspended /\ Turns(h, "rotate", FALSE))
  BY Ends, Rereads DEF RenewStore, At, Renews, Reads, Dos, VerifyStore, Suspended, Down

\* ... or an owner's cached profile, which may be old.
LEMMA RenewOwnerTurns ==
    ASSUME Types, NEW h \in Handlers, RenewOwner(h)
    PROVE  /\ handler[h].do = "renew"
           /\ \/ Turns(h, "idle", FALSE)
              \/ \E late \in BOOLEAN : (late \/ status \notin Suspended) /\ Turns(h, "rotate", late)
<1>1. handler[h].do = "renew"
  BY DEF RenewOwner, At
<1>2. CASE End(h)
  BY <1>1, <1>2, Ends
<1>3. CASE ~End(h)
  <2> DEFINE profile == IF cached = "none" THEN status ELSE cached
             late == profile # status
  <2>1. /\ profile # "blocked" /\ role = "owner"
        /\ handler' = [handler EXCEPT ![h].do = "rotate", ![h].late = late]
    BY <1>3 DEF RenewOwner
  <2>2. late \in BOOLEAN /\ (late \/ status \notin Suspended)
    BY <2>1 DEF Suspended
  <2> HIDE DEF late
  <2>3. Turns(h, "rotate", late)
    BY <2>1, <2>2, Rereads DEF Dos
  <2> QED BY <1>1, <2>2, <2>3
<1> QED BY <1>2, <1>3

\* The token is spent.
LEMMA RotateTokenTurns ==
    ASSUME Types, NEW h \in Handlers, RotateToken(h)
    PROVE  handler[h].do = "rotate" /\ Turns(h, "new_session", handler[h].late)
<1> DEFINE token == {}
<1>1. token \in SUBSET Tokens
  OBVIOUS
<1>2. /\ handler[h].do = "rotate"
      /\ handler' = [handler EXCEPT ![h].do = "new_session", ![h].token = token]
  BY DEF RotateToken, At
<1> HIDE DEF token
<1> QED BY <1>1, <1>2, Holds DEF Dos

\* The gate reads the account,
LEMMA CheckAccountStatusTurns ==
    ASSUME Types, NEW h \in Handlers, CheckAccountStatus(h)
    PROVE  handler[h].do = "idle" /\ Turns(h, "fill", handler[h].late)
  BY Notes, IdleFields DEF CheckAccountStatus, Dos, Types

\* ... and fills the cache.
LEMMA FillCacheTurns ==
    ASSUME Types, NEW h \in Handlers, FillCache(h)
    PROVE  handler[h].do = "fill" /\ Turns(h, "idle", FALSE)
  BY Ends DEF FillCache, At

\* What a suspension takes away is taken.
LEMMA RevokeAccessTurns ==
    ASSUME Types, NEW h \in Handlers, RevokeAccess(h)
    PROVE  /\ handler[h].do = "revoke"
           /\ Turns(h, "idle", FALSE) \/ Turns(h, handler[h].do, handler[h].late)
  BY Finishes DEF RevokeAccess, At

\* A request breaks off.
LEMMA CrashTurns ==
    ASSUME Types, NEW h \in Handlers, Crash(h)
    PROVE  Turns(h, "idle", FALSE)
  BY Ends DEF Crash

\* An administrator sets the status of a user,
LEMMA UpdateUserStatusTurns ==
    ASSUME Types, NEW h \in Handlers, NEW to \in Status, UpdateUserStatus(h, to)
    PROVE  /\ handler[h] = Idle /\ handler' \in [Handlers -> Requests] /\ handler'[h].do = "revoke"
           /\ \A g \in Handlers \ {h} :
                /\ handler'[g].do = handler[g].do
                /\ handler'[g].late = (handler[g].late \/ handler[g].do \in Decided)
  BY OvertakesAll DEF UpdateUserStatus, SetStatus

\* ... a driver,
LEMMA UpdateDriverStatusTurns ==
    ASSUME Types, NEW h \in Handlers, NEW to \in Status, UpdateDriverStatus(h, to)
    PROVE  /\ handler[h] = Idle /\ handler' \in [Handlers -> Requests] /\ handler'[h].do = "revoke"
           /\ \A g \in Handlers \ {h} :
                /\ handler'[g].do = handler[g].do
                /\ handler'[g].late = (handler[g].late \/ handler[g].do \in Decided)
  BY OvertakesAll DEF UpdateDriverStatus, SetStatus

\* ... an owner,
LEMMA UpdateStoreOwnerStatusTurns ==
    ASSUME Types, NEW h \in Handlers, NEW to \in Status, UpdateStoreOwnerStatus(h, to)
    PROVE  /\ handler[h] = Idle /\ handler' \in [Handlers -> Requests] /\ handler'[h].do = "revoke"
           /\ \A g \in Handlers \ {h} :
                /\ handler'[g].do = handler[g].do
                /\ handler'[g].late = (handler[g].late \/ handler[g].do \in Decided)
  BY OvertakesAll DEF UpdateStoreOwnerStatus, SetStatus

\* ... a store,
LEMMA ToggleStoreStatusTurns ==
    ASSUME Types, NEW h \in Handlers, NEW to \in Status, ToggleStoreStatus(h, to)
    PROVE  /\ handler[h] = Idle /\ handler' \in [Handlers -> Requests] /\ handler'[h].do = "revoke"
           /\ \A g \in Handlers \ {h} :
                /\ handler'[g].do = handler[g].do
                /\ handler'[g].late = (handler[g].late \/ handler[g].do \in Decided)
  BY OvertakesAll DEF ToggleStoreStatus, SetStatus

\* ... or of many,
LEMMA BulkDeactivateTurns ==
    ASSUME Types, NEW h \in Handlers, BulkDeactivate(h)
    PROVE  /\ handler[h] = Idle /\ handler' \in [Handlers -> Requests] /\ handler'[h].do = "revoke"
           /\ \A g \in Handlers \ {h} :
                /\ handler'[g].do = handler[g].do
                /\ handler'[g].late = (handler[g].late \/ handler[g].do \in Decided)
  BY OvertakesAll DEF BulkDeactivate, SetStatus

\* ... and the requests that read it before are late.
LEMMA BulkDeactivateDriversTurns ==
    ASSUME Types, NEW h \in Handlers, BulkDeactivateDrivers(h)
    PROVE  /\ handler[h] = Idle /\ handler' \in [Handlers -> Requests] /\ handler'[h].do = "revoke"
           /\ \A g \in Handlers \ {h} :
                /\ handler'[g].do = handler[g].do
                /\ handler'[g].late = (handler[g].late \/ handler[g].do \in Decided)
  BY OvertakesAll DEF BulkDeactivateDrivers

\* Every action keeps the types.
LEMMA TypeStep == Types /\ [Next]_vars => Types'
<1> SUFFICES ASSUME Types, [Next]_vars PROVE Types'
  OBVIOUS
<1>1. ASSUME NEW h \in Handlers, AuthUser(h) PROVE Types'
  <2>1. /\ role' \in Roles /\ status' \in Status \cup {"none"} /\ verified' \in BOOLEAN
        /\ cached' \in Status \cup {"none"} /\ sessions' \subseteq Tokens
    BY <1>1 DEF Types, AuthUser, Status
  <2>2. key' \in [code : BOOLEAN, fails : Nat, marker : BOOLEAN]
    BY <1>1 DEF Types, AuthUser, NoKeys
  <2>3. handler' \in [Handlers -> Requests]
    BY <1>1, AuthUserTurns DEF Types, Turns
  <2> QED BY <2>1, <2>2, <2>3 DEF Types
<1>2. ASSUME NEW h \in Handlers, SendOTPUser(h) PROVE Types'
  <2>1. /\ role' \in Roles /\ status' \in Status \cup {"none"} /\ verified' \in BOOLEAN
        /\ cached' \in Status \cup {"none"} /\ sessions' \subseteq Tokens
    BY <1>2 DEF Types, SendOTPUser, Status
  <2>2. key' \in [code : BOOLEAN, fails : Nat, marker : BOOLEAN]
    BY <1>2 DEF Types, SendOTPUser, NoKeys
  <2>3. handler' \in [Handlers -> Requests]
    BY <1>2, SendOTPUserTurns DEF Types, Turns
  <2> QED BY <2>1, <2>2, <2>3 DEF Types
<1>3. ASSUME NEW h \in Handlers, AuthDriver(h) PROVE Types'
  <2>1. /\ role' \in Roles /\ status' \in Status \cup {"none"} /\ verified' \in BOOLEAN
        /\ cached' \in Status \cup {"none"} /\ sessions' \subseteq Tokens
    BY <1>3 DEF Types, AuthDriver, Status
  <2>2. key' \in [code : BOOLEAN, fails : Nat, marker : BOOLEAN]
    BY <1>3 DEF Types, AuthDriver, NoKeys
  <2>3. handler' \in [Handlers -> Requests]
    BY <1>3, AuthDriverTurns DEF Types, Turns
  <2> QED BY <2>1, <2>2, <2>3 DEF Types
<1>4. ASSUME NEW h \in Handlers, SendOTPDriver(h) PROVE Types'
  <2>1. /\ role' \in Roles /\ status' \in Status \cup {"none"} /\ verified' \in BOOLEAN
        /\ cached' \in Status \cup {"none"} /\ sessions' \subseteq Tokens
    BY <1>4 DEF Types, SendOTPDriver, Status
  <2>2. key' \in [code : BOOLEAN, fails : Nat, marker : BOOLEAN]
    BY <1>4 DEF Types, SendOTPDriver, NoKeys
  <2>3. handler' \in [Handlers -> Requests]
    BY <1>4, SendOTPDriverTurns DEF Types, Turns
  <2> QED BY <2>1, <2>2, <2>3 DEF Types
<1>5. ASSUME NEW h \in Handlers, RegisterStoreOwner(h) PROVE Types'
  <2>1. /\ role' \in Roles /\ status' \in Status \cup {"none"} /\ verified' \in BOOLEAN
        /\ cached' \in Status \cup {"none"} /\ sessions' \subseteq Tokens
    BY <1>5 DEF Types, RegisterStoreOwner, Status
  <2>2. key' \in [code : BOOLEAN, fails : Nat, marker : BOOLEAN]
    BY <1>5 DEF Types, RegisterStoreOwner, NoKeys
  <2>3. handler' \in [Handlers -> Requests]
    BY <1>5, RegisterStoreOwnerTurns DEF Types, Turns
  <2> QED BY <2>1, <2>2, <2>3 DEF Types
<1>6. ASSUME NEW h \in Handlers, LoginStoreOwner(h) PROVE Types'
  <2>1. /\ role' \in Roles /\ status' \in Status \cup {"none"} /\ verified' \in BOOLEAN
        /\ cached' \in Status \cup {"none"} /\ sessions' \subseteq Tokens
    BY <1>6 DEF Types, LoginStoreOwner, Status
  <2>2. key' \in [code : BOOLEAN, fails : Nat, marker : BOOLEAN]
    BY <1>6 DEF Types, LoginStoreOwner, NoKeys
  <2>3. handler' \in [Handlers -> Requests]
    BY <1>6, LoginStoreOwnerTurns DEF Types, Turns
  <2> QED BY <2>1, <2>2, <2>3 DEF Types
<1>7. ASSUME NEW h \in Handlers, SendOTPOwner(h) PROVE Types'
  <2>1. /\ role' \in Roles /\ status' \in Status \cup {"none"} /\ verified' \in BOOLEAN
        /\ cached' \in Status \cup {"none"} /\ sessions' \subseteq Tokens
    BY <1>7 DEF Types, SendOTPOwner, Status
  <2>2. key' \in [code : BOOLEAN, fails : Nat, marker : BOOLEAN]
    BY <1>7 DEF Types, SendOTPOwner, NoKeys
  <2>3. handler' \in [Handlers -> Requests]
    BY <1>7, SendOTPOwnerTurns DEF Types, Turns
  <2> QED BY <2>1, <2>2, <2>3 DEF Types
<1>8. ASSUME NEW h \in Handlers, AskForNewNumber(h) PROVE Types'
  <2>1. /\ role' \in Roles /\ status' \in Status \cup {"none"} /\ verified' \in BOOLEAN
        /\ cached' \in Status \cup {"none"} /\ sessions' \subseteq Tokens
    BY <1>8 DEF Types, AskForNewNumber, Status
  <2>2. key' \in [code : BOOLEAN, fails : Nat, marker : BOOLEAN]
    BY <1>8 DEF Types, AskForNewNumber, NoKeys
  <2>3. handler' \in [Handlers -> Requests]
    BY <1>8, AskForNewNumberTurns DEF Types, Turns
  <2> QED BY <2>1, <2>2, <2>3 DEF Types
<1>9. ASSUME NEW h \in Handlers, LoginStore(h) PROVE Types'
  <2>1. /\ role' \in Roles /\ status' \in Status \cup {"none"} /\ verified' \in BOOLEAN
        /\ cached' \in Status \cup {"none"} /\ sessions' \subseteq Tokens
    BY <1>9 DEF Types, LoginStore, Status
  <2>2. key' \in [code : BOOLEAN, fails : Nat, marker : BOOLEAN]
    BY <1>9 DEF Types, LoginStore, NoKeys
  <2>3. handler' \in [Handlers -> Requests]
    BY <1>9, LoginStoreTurns DEF Types, Turns
  <2> QED BY <2>1, <2>2, <2>3 DEF Types
<1>10. ASSUME NEW h \in Handlers, UserVerifies(h) PROVE Types'
  <2>1. /\ role' \in Roles /\ status' \in Status \cup {"none"} /\ verified' \in BOOLEAN
        /\ cached' \in Status \cup {"none"} /\ sessions' \subseteq Tokens
    BY <1>10 DEF Types, UserVerifies, VerifyGate, Status
  <2>2. key' \in [code : BOOLEAN, fails : Nat, marker : BOOLEAN]
    BY <1>10 DEF Types, UserVerifies, VerifyGate, NoKeys
  <2>3. handler' \in [Handlers -> Requests]
    BY <1>10, UserVerifiesTurns DEF Types, Turns
  <2> QED BY <2>1, <2>2, <2>3 DEF Types
<1>11. ASSUME NEW h \in Handlers, DriverVerifies(h) PROVE Types'
  <2>1. /\ role' \in Roles /\ status' \in Status \cup {"none"} /\ verified' \in BOOLEAN
        /\ cached' \in Status \cup {"none"} /\ sessions' \subseteq Tokens
    BY <1>11 DEF Types, DriverVerifies, VerifyGate, Status
  <2>2. key' \in [code : BOOLEAN, fails : Nat, marker : BOOLEAN]
    BY <1>11 DEF Types, DriverVerifies, VerifyGate, NoKeys
  <2>3. handler' \in [Handlers -> Requests]
    BY <1>11, DriverVerifiesTurns DEF Types, Turns
  <2> QED BY <2>1, <2>2, <2>3 DEF Types
<1>12. ASSUME NEW h \in Handlers, OwnerVerifies(h) PROVE Types'
  <2>1. /\ role' \in Roles /\ status' \in Status \cup {"none"} /\ verified' \in BOOLEAN
        /\ cached' \in Status \cup {"none"} /\ sessions' \subseteq Tokens
    BY <1>12 DEF Types, OwnerVerifies, VerifyGate, Status
  <2>2. key' \in [code : BOOLEAN, fails : Nat, marker : BOOLEAN]
    BY <1>12 DEF Types, OwnerVerifies, VerifyGate, NoKeys
  <2>3. handler' \in [Handlers -> Requests]
    BY <1>12, OwnerVerifiesTurns DEF Types, Turns
  <2> QED BY <2>1, <2>2, <2>3 DEF Types
<1>13. ASSUME NEW h \in Handlers, StoreVerifies(h) PROVE Types'
  <2>1. /\ role' \in Roles /\ status' \in Status \cup {"none"} /\ verified' \in BOOLEAN
        /\ cached' \in Status \cup {"none"} /\ sessions' \subseteq Tokens
    BY <1>13 DEF Types, StoreVerifies, VerifyGate, Status
  <2>2. key' \in [code : BOOLEAN, fails : Nat, marker : BOOLEAN]
    BY <1>13 DEF Types, StoreVerifies, VerifyGate, NoKeys
  <2>3. handler' \in [Handlers -> Requests]
    BY <1>13, StoreVerifiesTurns DEF Types, Turns
  <2> QED BY <2>1, <2>2, <2>3 DEF Types
<1>14. ASSUME NEW h \in Handlers, ChangeNumber(h) PROVE Types'
  <2>1. /\ role' \in Roles /\ status' \in Status \cup {"none"} /\ verified' \in BOOLEAN
        /\ cached' \in Status \cup {"none"} /\ sessions' \subseteq Tokens
    BY <1>14 DEF Types, ChangeNumber, VerifyGate, Status
  <2>2. key' \in [code : BOOLEAN, fails : Nat, marker : BOOLEAN]
    BY <1>14 DEF Types, ChangeNumber, VerifyGate, NoKeys
  <2>3. handler' \in [Handlers -> Requests]
    BY <1>14, ChangeNumberTurns DEF Types, Turns
  <2> QED BY <2>1, <2>2, <2>3 DEF Types
<1>15. ASSUME NEW h \in Handlers, IssueOTP(h) PROVE Types'
  <2>1. /\ role' \in Roles /\ status' \in Status \cup {"none"} /\ verified' \in BOOLEAN
        /\ cached' \in Status \cup {"none"} /\ sessions' \subseteq Tokens
    BY <1>15 DEF Types, IssueOTP, Status
  <2>2. key' \in [code : BOOLEAN, fails : Nat, marker : BOOLEAN]
    BY <1>15 DEF Types, IssueOTP, NoKeys
  <2>3. handler' \in [Handlers -> Requests]
    BY <1>15, IssueOTPTurns DEF Types, Turns
  <2> QED BY <2>1, <2>2, <2>3 DEF Types
<1>16. ASSUME NEW h \in Handlers, ReadFirst(h) PROVE Types'
  <2>1. /\ role' \in Roles /\ status' \in Status \cup {"none"} /\ verified' \in BOOLEAN
        /\ cached' \in Status \cup {"none"} /\ sessions' \subseteq Tokens
    BY <1>16 DEF Types, ReadFirst, Status
  <2>2. key' \in [code : BOOLEAN, fails : Nat, marker : BOOLEAN]
    BY <1>16 DEF Types, ReadFirst, NoKeys
  <2>3. handler' \in [Handlers -> Requests]
    BY <1>16, ReadFirstTurns DEF Types, Turns
  <2> QED BY <2>1, <2>2, <2>3 DEF Types
<1>17. ASSUME NEW h \in Handlers, CompareOTP(h) PROVE Types'
  <2>1. /\ role' \in Roles /\ status' \in Status \cup {"none"} /\ verified' \in BOOLEAN
        /\ cached' \in Status \cup {"none"} /\ sessions' \subseteq Tokens
    BY <1>17 DEF Types, CompareOTP, Status
  <2>2. key' \in [code : BOOLEAN, fails : Nat, marker : BOOLEAN]
    BY <1>17 DEF Types, CompareOTP, NoKeys
  <2>3. handler' \in [Handlers -> Requests]
    BY <1>17, CompareOTPTurns DEF Types, Turns
  <2> QED BY <2>1, <2>2, <2>3 DEF Types
<1>18. ASSUME NEW h \in Handlers, ReadUser(h) PROVE Types'
  <2>1. /\ role' \in Roles /\ status' \in Status \cup {"none"} /\ verified' \in BOOLEAN
        /\ cached' \in Status \cup {"none"} /\ sessions' \subseteq Tokens
    BY <1>18 DEF Types, ReadUser, Status
  <2>2. key' \in [code : BOOLEAN, fails : Nat, marker : BOOLEAN]
    <3>1. key' = key \/ key' = NoKeys
      BY <1>18 DEF ReadUser
    <3>2. NoKeys \in [code : BOOLEAN, fails : Nat, marker : BOOLEAN]
      BY DEF NoKeys
    <3> QED BY <3>1, <3>2 DEF Types
  <2>3. handler' \in [Handlers -> Requests]
    BY <1>18, ReadUserTurns DEF Types, Turns
  <2> QED BY <2>1, <2>2, <2>3 DEF Types
<1>19. ASSUME NEW h \in Handlers, ReadOwner(h) PROVE Types'
  <2>1. /\ role' \in Roles /\ status' \in Status \cup {"none"} /\ verified' \in BOOLEAN
        /\ cached' \in Status \cup {"none"} /\ sessions' \subseteq Tokens
    BY <1>19 DEF Types, ReadOwner, Status
  <2>2. key' \in [code : BOOLEAN, fails : Nat, marker : BOOLEAN]
    BY <1>19 DEF Types, ReadOwner, NoKeys
  <2>3. handler' \in [Handlers -> Requests]
    BY <1>19, ReadOwnerTurns DEF Types, Turns
  <2> QED BY <2>1, <2>2, <2>3 DEF Types
<1>20. ASSUME NEW h \in Handlers, CreateAccount(h) PROVE Types'
  <2>1. /\ role' \in Roles /\ status' \in Status \cup {"none"} /\ verified' \in BOOLEAN
        /\ cached' \in Status \cup {"none"} /\ sessions' \subseteq Tokens
    BY <1>20 DEF Types, CreateAccount, Status
  <2>2. key' \in [code : BOOLEAN, fails : Nat, marker : BOOLEAN]
    BY <1>20 DEF Types, CreateAccount, NoKeys
  <2>3. handler' \in [Handlers -> Requests]
    BY <1>20, CreateAccountTurns DEF Types, Turns
  <2> QED BY <2>1, <2>2, <2>3 DEF Types
<1>21. ASSUME NEW h \in Handlers, CleanupOTPKeys(h) PROVE Types'
  <2>1. /\ role' \in Roles /\ status' \in Status \cup {"none"} /\ verified' \in BOOLEAN
        /\ cached' \in Status \cup {"none"} /\ sessions' \subseteq Tokens
    BY <1>21 DEF Types, CleanupOTPKeys, Status
  <2>2. key' \in [code : BOOLEAN, fails : Nat, marker : BOOLEAN]
    BY <1>21 DEF Types, CleanupOTPKeys, NoKeys
  <2>3. handler' \in [Handlers -> Requests]
    BY <1>21, CleanupOTPKeysTurns DEF Types, Turns
  <2> QED BY <2>1, <2>2, <2>3 DEF Types
<1>22. ASSUME NEW h \in Handlers, ClaimNumber(h) PROVE Types'
  <2>1. /\ role' \in Roles /\ status' \in Status \cup {"none"} /\ verified' \in BOOLEAN
        /\ cached' \in Status \cup {"none"} /\ sessions' \subseteq Tokens
    BY <1>22 DEF Types, ClaimNumber, Status
  <2>2. key' \in [code : BOOLEAN, fails : Nat, marker : BOOLEAN]
    BY <1>22 DEF Types, ClaimNumber, NoKeys
  <2>3. handler' \in [Handlers -> Requests]
    BY <1>22, ClaimNumberTurns DEF Types, Turns
  <2> QED BY <2>1, <2>2, <2>3 DEF Types
<1>23. ASSUME NEW h \in Handlers, GenerateTokenPair(h) PROVE Types'
  <2>1. /\ role' \in Roles /\ status' \in Status \cup {"none"} /\ verified' \in BOOLEAN
        /\ cached' \in Status \cup {"none"} /\ sessions' \subseteq Tokens
    BY <1>23 DEF Types, GenerateTokenPair, Status
  <2>2. key' \in [code : BOOLEAN, fails : Nat, marker : BOOLEAN]
    BY <1>23 DEF Types, GenerateTokenPair, NoKeys
  <2>3. handler' \in [Handlers -> Requests]
    BY <1>23, GenerateTokenPairTurns DEF Types, Turns
  <2> QED BY <2>1, <2>2, <2>3 DEF Types
<1>24. ASSUME NEW h \in Handlers, WriteDriver(h) PROVE Types'
  <2>1. /\ role' \in Roles /\ status' \in Status \cup {"none"} /\ verified' \in BOOLEAN
        /\ cached' \in Status \cup {"none"} /\ sessions' \subseteq Tokens
    BY <1>24 DEF Types, WriteDriver, Status
  <2>2. key' \in [code : BOOLEAN, fails : Nat, marker : BOOLEAN]
    BY <1>24 DEF Types, WriteDriver, NoKeys
  <2>3. handler' \in [Handlers -> Requests]
    BY <1>24, WriteDriverTurns DEF Types, Turns
  <2> QED BY <2>1, <2>2, <2>3 DEF Types
<1>25. ASSUME NEW h \in Handlers, WriteStore(h) PROVE Types'
  <2>1. /\ role' \in Roles /\ status' \in Status \cup {"none"} /\ verified' \in BOOLEAN
        /\ cached' \in Status \cup {"none"} /\ sessions' \subseteq Tokens
    BY <1>25 DEF Types, WriteStore, Status
  <2>2. key' \in [code : BOOLEAN, fails : Nat, marker : BOOLEAN]
    BY <1>25 DEF Types, WriteStore, NoKeys
  <2>3. handler' \in [Handlers -> Requests]
    BY <1>25, WriteStoreTurns DEF Types, Turns
  <2> QED BY <2>1, <2>2, <2>3 DEF Types
<1>26. ASSUME NEW h \in Handlers, WriteOwner(h) PROVE Types'
  <2>1. /\ role' \in Roles /\ status' \in Status \cup {"none"} /\ verified' \in BOOLEAN
        /\ cached' \in Status \cup {"none"} /\ sessions' \subseteq Tokens
    BY <1>26 DEF Types, WriteOwner, Status
  <2>2. key' \in [code : BOOLEAN, fails : Nat, marker : BOOLEAN]
    BY <1>26 DEF Types, WriteOwner, NoKeys
  <2>3. handler' \in [Handlers -> Requests]
    BY <1>26, WriteOwnerTurns DEF Types, Turns
  <2> QED BY <2>1, <2>2, <2>3 DEF Types
<1>27. ASSUME NEW h \in Handlers, NEW t \in Tokens, RefreshToken(h, t) PROVE Types'
  <2>1. /\ role' \in Roles /\ status' \in Status \cup {"none"} /\ verified' \in BOOLEAN
        /\ cached' \in Status \cup {"none"} /\ sessions' \subseteq Tokens
    BY <1>27 DEF Types, RefreshToken, Status
  <2>2. key' \in [code : BOOLEAN, fails : Nat, marker : BOOLEAN]
    BY <1>27 DEF Types, RefreshToken, NoKeys
  <2>3. handler' \in [Handlers -> Requests]
    BY <1>27, RefreshTokenTurns DEF Types, Turns
  <2> QED BY <2>1, <2>2, <2>3 DEF Types
<1>28. ASSUME NEW h \in Handlers, RenewUser(h) PROVE Types'
  <2>1. /\ role' \in Roles /\ status' \in Status \cup {"none"} /\ verified' \in BOOLEAN
        /\ cached' \in Status \cup {"none"} /\ sessions' \subseteq Tokens
    BY <1>28 DEF Types, RenewUser, Renews, Status
  <2>2. key' \in [code : BOOLEAN, fails : Nat, marker : BOOLEAN]
    BY <1>28 DEF Types, RenewUser, Renews, NoKeys
  <2>3. handler' \in [Handlers -> Requests]
    BY <1>28, RenewUserTurns DEF Types, Turns
  <2> QED BY <2>1, <2>2, <2>3 DEF Types
<1>29. ASSUME NEW h \in Handlers, RenewDriver(h) PROVE Types'
  <2>1. /\ role' \in Roles /\ status' \in Status \cup {"none"} /\ verified' \in BOOLEAN
        /\ cached' \in Status \cup {"none"} /\ sessions' \subseteq Tokens
    BY <1>29 DEF Types, RenewDriver, Renews, Status
  <2>2. key' \in [code : BOOLEAN, fails : Nat, marker : BOOLEAN]
    BY <1>29 DEF Types, RenewDriver, Renews, NoKeys
  <2>3. handler' \in [Handlers -> Requests]
    BY <1>29, RenewDriverTurns DEF Types, Turns
  <2> QED BY <2>1, <2>2, <2>3 DEF Types
<1>30. ASSUME NEW h \in Handlers, RenewStore(h) PROVE Types'
  <2>1. /\ role' \in Roles /\ status' \in Status \cup {"none"} /\ verified' \in BOOLEAN
        /\ cached' \in Status \cup {"none"} /\ sessions' \subseteq Tokens
    BY <1>30 DEF Types, RenewStore, Status
  <2>2. key' \in [code : BOOLEAN, fails : Nat, marker : BOOLEAN]
    BY <1>30 DEF Types, RenewStore, NoKeys
  <2>3. handler' \in [Handlers -> Requests]
    BY <1>30, RenewStoreTurns DEF Types, Turns
  <2> QED BY <2>1, <2>2, <2>3 DEF Types
<1>31. ASSUME NEW h \in Handlers, RenewOwner(h) PROVE Types'
  <2>1. /\ role' \in Roles /\ status' \in Status \cup {"none"} /\ verified' \in BOOLEAN
        /\ cached' \in Status \cup {"none"} /\ sessions' \subseteq Tokens
    BY <1>31 DEF Types, RenewOwner, Status
  <2>2. key' \in [code : BOOLEAN, fails : Nat, marker : BOOLEAN]
    BY <1>31 DEF Types, RenewOwner, NoKeys
  <2>3. handler' \in [Handlers -> Requests]
    BY <1>31, RenewOwnerTurns DEF Types, Turns
  <2> QED BY <2>1, <2>2, <2>3 DEF Types
<1>32. ASSUME NEW h \in Handlers, RotateToken(h) PROVE Types'
  <2>1. /\ role' \in Roles /\ status' \in Status \cup {"none"} /\ verified' \in BOOLEAN
        /\ cached' \in Status \cup {"none"} /\ sessions' \subseteq Tokens
    BY <1>32 DEF Types, RotateToken, Status
  <2>2. key' \in [code : BOOLEAN, fails : Nat, marker : BOOLEAN]
    BY <1>32 DEF Types, RotateToken, NoKeys
  <2>3. handler' \in [Handlers -> Requests]
    BY <1>32, RotateTokenTurns DEF Types, Turns
  <2> QED BY <2>1, <2>2, <2>3 DEF Types
<1>33. ASSUME NEW h \in Handlers, CheckAccountStatus(h) PROVE Types'
  <2>1. /\ role' \in Roles /\ status' \in Status \cup {"none"} /\ verified' \in BOOLEAN
        /\ cached' \in Status \cup {"none"} /\ sessions' \subseteq Tokens
    BY <1>33 DEF Types, CheckAccountStatus, Status
  <2>2. key' \in [code : BOOLEAN, fails : Nat, marker : BOOLEAN]
    BY <1>33 DEF Types, CheckAccountStatus, NoKeys
  <2>3. handler' \in [Handlers -> Requests]
    BY <1>33, CheckAccountStatusTurns DEF Types, Turns
  <2> QED BY <2>1, <2>2, <2>3 DEF Types
<1>34. ASSUME NEW h \in Handlers, FillCache(h) PROVE Types'
  <2>1. /\ role' \in Roles /\ status' \in Status \cup {"none"} /\ verified' \in BOOLEAN
        /\ cached' \in Status \cup {"none"} /\ sessions' \subseteq Tokens
    BY <1>34, Fields DEF Types, FillCache, Status
  <2>2. key' \in [code : BOOLEAN, fails : Nat, marker : BOOLEAN]
    BY <1>34 DEF Types, FillCache, NoKeys
  <2>3. handler' \in [Handlers -> Requests]
    BY <1>34, FillCacheTurns DEF Types, Turns
  <2> QED BY <2>1, <2>2, <2>3 DEF Types
<1>35. ASSUME NEW h \in Handlers, RevokeAccess(h) PROVE Types'
  <2>1. /\ role' \in Roles /\ status' \in Status \cup {"none"} /\ verified' \in BOOLEAN
        /\ cached' \in Status \cup {"none"} /\ sessions' \subseteq Tokens
    BY <1>35 DEF Types, RevokeAccess, Status
  <2>2. key' \in [code : BOOLEAN, fails : Nat, marker : BOOLEAN]
    BY <1>35 DEF Types, RevokeAccess, NoKeys
  <2>3. handler' \in [Handlers -> Requests]
    BY <1>35, RevokeAccessTurns DEF Types, Turns
  <2> QED BY <2>1, <2>2, <2>3 DEF Types
<1>36. ASSUME NEW h \in Handlers, Crash(h) PROVE Types'
  <2>1. /\ role' \in Roles /\ status' \in Status \cup {"none"} /\ verified' \in BOOLEAN
        /\ cached' \in Status \cup {"none"} /\ sessions' \subseteq Tokens
    BY <1>36 DEF Types, Crash, Status
  <2>2. key' \in [code : BOOLEAN, fails : Nat, marker : BOOLEAN]
    BY <1>36 DEF Types, Crash, NoKeys
  <2>3. handler' \in [Handlers -> Requests]
    BY <1>36, CrashTurns DEF Types, Turns
  <2> QED BY <2>1, <2>2, <2>3 DEF Types
<1>37. ASSUME NEW h \in Handlers, NEW to \in Status, UpdateUserStatus(h, to)
       PROVE  Types'
  <2>1. /\ role' \in Roles /\ status' \in Status \cup {"none"} /\ verified' \in BOOLEAN
        /\ cached' \in Status \cup {"none"} /\ sessions' \subseteq Tokens
    BY <1>37 DEF Types, UpdateUserStatus, SetStatus, Status
  <2>2. key' \in [code : BOOLEAN, fails : Nat, marker : BOOLEAN]
    BY <1>37 DEF Types, UpdateUserStatus, SetStatus, NoKeys
  <2>3. handler' \in [Handlers -> Requests]
    BY <1>37, UpdateUserStatusTurns DEF Types, Turns
  <2> QED BY <2>1, <2>2, <2>3 DEF Types
<1>38. ASSUME NEW h \in Handlers, NEW to \in Status, UpdateDriverStatus(h, to)
       PROVE  Types'
  <2>1. /\ role' \in Roles /\ status' \in Status \cup {"none"} /\ verified' \in BOOLEAN
        /\ cached' \in Status \cup {"none"} /\ sessions' \subseteq Tokens
    BY <1>38 DEF Types, UpdateDriverStatus, SetStatus, Status
  <2>2. key' \in [code : BOOLEAN, fails : Nat, marker : BOOLEAN]
    BY <1>38 DEF Types, UpdateDriverStatus, SetStatus, NoKeys
  <2>3. handler' \in [Handlers -> Requests]
    BY <1>38, UpdateDriverStatusTurns DEF Types, Turns
  <2> QED BY <2>1, <2>2, <2>3 DEF Types
<1>39. ASSUME NEW h \in Handlers, NEW to \in Status, UpdateStoreOwnerStatus(h, to)
       PROVE  Types'
  <2>1. /\ role' \in Roles /\ status' \in Status \cup {"none"} /\ verified' \in BOOLEAN
        /\ cached' \in Status \cup {"none"} /\ sessions' \subseteq Tokens
    BY <1>39 DEF Types, UpdateStoreOwnerStatus, SetStatus, Status
  <2>2. key' \in [code : BOOLEAN, fails : Nat, marker : BOOLEAN]
    BY <1>39 DEF Types, UpdateStoreOwnerStatus, SetStatus, NoKeys
  <2>3. handler' \in [Handlers -> Requests]
    BY <1>39, UpdateStoreOwnerStatusTurns DEF Types, Turns
  <2> QED BY <2>1, <2>2, <2>3 DEF Types
<1>40. ASSUME NEW h \in Handlers, NEW to \in Status, ToggleStoreStatus(h, to)
       PROVE  Types'
  <2>1. /\ role' \in Roles /\ status' \in Status \cup {"none"} /\ verified' \in BOOLEAN
        /\ cached' \in Status \cup {"none"} /\ sessions' \subseteq Tokens
    BY <1>40 DEF Types, ToggleStoreStatus, SetStatus, Status
  <2>2. key' \in [code : BOOLEAN, fails : Nat, marker : BOOLEAN]
    BY <1>40 DEF Types, ToggleStoreStatus, SetStatus, NoKeys
  <2>3. handler' \in [Handlers -> Requests]
    BY <1>40, ToggleStoreStatusTurns DEF Types, Turns
  <2> QED BY <2>1, <2>2, <2>3 DEF Types
<1>41. ASSUME NEW h \in Handlers, BulkDeactivate(h) PROVE Types'
  <2>1. /\ role' \in Roles /\ status' \in Status \cup {"none"} /\ verified' \in BOOLEAN
        /\ cached' \in Status \cup {"none"} /\ sessions' \subseteq Tokens
    BY <1>41 DEF Types, BulkDeactivate, SetStatus, Status
  <2>2. key' \in [code : BOOLEAN, fails : Nat, marker : BOOLEAN]
    BY <1>41 DEF Types, BulkDeactivate, SetStatus, NoKeys
  <2>3. handler' \in [Handlers -> Requests]
    BY <1>41, BulkDeactivateTurns DEF Types, Turns
  <2> QED BY <2>1, <2>2, <2>3 DEF Types
<1>42. ASSUME NEW h \in Handlers, BulkDeactivateDrivers(h) PROVE Types'
  <2>1. /\ role' \in Roles /\ status' \in Status \cup {"none"} /\ verified' \in BOOLEAN
        /\ cached' \in Status \cup {"none"} /\ sessions' \subseteq Tokens
    BY <1>42 DEF Types, BulkDeactivateDrivers, Status
  <2>2. key' \in [code : BOOLEAN, fails : Nat, marker : BOOLEAN]
    BY <1>42 DEF Types, BulkDeactivateDrivers, NoKeys
  <2>3. handler' \in [Handlers -> Requests]
    BY <1>42, BulkDeactivateDriversTurns DEF Types, Turns
  <2> QED BY <2>1, <2>2, <2>3 DEF Types
<1>43. CASE CreateStoreOwner
  BY <1>43 DEF Types, CreateStoreOwner, Status
<1>44. ASSUME NEW v \in BOOLEAN, CreateStore(v) PROVE Types'
  BY <1>44 DEF Types, CreateStore, Status
<1>45. ASSUME NEW v \in BOOLEAN, AdminVerifies(v) PROVE Types'
  BY <1>45 DEF Types, AdminVerifies, Status
<1>46. ASSUME NEW t \in Tokens, Logout(t) PROVE Types'
  BY <1>46 DEF Types, Logout, Status
<1>47. ASSUME NEW t \in Tokens, OwnerLogsOut(t) PROVE Types'
  BY <1>47 DEF Types, OwnerLogsOut, Status
<1>48. ASSUME NEW t \in Tokens, ExpireSession(t) PROVE Types'
  BY <1>48 DEF Types, ExpireSession, Status
<1>49. CASE UpdateUserDetails
  BY <1>49 DEF Types, UpdateUserDetails, DropsProfile, Status
<1>50. CASE CompleteProfile
  BY <1>50 DEF Types, CompleteProfile, DropsProfile, Status
<1>51. CASE Expire
  <2>1. UNCHANGED <<role, status, verified, cached, sessions, handler>>
    BY <1>51 DEF Expire
  <2>2. \/ key' = [key EXCEPT !.code = FALSE] \/ key' = [key EXCEPT !.fails = 0]
        \/ key' = [key EXCEPT !.marker = FALSE]
    BY <1>51 DEF Expire
  <2>3. key' \in [code : BOOLEAN, fails : Nat, marker : BOOLEAN]
    <3>1. key \in [code : BOOLEAN, fails : Nat, marker : BOOLEAN]
      BY DEF Types
    <3>2. CASE key' = [key EXCEPT !.code = FALSE]
      BY <3>1, <3>2
    <3>3. CASE key' = [key EXCEPT !.fails = 0]
      BY <3>1, <3>3
    <3>4. CASE key' = [key EXCEPT !.marker = FALSE]
      BY <3>1, <3>4
    <3> QED BY <2>2, <3>2, <3>3, <3>4
  <2> QED BY <2>1, <2>3 DEF Types
<1>52. CASE ExpireCache
  BY <1>52 DEF Types, ExpireCache, Status
<1>53. CASE UNCHANGED vars
  BY <1>53 DEF vars, Types
<1> QED BY <1>1, <1>2, <1>3, <1>4, <1>5, <1>6, <1>7, <1>8, <1>9, <1>10, <1>11,
           <1>12, <1>13, <1>14, <1>15, <1>16, <1>17, <1>18, <1>19, <1>20, <1>21,
           <1>22, <1>23, <1>24, <1>25, <1>26, <1>27, <1>28, <1>29, <1>30, <1>31,
           <1>32, <1>33, <1>34, <1>35, <1>36, <1>37, <1>38, <1>39, <1>40, <1>41,
           <1>42, <1>43, <1>44, <1>45, <1>46, <1>47, <1>48, <1>49, <1>50, <1>51,
           <1>52, <1>53
           DEF Next, Step

(* The failures. *)

\* Nobody is added, and nothing fails.
LEMMA CountStays ==
    ASSUME Types, Types', AttemptsInv, Comparing' \subseteq Comparing, key'.fails <= key.fails
    PROVE  AttemptsInv'
<1>1. IsFiniteSet(Comparing)
  BY LimitsAssumption, FS_Subset DEF Comparing
<1>2. IsFiniteSet(Comparing') /\ Cardinality(Comparing') <= Cardinality(Comparing)
  BY <1>1, FS_Subset
<1>3. /\ Cardinality(Comparing) \in Nat /\ Cardinality(Comparing') \in Nat
      /\ Cardinality(Handlers) \in Nat /\ key.fails \in Nat /\ key'.fails \in Nat
      /\ MaxAttempts \in Nat
  BY <1>1, <1>2, FS_CardinalityType, LimitsAssumption DEF Types
<1> QED BY <1>2, <1>3 DEF AttemptsInv

\* Somebody is let in.
LEMMA CountBegins ==
    ASSUME Types, key.fails < MaxAttempts, UNCHANGED key
    PROVE  AttemptsInv'
<1> DEFINE C == Comparing'
<1>1. C \subseteq Handlers
  BY DEF Comparing
<1> HIDE DEF C
<1>2. IsFiniteSet(C) /\ Cardinality(C) <= Cardinality(Handlers)
  BY <1>1, LimitsAssumption, FS_Subset
<1>3. /\ Cardinality(C) \in Nat /\ Cardinality(Handlers) \in Nat /\ key.fails \in Nat
      /\ MaxAttempts \in Nat
  BY <1>2, FS_CardinalityType, LimitsAssumption DEF Types
<1>4. key'.fails + Cardinality(C) <= MaxAttempts + Cardinality(Handlers) - 1
  BY <1>2, <1>3
<1> QED BY <1>4 DEF C, AttemptsInv

\* A code is wrong, and its request is over.
LEMMA CountFails ==
    ASSUME Types, Types', AttemptsInv, NEW h \in Comparing, Comparing' \subseteq Comparing \ {h},
           key'.fails = key.fails + 1
    PROVE  AttemptsInv'
<1>1. IsFiniteSet(Comparing)
  BY LimitsAssumption, FS_Subset DEF Comparing
<1> DEFINE C == Comparing \ {h}
<1>2. IsFiniteSet(C) /\ Cardinality(C) = Cardinality(Comparing) - 1
  BY <1>1, FS_RemoveElement
<1>3. IsFiniteSet(Comparing') /\ Cardinality(Comparing') <= Cardinality(C)
  BY <1>2, FS_Subset
<1>4. /\ Cardinality(Comparing) \in Nat /\ Cardinality(Comparing') \in Nat
      /\ Cardinality(Handlers) \in Nat /\ key.fails \in Nat /\ key'.fails \in Nat
      /\ MaxAttempts \in Nat
  BY <1>1, <1>3, FS_CardinalityType, LimitsAssumption DEF Types
<1> QED BY <1>2, <1>3, <1>4 DEF AttemptsInv

\* Every action keeps the count of failures in bounds.
LEMMA AttemptsStep == Types /\ Types' /\ AttemptsInv /\ [Next]_vars => AttemptsInv'
<1> SUFFICES ASSUME Types, Types', AttemptsInv, [Next]_vars PROVE AttemptsInv'
  OBVIOUS
<1>1. ASSUME NEW h \in Handlers, AuthUser(h) PROVE AttemptsInv'
  <2>1. Comparing' \subseteq Comparing
    BY <1>1, AuthUserTurns DEF Turns, Comparing
  <2>2. key'.fails <= key.fails
    BY <1>1 DEF Types, AuthUser, NoKeys
  <2> QED BY <2>1, <2>2, CountStays
<1>2. ASSUME NEW h \in Handlers, SendOTPUser(h) PROVE AttemptsInv'
  <2>1. Comparing' \subseteq Comparing
    BY <1>2, SendOTPUserTurns DEF Turns, Comparing
  <2>2. key'.fails <= key.fails
    BY <1>2 DEF Types, SendOTPUser, NoKeys
  <2> QED BY <2>1, <2>2, CountStays
<1>3. ASSUME NEW h \in Handlers, AuthDriver(h) PROVE AttemptsInv'
  <2>1. Comparing' \subseteq Comparing
    BY <1>3, AuthDriverTurns DEF Turns, Comparing
  <2>2. key'.fails <= key.fails
    BY <1>3 DEF Types, AuthDriver, NoKeys
  <2> QED BY <2>1, <2>2, CountStays
<1>4. ASSUME NEW h \in Handlers, SendOTPDriver(h) PROVE AttemptsInv'
  <2>1. Comparing' \subseteq Comparing
    BY <1>4, SendOTPDriverTurns DEF Turns, Comparing
  <2>2. key'.fails <= key.fails
    BY <1>4 DEF Types, SendOTPDriver, NoKeys
  <2> QED BY <2>1, <2>2, CountStays
<1>5. ASSUME NEW h \in Handlers, RegisterStoreOwner(h) PROVE AttemptsInv'
  <2>1. Comparing' \subseteq Comparing
    BY <1>5, RegisterStoreOwnerTurns DEF Turns, Comparing
  <2>2. key'.fails <= key.fails
    BY <1>5 DEF Types, RegisterStoreOwner, NoKeys
  <2> QED BY <2>1, <2>2, CountStays
<1>6. ASSUME NEW h \in Handlers, LoginStoreOwner(h) PROVE AttemptsInv'
  <2>1. Comparing' \subseteq Comparing
    BY <1>6, LoginStoreOwnerTurns DEF Turns, Comparing
  <2>2. key'.fails <= key.fails
    BY <1>6 DEF Types, LoginStoreOwner, NoKeys
  <2> QED BY <2>1, <2>2, CountStays
<1>7. ASSUME NEW h \in Handlers, SendOTPOwner(h) PROVE AttemptsInv'
  <2>1. Comparing' \subseteq Comparing
    BY <1>7, SendOTPOwnerTurns DEF Turns, Comparing
  <2>2. key'.fails <= key.fails
    BY <1>7 DEF Types, SendOTPOwner, NoKeys
  <2> QED BY <2>1, <2>2, CountStays
<1>8. ASSUME NEW h \in Handlers, AskForNewNumber(h) PROVE AttemptsInv'
  <2>1. Comparing' \subseteq Comparing
    BY <1>8, AskForNewNumberTurns DEF Turns, Comparing
  <2>2. key'.fails <= key.fails
    BY <1>8 DEF Types, AskForNewNumber, NoKeys
  <2> QED BY <2>1, <2>2, CountStays
<1>9. ASSUME NEW h \in Handlers, LoginStore(h) PROVE AttemptsInv'
  <2>1. Comparing' \subseteq Comparing
    BY <1>9, LoginStoreTurns DEF Turns, Comparing
  <2>2. key'.fails <= key.fails
    BY <1>9 DEF Types, LoginStore, NoKeys
  <2> QED BY <2>1, <2>2, CountStays
<1>10. ASSUME NEW h \in Handlers, UserVerifies(h) PROVE AttemptsInv'
  <2>1. CASE UNCHANGED handler
    <3>1. key'.fails <= key.fails
      BY <1>10 DEF Types, UserVerifies, VerifyGate
    <3> QED BY <2>1, <3>1, CountStays DEF Comparing
  <2>2. CASE key.fails < MaxAttempts /\ UNCHANGED key
    BY <2>2, CountBegins
  <2> QED BY <1>10, <2>1, <2>2, UserVerifiesTurns
<1>11. ASSUME NEW h \in Handlers, DriverVerifies(h) PROVE AttemptsInv'
  <2>1. CASE UNCHANGED handler
    <3>1. key'.fails <= key.fails
      BY <1>11 DEF Types, DriverVerifies, VerifyGate
    <3> QED BY <2>1, <3>1, CountStays DEF Comparing
  <2>2. CASE key.fails < MaxAttempts /\ UNCHANGED key
    BY <2>2, CountBegins
  <2> QED BY <1>11, <2>1, <2>2, DriverVerifiesTurns
<1>12. ASSUME NEW h \in Handlers, OwnerVerifies(h) PROVE AttemptsInv'
  <2>1. CASE UNCHANGED handler
    <3>1. key'.fails <= key.fails
      BY <1>12 DEF Types, OwnerVerifies, VerifyGate
    <3> QED BY <2>1, <3>1, CountStays DEF Comparing
  <2>2. CASE key.fails < MaxAttempts /\ UNCHANGED key
    BY <2>2, CountBegins
  <2> QED BY <1>12, <2>1, <2>2, OwnerVerifiesTurns
<1>13. ASSUME NEW h \in Handlers, StoreVerifies(h) PROVE AttemptsInv'
  <2>1. CASE UNCHANGED handler
    <3>1. key'.fails <= key.fails
      BY <1>13 DEF Types, StoreVerifies, VerifyGate
    <3> QED BY <2>1, <3>1, CountStays DEF Comparing
  <2>2. CASE key.fails < MaxAttempts /\ UNCHANGED key
    BY <2>2, CountBegins
  <2> QED BY <1>13, <2>1, <2>2, StoreVerifiesTurns
<1>14. ASSUME NEW h \in Handlers, ChangeNumber(h) PROVE AttemptsInv'
  <2>1. CASE UNCHANGED handler
    <3>1. key'.fails <= key.fails
      BY <1>14 DEF Types, ChangeNumber, VerifyGate
    <3> QED BY <2>1, <3>1, CountStays DEF Comparing
  <2>2. CASE key.fails < MaxAttempts /\ UNCHANGED key
    BY <2>2, CountBegins
  <2> QED BY <1>14, <2>1, <2>2, ChangeNumberTurns
<1>15. ASSUME NEW h \in Handlers, IssueOTP(h) PROVE AttemptsInv'
  <2>1. Comparing' \subseteq Comparing
    BY <1>15, IssueOTPTurns DEF Turns, Comparing
  <2>2. key'.fails <= key.fails
    BY <1>15 DEF Types, IssueOTP, NoKeys
  <2> QED BY <2>1, <2>2, CountStays
<1>16. ASSUME NEW h \in Handlers, ReadFirst(h) PROVE AttemptsInv'
  <2>1. Comparing' \subseteq Comparing
    BY <1>16, ReadFirstTurns DEF Turns, Comparing
  <2>2. key'.fails <= key.fails
    BY <1>16 DEF Types, ReadFirst, NoKeys
  <2> QED BY <2>1, <2>2, CountStays
<1>17. ASSUME NEW h \in Handlers, CompareOTP(h) PROVE AttemptsInv'
  <2>1. h \in Comparing
    BY <1>17 DEF CompareOTP, Comparing
  <2>2. CASE key'.fails = key.fails + 1 /\ Turns(h, "idle", FALSE)
    <3>1. Comparing' \subseteq Comparing \ {h}
      BY <2>2 DEF Turns, Comparing
    <3> QED BY <2>1, <2>2, <3>1, CountFails
  <2>3. ASSUME UNCHANGED key, NEW do, NEW late, do \in {"clean", "claim_clean", "read_after"},
               Turns(h, do, late)
        PROVE  AttemptsInv'
    <3>1. Comparing' \subseteq Comparing
      BY <2>3 DEF Turns, Comparing
    <3>2. key'.fails <= key.fails
      BY <2>3 DEF Types
    <3> QED BY <3>1, <3>2, CountStays
  <2>4. CASE UNCHANGED key
    <3>1. key.fails # key.fails + 1
      BY DEF Types
    <3>2. \/ Turns(h, "clean", handler[h].late) \/ Turns(h, "claim_clean", handler[h].late)
          \/ Turns(h, "read_after", handler[h].late)
      BY <1>17, <2>4, <3>1, CompareOTPTurns
    <3> QED BY <2>3, <2>4, <3>2
  <2> QED BY <1>17, <2>2, <2>4, CompareOTPTurns
<1>18. ASSUME NEW h \in Handlers, ReadUser(h) PROVE AttemptsInv'
  <2>1. Comparing' \subseteq Comparing
    BY <1>18, ReadUserTurns DEF Turns, Comparing
  <2>2. key'.fails <= key.fails
    BY <1>18 DEF Types, ReadUser, NoKeys
  <2> QED BY <2>1, <2>2, CountStays
<1>19. ASSUME NEW h \in Handlers, ReadOwner(h) PROVE AttemptsInv'
  <2>1. Comparing' \subseteq Comparing
    BY <1>19, ReadOwnerTurns DEF Turns, Comparing
  <2>2. key'.fails <= key.fails
    BY <1>19 DEF Types, ReadOwner, NoKeys
  <2> QED BY <2>1, <2>2, CountStays
<1>20. ASSUME NEW h \in Handlers, CreateAccount(h) PROVE AttemptsInv'
  <2>1. Comparing' \subseteq Comparing
    BY <1>20, CreateAccountTurns DEF Turns, Comparing
  <2>2. key'.fails <= key.fails
    BY <1>20 DEF Types, CreateAccount, NoKeys
  <2> QED BY <2>1, <2>2, CountStays
<1>21. ASSUME NEW h \in Handlers, CleanupOTPKeys(h) PROVE AttemptsInv'
  <2>1. Comparing' \subseteq Comparing
    BY <1>21, CleanupOTPKeysTurns DEF Turns, Comparing
  <2>2. key'.fails <= key.fails
    BY <1>21 DEF Types, CleanupOTPKeys, NoKeys
  <2> QED BY <2>1, <2>2, CountStays
<1>22. ASSUME NEW h \in Handlers, ClaimNumber(h) PROVE AttemptsInv'
  <2>1. Comparing' \subseteq Comparing
    BY <1>22, ClaimNumberTurns DEF Turns, Comparing
  <2>2. key'.fails <= key.fails
    BY <1>22 DEF Types, ClaimNumber, NoKeys
  <2> QED BY <2>1, <2>2, CountStays
<1>23. ASSUME NEW h \in Handlers, GenerateTokenPair(h) PROVE AttemptsInv'
  <2>1. Comparing' \subseteq Comparing
    BY <1>23, GenerateTokenPairTurns DEF Turns, Comparing
  <2>2. key'.fails <= key.fails
    BY <1>23 DEF Types, GenerateTokenPair, NoKeys
  <2> QED BY <2>1, <2>2, CountStays
<1>24. ASSUME NEW h \in Handlers, WriteDriver(h) PROVE AttemptsInv'
  <2>1. Comparing' \subseteq Comparing
    BY <1>24, WriteDriverTurns DEF Turns, Comparing
  <2>2. key'.fails <= key.fails
    BY <1>24 DEF Types, WriteDriver, NoKeys
  <2> QED BY <2>1, <2>2, CountStays
<1>25. ASSUME NEW h \in Handlers, WriteStore(h) PROVE AttemptsInv'
  <2>1. Comparing' \subseteq Comparing
    BY <1>25, WriteStoreTurns DEF Turns, Comparing
  <2>2. key'.fails <= key.fails
    BY <1>25 DEF Types, WriteStore, NoKeys
  <2> QED BY <2>1, <2>2, CountStays
<1>26. ASSUME NEW h \in Handlers, WriteOwner(h) PROVE AttemptsInv'
  <2>1. Comparing' \subseteq Comparing
    BY <1>26, WriteOwnerTurns DEF Turns, Comparing
  <2>2. key'.fails <= key.fails
    BY <1>26 DEF Types, WriteOwner, NoKeys
  <2> QED BY <2>1, <2>2, CountStays
<1>27. ASSUME NEW h \in Handlers, NEW t \in Tokens, RefreshToken(h, t)
       PROVE  AttemptsInv'
  <2>1. Comparing' \subseteq Comparing
    BY <1>27, RefreshTokenTurns DEF Turns, Comparing
  <2>2. key'.fails <= key.fails
    BY <1>27 DEF Types, RefreshToken, NoKeys
  <2> QED BY <2>1, <2>2, CountStays
<1>28. ASSUME NEW h \in Handlers, RenewUser(h) PROVE AttemptsInv'
  <2>1. Comparing' \subseteq Comparing
    BY <1>28, RenewUserTurns DEF Turns, Comparing
  <2>2. key'.fails <= key.fails
    BY <1>28 DEF Types, RenewUser, Renews, NoKeys
  <2> QED BY <2>1, <2>2, CountStays
<1>29. ASSUME NEW h \in Handlers, RenewDriver(h) PROVE AttemptsInv'
  <2>1. Comparing' \subseteq Comparing
    BY <1>29, RenewDriverTurns DEF Turns, Comparing
  <2>2. key'.fails <= key.fails
    BY <1>29 DEF Types, RenewDriver, Renews, NoKeys
  <2> QED BY <2>1, <2>2, CountStays
<1>30. ASSUME NEW h \in Handlers, RenewStore(h) PROVE AttemptsInv'
  <2>1. Comparing' \subseteq Comparing
    BY <1>30, RenewStoreTurns DEF Turns, Comparing
  <2>2. key'.fails <= key.fails
    BY <1>30 DEF Types, RenewStore, NoKeys
  <2> QED BY <2>1, <2>2, CountStays
<1>31. ASSUME NEW h \in Handlers, RenewOwner(h) PROVE AttemptsInv'
  <2>1. Comparing' \subseteq Comparing
    BY <1>31, RenewOwnerTurns DEF Turns, Comparing
  <2>2. key'.fails <= key.fails
    BY <1>31 DEF Types, RenewOwner, NoKeys
  <2> QED BY <2>1, <2>2, CountStays
<1>32. ASSUME NEW h \in Handlers, RotateToken(h) PROVE AttemptsInv'
  <2>1. Comparing' \subseteq Comparing
    BY <1>32, RotateTokenTurns DEF Turns, Comparing
  <2>2. key'.fails <= key.fails
    BY <1>32 DEF Types, RotateToken, NoKeys
  <2> QED BY <2>1, <2>2, CountStays
<1>33. ASSUME NEW h \in Handlers, CheckAccountStatus(h) PROVE AttemptsInv'
  <2>1. Comparing' \subseteq Comparing
    BY <1>33, CheckAccountStatusTurns DEF Turns, Comparing
  <2>2. key'.fails <= key.fails
    BY <1>33 DEF Types, CheckAccountStatus, NoKeys
  <2> QED BY <2>1, <2>2, CountStays
<1>34. ASSUME NEW h \in Handlers, FillCache(h) PROVE AttemptsInv'
  <2>1. Comparing' \subseteq Comparing
    BY <1>34, FillCacheTurns DEF Turns, Comparing
  <2>2. key'.fails <= key.fails
    BY <1>34 DEF Types, FillCache, NoKeys
  <2> QED BY <2>1, <2>2, CountStays
<1>35. ASSUME NEW h \in Handlers, RevokeAccess(h) PROVE AttemptsInv'
  <2>1. Comparing' \subseteq Comparing
    BY <1>35, RevokeAccessTurns DEF Turns, Comparing
  <2>2. key'.fails <= key.fails
    BY <1>35 DEF Types, RevokeAccess, NoKeys
  <2> QED BY <2>1, <2>2, CountStays
<1>36. ASSUME NEW h \in Handlers, Crash(h) PROVE AttemptsInv'
  <2>1. Comparing' \subseteq Comparing
    BY <1>36, CrashTurns DEF Turns, Comparing
  <2>2. key'.fails <= key.fails
    BY <1>36 DEF Types, Crash, NoKeys
  <2> QED BY <2>1, <2>2, CountStays
<1>37. ASSUME NEW h \in Handlers, NEW to \in Status, UpdateUserStatus(h, to)
       PROVE  AttemptsInv'
  <2>1. Comparing' \subseteq Comparing
    BY <1>37, UpdateUserStatusTurns, IdleFields DEF Turns, Comparing
  <2>2. key'.fails <= key.fails
    BY <1>37 DEF Types, UpdateUserStatus, SetStatus, NoKeys
  <2> QED BY <2>1, <2>2, CountStays
<1>38. ASSUME NEW h \in Handlers, NEW to \in Status, UpdateDriverStatus(h, to)
       PROVE  AttemptsInv'
  <2>1. Comparing' \subseteq Comparing
    BY <1>38, UpdateDriverStatusTurns, IdleFields DEF Turns, Comparing
  <2>2. key'.fails <= key.fails
    BY <1>38 DEF Types, UpdateDriverStatus, SetStatus, NoKeys
  <2> QED BY <2>1, <2>2, CountStays
<1>39. ASSUME NEW h \in Handlers, NEW to \in Status, UpdateStoreOwnerStatus(h, to)
       PROVE  AttemptsInv'
  <2>1. Comparing' \subseteq Comparing
    BY <1>39, UpdateStoreOwnerStatusTurns, IdleFields DEF Turns, Comparing
  <2>2. key'.fails <= key.fails
    BY <1>39 DEF Types, UpdateStoreOwnerStatus, SetStatus, NoKeys
  <2> QED BY <2>1, <2>2, CountStays
<1>40. ASSUME NEW h \in Handlers, NEW to \in Status, ToggleStoreStatus(h, to)
       PROVE  AttemptsInv'
  <2>1. Comparing' \subseteq Comparing
    BY <1>40, ToggleStoreStatusTurns, IdleFields DEF Turns, Comparing
  <2>2. key'.fails <= key.fails
    BY <1>40 DEF Types, ToggleStoreStatus, SetStatus, NoKeys
  <2> QED BY <2>1, <2>2, CountStays
<1>41. ASSUME NEW h \in Handlers, BulkDeactivate(h) PROVE AttemptsInv'
  <2>1. Comparing' \subseteq Comparing
    BY <1>41, BulkDeactivateTurns, IdleFields DEF Turns, Comparing
  <2>2. key'.fails <= key.fails
    BY <1>41 DEF Types, BulkDeactivate, SetStatus, NoKeys
  <2> QED BY <2>1, <2>2, CountStays
<1>42. ASSUME NEW h \in Handlers, BulkDeactivateDrivers(h) PROVE AttemptsInv'
  <2>1. Comparing' \subseteq Comparing
    BY <1>42, BulkDeactivateDriversTurns, IdleFields DEF Turns, Comparing
  <2>2. key'.fails <= key.fails
    BY <1>42 DEF Types, BulkDeactivateDrivers, NoKeys
  <2> QED BY <2>1, <2>2, CountStays
<1>43. CASE CreateStoreOwner
  <2>1. UNCHANGED handler
    BY <1>43 DEF CreateStoreOwner
  <2>2. key'.fails <= key.fails
    BY <1>43 DEF Types, CreateStoreOwner, NoKeys
  <2> QED BY <2>1, <2>2, CountStays DEF Comparing
<1>44. ASSUME NEW v \in BOOLEAN, CreateStore(v) PROVE AttemptsInv'
  <2>1. UNCHANGED handler
    BY <1>44 DEF CreateStore
  <2>2. key'.fails <= key.fails
    BY <1>44 DEF Types, CreateStore, NoKeys
  <2> QED BY <2>1, <2>2, CountStays DEF Comparing
<1>45. ASSUME NEW v \in BOOLEAN, AdminVerifies(v) PROVE AttemptsInv'
  <2>1. UNCHANGED handler
    BY <1>45 DEF AdminVerifies
  <2>2. key'.fails <= key.fails
    BY <1>45 DEF Types, AdminVerifies, NoKeys
  <2> QED BY <2>1, <2>2, CountStays DEF Comparing
<1>46. ASSUME NEW t \in Tokens, Logout(t) PROVE AttemptsInv'
  <2>1. UNCHANGED handler
    BY <1>46 DEF Logout
  <2>2. key'.fails <= key.fails
    BY <1>46 DEF Types, Logout, NoKeys
  <2> QED BY <2>1, <2>2, CountStays DEF Comparing
<1>47. ASSUME NEW t \in Tokens, OwnerLogsOut(t) PROVE AttemptsInv'
  <2>1. UNCHANGED handler
    BY <1>47 DEF OwnerLogsOut
  <2>2. key'.fails <= key.fails
    BY <1>47 DEF Types, OwnerLogsOut, NoKeys
  <2> QED BY <2>1, <2>2, CountStays DEF Comparing
<1>48. ASSUME NEW t \in Tokens, ExpireSession(t) PROVE AttemptsInv'
  <2>1. UNCHANGED handler
    BY <1>48 DEF ExpireSession
  <2>2. key'.fails <= key.fails
    BY <1>48 DEF Types, ExpireSession, NoKeys
  <2> QED BY <2>1, <2>2, CountStays DEF Comparing
<1>49. CASE UpdateUserDetails
  <2>1. UNCHANGED handler
    BY <1>49 DEF UpdateUserDetails, DropsProfile
  <2>2. key'.fails <= key.fails
    BY <1>49 DEF Types, UpdateUserDetails, DropsProfile, NoKeys
  <2> QED BY <2>1, <2>2, CountStays DEF Comparing
<1>50. CASE CompleteProfile
  <2>1. UNCHANGED handler
    BY <1>50 DEF CompleteProfile, DropsProfile
  <2>2. key'.fails <= key.fails
    BY <1>50 DEF Types, CompleteProfile, DropsProfile, NoKeys
  <2> QED BY <2>1, <2>2, CountStays DEF Comparing
<1>51. CASE Expire
  <2>1. UNCHANGED handler
    BY <1>51 DEF Expire
  <2>2. key'.fails <= key.fails
    BY <1>51 DEF Types, Expire, NoKeys
  <2> QED BY <2>1, <2>2, CountStays DEF Comparing
<1>52. CASE ExpireCache
  <2>1. UNCHANGED handler
    BY <1>52 DEF ExpireCache
  <2>2. key'.fails <= key.fails
    BY <1>52 DEF Types, ExpireCache, NoKeys
  <2> QED BY <2>1, <2>2, CountStays DEF Comparing
<1>53. CASE UNCHANGED vars
  BY <1>53 DEF vars, AttemptsInv, Comparing
<1> QED BY <1>1, <1>2, <1>3, <1>4, <1>5, <1>6, <1>7, <1>8, <1>9, <1>10, <1>11,
           <1>12, <1>13, <1>14, <1>15, <1>16, <1>17, <1>18, <1>19, <1>20, <1>21,
           <1>22, <1>23, <1>24, <1>25, <1>26, <1>27, <1>28, <1>29, <1>30, <1>31,
           <1>32, <1>33, <1>34, <1>35, <1>36, <1>37, <1>38, <1>39, <1>40, <1>41,
           <1>42, <1>43, <1>44, <1>45, <1>46, <1>47, <1>48, <1>49, <1>50, <1>51,
           <1>52, <1>53
           DEF Next, Step

(* Requests that are late. *)

\* A request goes on, and the account is not suspended by that.
LEMMA LateTurns ==
    ASSUME Types, LateInv, NEW h \in Handlers, UNCHANGED role,
           \A g \in Handlers \ {h} : handler'[g] = handler[g],
           status' \in Suspended => status' = status,
           Judged(handler'[h].do) => \/ handler'[h].late \/ status \notin Suspended
                                     \/ Judged(handler[h].do) /\ handler'[h].late = handler[h].late
    PROVE  LateInv'
<1> USE DEF LateInv, Suspended, Judged
<1>1. Judged(handler'[h].do) /\ status' \in Suspended => handler'[h].late
  OBVIOUS
<1>2. \A g \in Handlers \ {h} :
         Judged(handler'[g].do) /\ status' \in Suspended => handler'[g].late
  OBVIOUS
<1> QED BY <1>1, <1>2

\* The requests stay.
LEMMA LateSame ==
    ASSUME LateInv, UNCHANGED <<role, handler>>, status' \in Suspended => status' = status
    PROVE  LateInv'
  BY DEF LateInv, Suspended, Judged

\* An administrator overtakes them.
LEMMA LateOvertakes ==
    ASSUME Types, LateInv, NEW h \in Handlers, UNCHANGED role, handler'[h].do = "revoke",
           \A g \in Handlers \ {h} :
              /\ handler'[g].do = handler[g].do
              /\ handler'[g].late = (handler[g].late \/ handler[g].do \in Decided)
    PROVE  LateInv'
<1>1. ~Judged(handler'[h].do)
  BY DEF Judged, Decided
<1>2. \A g \in Handlers \ {h} : Judged(handler'[g].do) => handler'[g].late
  BY DEF Judged, Decided
<1> QED BY <1>1, <1>2 DEF LateInv, Judged

\* Every action keeps late requests known as such.
LEMMA LateStep == Types /\ LateInv /\ [Next]_vars => LateInv'
<1> SUFFICES ASSUME Types, LateInv, [Next]_vars PROVE LateInv'
  OBVIOUS
<1>1. ASSUME NEW h \in Handlers, AuthUser(h) PROVE LateInv'
  <2>1. UNCHANGED role /\ (status' \in Suspended => status' = status)
    BY <1>1 DEF AuthUser, Suspended, Down
  <2>2. /\ \A g \in Handlers \ {h} : handler'[g] = handler[g]
        /\ Judged(handler'[h].do) =>
              \/ handler'[h].late \/ status \notin Suspended
              \/ Judged(handler[h].do) /\ handler'[h].late = handler[h].late
    BY <1>1, AuthUserTurns DEF Turns, Judged, Decided
  <2> QED BY <2>1, <2>2, LateTurns
<1>2. ASSUME NEW h \in Handlers, SendOTPUser(h) PROVE LateInv'
  <2>1. UNCHANGED role /\ (status' \in Suspended => status' = status)
    BY <1>2 DEF SendOTPUser, Suspended, Down
  <2>2. /\ \A g \in Handlers \ {h} : handler'[g] = handler[g]
        /\ Judged(handler'[h].do) =>
              \/ handler'[h].late \/ status \notin Suspended
              \/ Judged(handler[h].do) /\ handler'[h].late = handler[h].late
    BY <1>2, SendOTPUserTurns DEF Turns, Judged, Decided
  <2> QED BY <2>1, <2>2, LateTurns
<1>3. ASSUME NEW h \in Handlers, AuthDriver(h) PROVE LateInv'
  <2>1. UNCHANGED role /\ (status' \in Suspended => status' = status)
    BY <1>3 DEF AuthDriver, Suspended, Down
  <2>2. /\ \A g \in Handlers \ {h} : handler'[g] = handler[g]
        /\ Judged(handler'[h].do) =>
              \/ handler'[h].late \/ status \notin Suspended
              \/ Judged(handler[h].do) /\ handler'[h].late = handler[h].late
    BY <1>3, AuthDriverTurns DEF Turns, Judged, Decided
  <2> QED BY <2>1, <2>2, LateTurns
<1>4. ASSUME NEW h \in Handlers, SendOTPDriver(h) PROVE LateInv'
  <2>1. UNCHANGED role /\ (status' \in Suspended => status' = status)
    BY <1>4 DEF SendOTPDriver, Suspended, Down
  <2>2. /\ \A g \in Handlers \ {h} : handler'[g] = handler[g]
        /\ Judged(handler'[h].do) =>
              \/ handler'[h].late \/ status \notin Suspended
              \/ Judged(handler[h].do) /\ handler'[h].late = handler[h].late
    BY <1>4, SendOTPDriverTurns DEF Turns, Judged, Decided
  <2> QED BY <2>1, <2>2, LateTurns
<1>5. ASSUME NEW h \in Handlers, RegisterStoreOwner(h) PROVE LateInv'
  <2>1. UNCHANGED role /\ (status' \in Suspended => status' = status)
    BY <1>5 DEF RegisterStoreOwner, Suspended, Down
  <2>2. /\ \A g \in Handlers \ {h} : handler'[g] = handler[g]
        /\ Judged(handler'[h].do) =>
              \/ handler'[h].late \/ status \notin Suspended
              \/ Judged(handler[h].do) /\ handler'[h].late = handler[h].late
    BY <1>5, RegisterStoreOwnerTurns DEF Turns, Judged, Decided
  <2> QED BY <2>1, <2>2, LateTurns
<1>6. ASSUME NEW h \in Handlers, LoginStoreOwner(h) PROVE LateInv'
  <2>1. UNCHANGED role /\ (status' \in Suspended => status' = status)
    BY <1>6 DEF LoginStoreOwner, Suspended, Down
  <2>2. /\ \A g \in Handlers \ {h} : handler'[g] = handler[g]
        /\ Judged(handler'[h].do) =>
              \/ handler'[h].late \/ status \notin Suspended
              \/ Judged(handler[h].do) /\ handler'[h].late = handler[h].late
    BY <1>6, LoginStoreOwnerTurns DEF Turns, Judged, Decided
  <2> QED BY <2>1, <2>2, LateTurns
<1>7. ASSUME NEW h \in Handlers, SendOTPOwner(h) PROVE LateInv'
  <2>1. UNCHANGED role /\ (status' \in Suspended => status' = status)
    BY <1>7 DEF SendOTPOwner, Suspended, Down
  <2>2. /\ \A g \in Handlers \ {h} : handler'[g] = handler[g]
        /\ Judged(handler'[h].do) =>
              \/ handler'[h].late \/ status \notin Suspended
              \/ Judged(handler[h].do) /\ handler'[h].late = handler[h].late
    BY <1>7, SendOTPOwnerTurns DEF Turns, Judged, Decided
  <2> QED BY <2>1, <2>2, LateTurns
<1>8. ASSUME NEW h \in Handlers, AskForNewNumber(h) PROVE LateInv'
  <2>1. UNCHANGED role /\ (status' \in Suspended => status' = status)
    BY <1>8 DEF AskForNewNumber, Suspended, Down
  <2>2. /\ \A g \in Handlers \ {h} : handler'[g] = handler[g]
        /\ Judged(handler'[h].do) =>
              \/ handler'[h].late \/ status \notin Suspended
              \/ Judged(handler[h].do) /\ handler'[h].late = handler[h].late
    BY <1>8, AskForNewNumberTurns DEF Turns, Judged, Decided
  <2> QED BY <2>1, <2>2, LateTurns
<1>9. ASSUME NEW h \in Handlers, LoginStore(h) PROVE LateInv'
  <2>1. UNCHANGED role /\ (status' \in Suspended => status' = status)
    BY <1>9 DEF LoginStore, Suspended, Down
  <2>2. /\ \A g \in Handlers \ {h} : handler'[g] = handler[g]
        /\ Judged(handler'[h].do) =>
              \/ handler'[h].late \/ status \notin Suspended
              \/ Judged(handler[h].do) /\ handler'[h].late = handler[h].late
    BY <1>9, LoginStoreTurns DEF Turns, Judged, Decided
  <2> QED BY <2>1, <2>2, LateTurns
<1>10. ASSUME NEW h \in Handlers, UserVerifies(h) PROVE LateInv'
  <2>1. UNCHANGED role /\ (status' \in Suspended => status' = status)
    BY <1>10 DEF UserVerifies, VerifyGate, Suspended, Down
  <2>2. CASE UNCHANGED handler
    BY <2>1, <2>2, LateSame
  <2>3. CASE handler' # handler
    <3>1. /\ \A g \in Handlers \ {h} : handler'[g] = handler[g]
          /\ Judged(handler'[h].do) =>
                \/ handler'[h].late \/ status \notin Suspended
                \/ Judged(handler[h].do) /\ handler'[h].late = handler[h].late
      BY <1>10, <2>3, UserVerifiesTurns DEF Turns, Judged, Decided, UserVerifies
    <3> QED BY <2>1, <3>1, LateTurns
  <2> QED BY <2>2, <2>3
<1>11. ASSUME NEW h \in Handlers, DriverVerifies(h) PROVE LateInv'
  <2>1. UNCHANGED role /\ (status' \in Suspended => status' = status)
    BY <1>11 DEF DriverVerifies, VerifyGate, Suspended, Down
  <2>2. CASE UNCHANGED handler
    BY <2>1, <2>2, LateSame
  <2>3. CASE handler' # handler
    <3>1. /\ \A g \in Handlers \ {h} : handler'[g] = handler[g]
          /\ Judged(handler'[h].do) =>
                \/ handler'[h].late \/ status \notin Suspended
                \/ Judged(handler[h].do) /\ handler'[h].late = handler[h].late
      BY <1>11, <2>3, DriverVerifiesTurns DEF Turns, Judged, Decided, DriverVerifies
    <3> QED BY <2>1, <3>1, LateTurns
  <2> QED BY <2>2, <2>3
<1>12. ASSUME NEW h \in Handlers, OwnerVerifies(h) PROVE LateInv'
  <2>1. UNCHANGED role /\ (status' \in Suspended => status' = status)
    BY <1>12 DEF OwnerVerifies, VerifyGate, Suspended, Down
  <2>2. CASE UNCHANGED handler
    BY <2>1, <2>2, LateSame
  <2>3. CASE handler' # handler
    <3>1. /\ \A g \in Handlers \ {h} : handler'[g] = handler[g]
          /\ Judged(handler'[h].do) =>
                \/ handler'[h].late \/ status \notin Suspended
                \/ Judged(handler[h].do) /\ handler'[h].late = handler[h].late
      BY <1>12, <2>3, OwnerVerifiesTurns DEF Turns, Judged, Decided, OwnerVerifies
    <3> QED BY <2>1, <3>1, LateTurns
  <2> QED BY <2>2, <2>3
<1>13. ASSUME NEW h \in Handlers, StoreVerifies(h) PROVE LateInv'
  <2>1. UNCHANGED role /\ (status' \in Suspended => status' = status)
    BY <1>13 DEF StoreVerifies, VerifyGate, Suspended, Down
  <2>2. CASE UNCHANGED handler
    BY <2>1, <2>2, LateSame
  <2>3. CASE handler' # handler
    <3>1. /\ \A g \in Handlers \ {h} : handler'[g] = handler[g]
          /\ Judged(handler'[h].do) =>
                \/ handler'[h].late \/ status \notin Suspended
                \/ Judged(handler[h].do) /\ handler'[h].late = handler[h].late
      BY <1>13, <2>3, StoreVerifiesTurns DEF Turns, Judged, Decided, StoreVerifies
    <3> QED BY <2>1, <3>1, LateTurns
  <2> QED BY <2>2, <2>3
<1>14. ASSUME NEW h \in Handlers, ChangeNumber(h) PROVE LateInv'
  <2>1. UNCHANGED role /\ (status' \in Suspended => status' = status)
    BY <1>14 DEF ChangeNumber, VerifyGate, Suspended, Down
  <2>2. CASE UNCHANGED handler
    BY <2>1, <2>2, LateSame
  <2>3. CASE handler' # handler
    <3>1. /\ \A g \in Handlers \ {h} : handler'[g] = handler[g]
          /\ Judged(handler'[h].do) =>
                \/ handler'[h].late \/ status \notin Suspended
                \/ Judged(handler[h].do) /\ handler'[h].late = handler[h].late
      BY <1>14, <2>3, ChangeNumberTurns DEF Turns, Judged, Decided, ChangeNumber
    <3> QED BY <2>1, <3>1, LateTurns
  <2> QED BY <2>2, <2>3
<1>15. ASSUME NEW h \in Handlers, IssueOTP(h) PROVE LateInv'
  <2>1. UNCHANGED role /\ (status' \in Suspended => status' = status)
    BY <1>15 DEF IssueOTP, Suspended, Down
  <2>2. /\ \A g \in Handlers \ {h} : handler'[g] = handler[g]
        /\ Judged(handler'[h].do) =>
              \/ handler'[h].late \/ status \notin Suspended
              \/ Judged(handler[h].do) /\ handler'[h].late = handler[h].late
    BY <1>15, IssueOTPTurns DEF Turns, Judged, Decided
  <2> QED BY <2>1, <2>2, LateTurns
<1>16. ASSUME NEW h \in Handlers, ReadFirst(h) PROVE LateInv'
  <2>1. UNCHANGED role /\ (status' \in Suspended => status' = status)
    BY <1>16 DEF ReadFirst, Suspended, Down
  <2>2. /\ \A g \in Handlers \ {h} : handler'[g] = handler[g]
        /\ Judged(handler'[h].do) =>
              \/ handler'[h].late \/ status \notin Suspended
              \/ Judged(handler[h].do) /\ handler'[h].late = handler[h].late
    BY <1>16, ReadFirstTurns DEF Turns, Judged, Decided
  <2> QED BY <2>1, <2>2, LateTurns
<1>17. ASSUME NEW h \in Handlers, CompareOTP(h) PROVE LateInv'
  <2>1. UNCHANGED role /\ (status' \in Suspended => status' = status)
    BY <1>17 DEF CompareOTP, Suspended, Down
  <2>2. /\ \A g \in Handlers \ {h} : handler'[g] = handler[g]
        /\ Judged(handler'[h].do) =>
              \/ handler'[h].late \/ status \notin Suspended
              \/ Judged(handler[h].do) /\ handler'[h].late = handler[h].late
    BY <1>17, CompareOTPTurns DEF Turns, Judged, Decided
  <2> QED BY <2>1, <2>2, LateTurns
<1>18. ASSUME NEW h \in Handlers, ReadUser(h) PROVE LateInv'
  <2>1. UNCHANGED role /\ (status' \in Suspended => status' = status)
    BY <1>18 DEF ReadUser, Suspended, Down
  <2>2. /\ \A g \in Handlers \ {h} : handler'[g] = handler[g]
        /\ Judged(handler'[h].do) =>
              \/ handler'[h].late \/ status \notin Suspended
              \/ Judged(handler[h].do) /\ handler'[h].late = handler[h].late
    BY <1>18, ReadUserTurns DEF Turns, Judged, Decided
  <2> QED BY <2>1, <2>2, LateTurns
<1>19. ASSUME NEW h \in Handlers, ReadOwner(h) PROVE LateInv'
  <2>1. UNCHANGED role /\ (status' \in Suspended => status' = status)
    BY <1>19 DEF ReadOwner, Suspended, Down
  <2>2. /\ \A g \in Handlers \ {h} : handler'[g] = handler[g]
        /\ Judged(handler'[h].do) =>
              \/ handler'[h].late \/ status \notin Suspended
              \/ Judged(handler[h].do) /\ handler'[h].late = handler[h].late
    BY <1>19, ReadOwnerTurns DEF Turns, Judged, Decided
  <2> QED BY <2>1, <2>2, LateTurns
<1>20. ASSUME NEW h \in Handlers, CreateAccount(h) PROVE LateInv'
  <2>1. UNCHANGED role /\ (status' \in Suspended => status' = status)
    BY <1>20 DEF CreateAccount, Suspended, Down
  <2>2. /\ \A g \in Handlers \ {h} : handler'[g] = handler[g]
        /\ Judged(handler'[h].do) =>
              \/ handler'[h].late \/ status \notin Suspended
              \/ Judged(handler[h].do) /\ handler'[h].late = handler[h].late
    BY <1>20, CreateAccountTurns DEF Turns, Judged, Decided
  <2> QED BY <2>1, <2>2, LateTurns
<1>21. ASSUME NEW h \in Handlers, CleanupOTPKeys(h) PROVE LateInv'
  <2>1. UNCHANGED role /\ (status' \in Suspended => status' = status)
    BY <1>21 DEF CleanupOTPKeys, Suspended, Down
  <2>2. /\ \A g \in Handlers \ {h} : handler'[g] = handler[g]
        /\ Judged(handler'[h].do) =>
              \/ handler'[h].late \/ status \notin Suspended
              \/ Judged(handler[h].do) /\ handler'[h].late = handler[h].late
    BY <1>21, CleanupOTPKeysTurns DEF Turns, Judged, Decided
  <2> QED BY <2>1, <2>2, LateTurns
<1>22. ASSUME NEW h \in Handlers, ClaimNumber(h) PROVE LateInv'
  <2>1. UNCHANGED role /\ (status' \in Suspended => status' = status)
    BY <1>22 DEF ClaimNumber, Suspended, Down
  <2>2. /\ \A g \in Handlers \ {h} : handler'[g] = handler[g]
        /\ Judged(handler'[h].do) =>
              \/ handler'[h].late \/ status \notin Suspended
              \/ Judged(handler[h].do) /\ handler'[h].late = handler[h].late
    BY <1>22, ClaimNumberTurns DEF Turns, Judged, Decided
  <2> QED BY <2>1, <2>2, LateTurns
<1>23. ASSUME NEW h \in Handlers, GenerateTokenPair(h) PROVE LateInv'
  <2>1. UNCHANGED role /\ (status' \in Suspended => status' = status)
    BY <1>23 DEF GenerateTokenPair, Suspended, Down
  <2>2. /\ \A g \in Handlers \ {h} : handler'[g] = handler[g]
        /\ Judged(handler'[h].do) =>
              \/ handler'[h].late \/ status \notin Suspended
              \/ Judged(handler[h].do) /\ handler'[h].late = handler[h].late
    BY <1>23, GenerateTokenPairTurns DEF Turns, Judged, Decided
  <2> QED BY <2>1, <2>2, LateTurns
<1>24. ASSUME NEW h \in Handlers, WriteDriver(h) PROVE LateInv'
  <2>1. UNCHANGED role /\ (status' \in Suspended => status' = status)
    BY <1>24 DEF WriteDriver, Suspended, Down
  <2>2. /\ \A g \in Handlers \ {h} : handler'[g] = handler[g]
        /\ Judged(handler'[h].do) =>
              \/ handler'[h].late \/ status \notin Suspended
              \/ Judged(handler[h].do) /\ handler'[h].late = handler[h].late
    BY <1>24, WriteDriverTurns DEF Turns, Judged, Decided
  <2> QED BY <2>1, <2>2, LateTurns
<1>25. ASSUME NEW h \in Handlers, WriteStore(h) PROVE LateInv'
  <2>1. UNCHANGED role /\ (status' \in Suspended => status' = status)
    BY <1>25 DEF WriteStore, Suspended, Down
  <2>2. /\ \A g \in Handlers \ {h} : handler'[g] = handler[g]
        /\ Judged(handler'[h].do) =>
              \/ handler'[h].late \/ status \notin Suspended
              \/ Judged(handler[h].do) /\ handler'[h].late = handler[h].late
    BY <1>25, WriteStoreTurns DEF Turns, Judged, Decided
  <2> QED BY <2>1, <2>2, LateTurns
<1>26. ASSUME NEW h \in Handlers, WriteOwner(h) PROVE LateInv'
  <2>1. UNCHANGED role /\ (status' \in Suspended => status' = status)
    BY <1>26 DEF WriteOwner, Suspended, Down
  <2>2. /\ \A g \in Handlers \ {h} : handler'[g] = handler[g]
        /\ Judged(handler'[h].do) =>
              \/ handler'[h].late \/ status \notin Suspended
              \/ Judged(handler[h].do) /\ handler'[h].late = handler[h].late
    BY <1>26, WriteOwnerTurns DEF Turns, Judged, Decided
  <2> QED BY <2>1, <2>2, LateTurns
<1>27. ASSUME NEW h \in Handlers, NEW t \in Tokens, RefreshToken(h, t) PROVE LateInv'
  <2>1. UNCHANGED role /\ (status' \in Suspended => status' = status)
    BY <1>27 DEF RefreshToken, Suspended, Down
  <2>2. CASE UNCHANGED handler
    BY <2>1, <2>2, LateSame
  <2>3. CASE handler' # handler
    <3>1. /\ \A g \in Handlers \ {h} : handler'[g] = handler[g]
          /\ Judged(handler'[h].do) =>
                \/ handler'[h].late \/ status \notin Suspended
                \/ Judged(handler[h].do) /\ handler'[h].late = handler[h].late
      BY <1>27, <2>3, RefreshTokenTurns DEF Turns, Judged, Decided
    <3> QED BY <2>1, <3>1, LateTurns
  <2> QED BY <2>2, <2>3
<1>28. ASSUME NEW h \in Handlers, RenewUser(h) PROVE LateInv'
  <2>1. UNCHANGED role /\ (status' \in Suspended => status' = status)
    BY <1>28 DEF RenewUser, Renews, Suspended, Down
  <2>2. /\ \A g \in Handlers \ {h} : handler'[g] = handler[g]
        /\ Judged(handler'[h].do) =>
              \/ handler'[h].late \/ status \notin Suspended
              \/ Judged(handler[h].do) /\ handler'[h].late = handler[h].late
    BY <1>28, RenewUserTurns DEF Turns, Judged, Decided
  <2> QED BY <2>1, <2>2, LateTurns
<1>29. ASSUME NEW h \in Handlers, RenewDriver(h) PROVE LateInv'
  <2>1. UNCHANGED role /\ (status' \in Suspended => status' = status)
    BY <1>29 DEF RenewDriver, Renews, Suspended, Down
  <2>2. /\ \A g \in Handlers \ {h} : handler'[g] = handler[g]
        /\ Judged(handler'[h].do) =>
              \/ handler'[h].late \/ status \notin Suspended
              \/ Judged(handler[h].do) /\ handler'[h].late = handler[h].late
    BY <1>29, RenewDriverTurns DEF Turns, Judged, Decided
  <2> QED BY <2>1, <2>2, LateTurns
<1>30. ASSUME NEW h \in Handlers, RenewStore(h) PROVE LateInv'
  <2>1. UNCHANGED role /\ (status' \in Suspended => status' = status)
    BY <1>30 DEF RenewStore, Suspended, Down
  <2>2. /\ \A g \in Handlers \ {h} : handler'[g] = handler[g]
        /\ Judged(handler'[h].do) =>
              \/ handler'[h].late \/ status \notin Suspended
              \/ Judged(handler[h].do) /\ handler'[h].late = handler[h].late
    BY <1>30, RenewStoreTurns DEF Turns, Judged, Decided
  <2> QED BY <2>1, <2>2, LateTurns
<1>31. ASSUME NEW h \in Handlers, RenewOwner(h) PROVE LateInv'
  <2>1. UNCHANGED role /\ (status' \in Suspended => status' = status)
    BY <1>31 DEF RenewOwner, Suspended, Down
  <2>2. /\ \A g \in Handlers \ {h} : handler'[g] = handler[g]
        /\ Judged(handler'[h].do) =>
              \/ handler'[h].late \/ status \notin Suspended
              \/ Judged(handler[h].do) /\ handler'[h].late = handler[h].late
    BY <1>31, RenewOwnerTurns DEF Turns, Judged, Decided
  <2> QED BY <2>1, <2>2, LateTurns
<1>32. ASSUME NEW h \in Handlers, RotateToken(h) PROVE LateInv'
  <2>1. UNCHANGED role /\ (status' \in Suspended => status' = status)
    BY <1>32 DEF RotateToken, Suspended, Down
  <2>2. /\ \A g \in Handlers \ {h} : handler'[g] = handler[g]
        /\ Judged(handler'[h].do) =>
              \/ handler'[h].late \/ status \notin Suspended
              \/ Judged(handler[h].do) /\ handler'[h].late = handler[h].late
    BY <1>32, RotateTokenTurns DEF Turns, Judged, Decided
  <2> QED BY <2>1, <2>2, LateTurns
<1>33. ASSUME NEW h \in Handlers, CheckAccountStatus(h) PROVE LateInv'
  <2>1. UNCHANGED role /\ (status' \in Suspended => status' = status)
    BY <1>33 DEF CheckAccountStatus, Suspended, Down
  <2>2. /\ \A g \in Handlers \ {h} : handler'[g] = handler[g]
        /\ Judged(handler'[h].do) =>
              \/ handler'[h].late \/ status \notin Suspended
              \/ Judged(handler[h].do) /\ handler'[h].late = handler[h].late
    BY <1>33, CheckAccountStatusTurns DEF Turns, Judged, Decided
  <2> QED BY <2>1, <2>2, LateTurns
<1>34. ASSUME NEW h \in Handlers, FillCache(h) PROVE LateInv'
  <2>1. UNCHANGED role /\ (status' \in Suspended => status' = status)
    BY <1>34 DEF FillCache, Suspended, Down
  <2>2. /\ \A g \in Handlers \ {h} : handler'[g] = handler[g]
        /\ Judged(handler'[h].do) =>
              \/ handler'[h].late \/ status \notin Suspended
              \/ Judged(handler[h].do) /\ handler'[h].late = handler[h].late
    BY <1>34, FillCacheTurns DEF Turns, Judged, Decided
  <2> QED BY <2>1, <2>2, LateTurns
<1>35. ASSUME NEW h \in Handlers, RevokeAccess(h) PROVE LateInv'
  <2>1. UNCHANGED role /\ (status' \in Suspended => status' = status)
    BY <1>35 DEF RevokeAccess, Suspended, Down
  <2>2. /\ \A g \in Handlers \ {h} : handler'[g] = handler[g]
        /\ Judged(handler'[h].do) =>
              \/ handler'[h].late \/ status \notin Suspended
              \/ Judged(handler[h].do) /\ handler'[h].late = handler[h].late
    BY <1>35, RevokeAccessTurns DEF Turns, Judged, Decided
  <2> QED BY <2>1, <2>2, LateTurns
<1>36. ASSUME NEW h \in Handlers, Crash(h) PROVE LateInv'
  <2>1. UNCHANGED role /\ (status' \in Suspended => status' = status)
    BY <1>36 DEF Crash, Suspended, Down
  <2>2. /\ \A g \in Handlers \ {h} : handler'[g] = handler[g]
        /\ Judged(handler'[h].do) =>
              \/ handler'[h].late \/ status \notin Suspended
              \/ Judged(handler[h].do) /\ handler'[h].late = handler[h].late
    BY <1>36, CrashTurns DEF Turns, Judged, Decided
  <2> QED BY <2>1, <2>2, LateTurns
<1>37. ASSUME NEW h \in Handlers, NEW to \in Status, UpdateUserStatus(h, to)
       PROVE  LateInv'
  <2>1. UNCHANGED role
    BY <1>37 DEF UpdateUserStatus, SetStatus
  <2> QED BY <1>37, <2>1, UpdateUserStatusTurns, LateOvertakes
<1>38. ASSUME NEW h \in Handlers, NEW to \in Status, UpdateDriverStatus(h, to)
       PROVE  LateInv'
  <2>1. UNCHANGED role
    BY <1>38 DEF UpdateDriverStatus, SetStatus
  <2> QED BY <1>38, <2>1, UpdateDriverStatusTurns, LateOvertakes
<1>39. ASSUME NEW h \in Handlers, NEW to \in Status, UpdateStoreOwnerStatus(h, to)
       PROVE  LateInv'
  <2>1. UNCHANGED role
    BY <1>39 DEF UpdateStoreOwnerStatus, SetStatus
  <2> QED BY <1>39, <2>1, UpdateStoreOwnerStatusTurns, LateOvertakes
<1>40. ASSUME NEW h \in Handlers, NEW to \in Status, ToggleStoreStatus(h, to)
       PROVE  LateInv'
  <2>1. UNCHANGED role
    BY <1>40 DEF ToggleStoreStatus, SetStatus
  <2> QED BY <1>40, <2>1, ToggleStoreStatusTurns, LateOvertakes
<1>41. ASSUME NEW h \in Handlers, BulkDeactivate(h) PROVE LateInv'
  <2>1. UNCHANGED role
    BY <1>41 DEF BulkDeactivate, SetStatus
  <2> QED BY <1>41, <2>1, BulkDeactivateTurns, LateOvertakes
<1>42. ASSUME NEW h \in Handlers, BulkDeactivateDrivers(h) PROVE LateInv'
  <2>1. UNCHANGED role
    BY <1>42 DEF BulkDeactivateDrivers
  <2> QED BY <1>42, <2>1, BulkDeactivateDriversTurns, LateOvertakes
<1>43. CASE CreateStoreOwner
  <2>1. UNCHANGED <<role, handler>> /\ (status' \in Suspended => status' = status)
    BY <1>43 DEF CreateStoreOwner, Suspended, Down
  <2> QED BY <2>1 DEF LateInv, Judged, Suspended
<1>44. ASSUME NEW v \in BOOLEAN, CreateStore(v) PROVE LateInv'
  <2>1. UNCHANGED <<role, handler>> /\ (status' \in Suspended => status' = status)
    BY <1>44 DEF CreateStore, Suspended, Down
  <2> QED BY <2>1 DEF LateInv, Judged, Suspended
<1>45. ASSUME NEW v \in BOOLEAN, AdminVerifies(v) PROVE LateInv'
  <2>1. UNCHANGED <<role, handler>> /\ (status' \in Suspended => status' = status)
    BY <1>45 DEF AdminVerifies, Suspended, Down
  <2> QED BY <2>1 DEF LateInv, Judged, Suspended
<1>46. ASSUME NEW t \in Tokens, Logout(t) PROVE LateInv'
  <2>1. UNCHANGED <<role, handler>> /\ (status' \in Suspended => status' = status)
    BY <1>46 DEF Logout, Suspended, Down
  <2> QED BY <2>1 DEF LateInv, Judged, Suspended
<1>47. ASSUME NEW t \in Tokens, OwnerLogsOut(t) PROVE LateInv'
  <2>1. UNCHANGED <<role, handler>> /\ (status' \in Suspended => status' = status)
    BY <1>47 DEF OwnerLogsOut, Suspended, Down
  <2> QED BY <2>1 DEF LateInv, Judged, Suspended
<1>48. ASSUME NEW t \in Tokens, ExpireSession(t) PROVE LateInv'
  <2>1. UNCHANGED <<role, handler>> /\ (status' \in Suspended => status' = status)
    BY <1>48 DEF ExpireSession, Suspended, Down
  <2> QED BY <2>1 DEF LateInv, Judged, Suspended
<1>49. CASE UpdateUserDetails
  <2>1. UNCHANGED <<role, handler>> /\ (status' \in Suspended => status' = status)
    BY <1>49 DEF UpdateUserDetails, DropsProfile, Suspended, Down
  <2> QED BY <2>1 DEF LateInv, Judged, Suspended
<1>50. CASE CompleteProfile
  <2>1. UNCHANGED <<role, handler>> /\ (status' \in Suspended => status' = status)
    BY <1>50 DEF CompleteProfile, DropsProfile, Suspended, Down
  <2> QED BY <2>1 DEF LateInv, Judged, Suspended
<1>51. CASE Expire
  <2>1. UNCHANGED <<role, handler>> /\ (status' \in Suspended => status' = status)
    BY <1>51 DEF Expire, Suspended, Down
  <2> QED BY <2>1 DEF LateInv, Judged, Suspended
<1>52. CASE ExpireCache
  <2>1. UNCHANGED <<role, handler>> /\ (status' \in Suspended => status' = status)
    BY <1>52 DEF ExpireCache, Suspended, Down
  <2> QED BY <2>1 DEF LateInv, Judged, Suspended
<1>53. CASE UNCHANGED vars
  BY <1>53 DEF vars, LateInv, Judged, Suspended
<1> QED BY <1>1, <1>2, <1>3, <1>4, <1>5, <1>6, <1>7, <1>8, <1>9, <1>10, <1>11,
           <1>12, <1>13, <1>14, <1>15, <1>16, <1>17, <1>18, <1>19, <1>20, <1>21,
           <1>22, <1>23, <1>24, <1>25, <1>26, <1>27, <1>28, <1>29, <1>30, <1>31,
           <1>32, <1>33, <1>34, <1>35, <1>36, <1>37, <1>38, <1>39, <1>40, <1>41,
           <1>42, <1>43, <1>44, <1>45, <1>46, <1>47, <1>48, <1>49, <1>50, <1>51,
           <1>52, <1>53
           DEF Next, Step

(* Sessions and statuses of a suspended account. *)

\* SuspendedGetsNoSession, of one step.
OpensLate ==
    sessions' \ sessions # {} /\ status \in Suspended =>
       \E h \in Handlers : handler'[h] # handler[h] /\ handler[h].late

\* SuspensionHolds, of one step.
RaisedLate ==
    status' # status /\ status \in Suspended =>
       \E h \in Handlers :
          handler'[h] # handler[h] /\ (handler[h].late \/ handler'[h].do = "revoke")

\* No step opens a session of a suspended account but that of a late request.
LEMMA NoSessionStep == Types /\ LateInv /\ [Next]_vars => OpensLate
<1> SUFFICES ASSUME Types, LateInv, [Next]_vars PROVE OpensLate
  OBVIOUS
<1>1. ASSUME NEW h \in Handlers, AuthUser(h) PROVE OpensLate
  <2>1. sessions' \subseteq sessions
    BY <1>1 DEF AuthUser
  <2> QED BY <2>1 DEF OpensLate
<1>2. ASSUME NEW h \in Handlers, SendOTPUser(h) PROVE OpensLate
  <2>1. sessions' \subseteq sessions
    BY <1>2 DEF SendOTPUser
  <2> QED BY <2>1 DEF OpensLate
<1>3. ASSUME NEW h \in Handlers, AuthDriver(h) PROVE OpensLate
  <2>1. sessions' \subseteq sessions
    BY <1>3 DEF AuthDriver
  <2> QED BY <2>1 DEF OpensLate
<1>4. ASSUME NEW h \in Handlers, SendOTPDriver(h) PROVE OpensLate
  <2>1. sessions' \subseteq sessions
    BY <1>4 DEF SendOTPDriver
  <2> QED BY <2>1 DEF OpensLate
<1>5. ASSUME NEW h \in Handlers, RegisterStoreOwner(h) PROVE OpensLate
  <2>1. sessions' \subseteq sessions
    BY <1>5 DEF RegisterStoreOwner
  <2> QED BY <2>1 DEF OpensLate
<1>6. ASSUME NEW h \in Handlers, LoginStoreOwner(h) PROVE OpensLate
  <2>1. sessions' \subseteq sessions
    BY <1>6 DEF LoginStoreOwner
  <2> QED BY <2>1 DEF OpensLate
<1>7. ASSUME NEW h \in Handlers, SendOTPOwner(h) PROVE OpensLate
  <2>1. sessions' \subseteq sessions
    BY <1>7 DEF SendOTPOwner
  <2> QED BY <2>1 DEF OpensLate
<1>8. ASSUME NEW h \in Handlers, AskForNewNumber(h) PROVE OpensLate
  <2>1. sessions' \subseteq sessions
    BY <1>8 DEF AskForNewNumber
  <2> QED BY <2>1 DEF OpensLate
<1>9. ASSUME NEW h \in Handlers, LoginStore(h) PROVE OpensLate
  <2>1. sessions' \subseteq sessions
    BY <1>9 DEF LoginStore
  <2> QED BY <2>1 DEF OpensLate
<1>10. ASSUME NEW h \in Handlers, UserVerifies(h) PROVE OpensLate
  <2>1. sessions' \subseteq sessions
    BY <1>10 DEF UserVerifies, VerifyGate
  <2> QED BY <2>1 DEF OpensLate
<1>11. ASSUME NEW h \in Handlers, DriverVerifies(h) PROVE OpensLate
  <2>1. sessions' \subseteq sessions
    BY <1>11 DEF DriverVerifies, VerifyGate
  <2> QED BY <2>1 DEF OpensLate
<1>12. ASSUME NEW h \in Handlers, OwnerVerifies(h) PROVE OpensLate
  <2>1. sessions' \subseteq sessions
    BY <1>12 DEF OwnerVerifies, VerifyGate
  <2> QED BY <2>1 DEF OpensLate
<1>13. ASSUME NEW h \in Handlers, StoreVerifies(h) PROVE OpensLate
  <2>1. sessions' \subseteq sessions
    BY <1>13 DEF StoreVerifies, VerifyGate
  <2> QED BY <2>1 DEF OpensLate
<1>14. ASSUME NEW h \in Handlers, ChangeNumber(h) PROVE OpensLate
  <2>1. sessions' \subseteq sessions
    BY <1>14 DEF ChangeNumber, VerifyGate
  <2> QED BY <2>1 DEF OpensLate
<1>15. ASSUME NEW h \in Handlers, IssueOTP(h) PROVE OpensLate
  <2>1. sessions' \subseteq sessions
    BY <1>15 DEF IssueOTP
  <2> QED BY <2>1 DEF OpensLate
<1>16. ASSUME NEW h \in Handlers, ReadFirst(h) PROVE OpensLate
  <2>1. sessions' \subseteq sessions
    BY <1>16 DEF ReadFirst
  <2> QED BY <2>1 DEF OpensLate
<1>17. ASSUME NEW h \in Handlers, CompareOTP(h) PROVE OpensLate
  <2>1. sessions' \subseteq sessions
    BY <1>17 DEF CompareOTP
  <2> QED BY <2>1 DEF OpensLate
<1>18. ASSUME NEW h \in Handlers, ReadUser(h) PROVE OpensLate
  <2>1. sessions' \subseteq sessions
    BY <1>18 DEF ReadUser
  <2> QED BY <2>1 DEF OpensLate
<1>19. ASSUME NEW h \in Handlers, ReadOwner(h) PROVE OpensLate
  <2>1. sessions' \subseteq sessions
    BY <1>19 DEF ReadOwner
  <2> QED BY <2>1 DEF OpensLate
<1>20. ASSUME NEW h \in Handlers, CreateAccount(h) PROVE OpensLate
  <2>1. sessions' \subseteq sessions
    BY <1>20 DEF CreateAccount
  <2> QED BY <2>1 DEF OpensLate
<1>21. ASSUME NEW h \in Handlers, CleanupOTPKeys(h) PROVE OpensLate
  <2>1. sessions' \subseteq sessions
    BY <1>21 DEF CleanupOTPKeys
  <2> QED BY <2>1 DEF OpensLate
<1>22. ASSUME NEW h \in Handlers, ClaimNumber(h) PROVE OpensLate
  <2>1. sessions' \subseteq sessions
    BY <1>22 DEF ClaimNumber
  <2> QED BY <2>1 DEF OpensLate
<1>23. ASSUME NEW h \in Handlers, GenerateTokenPair(h) PROVE OpensLate
  <2>1. handler[h].do \in {"session", "new_session"} /\ handler'[h].do \in {"idle", "write"}
    BY <1>23, GenerateTokenPairTurns DEF Turns
  <2>2. status \in Suspended => handler[h].late
    BY <2>1 DEF LateInv, Judged, Decided
  <2>3. handler'[h] # handler[h]
    BY <2>1
  <2> QED BY <2>2, <2>3 DEF OpensLate
<1>24. ASSUME NEW h \in Handlers, WriteDriver(h) PROVE OpensLate
  <2>1. sessions' \subseteq sessions
    BY <1>24 DEF WriteDriver
  <2> QED BY <2>1 DEF OpensLate
<1>25. ASSUME NEW h \in Handlers, WriteStore(h) PROVE OpensLate
  <2>1. sessions' \subseteq sessions
    BY <1>25 DEF WriteStore
  <2> QED BY <2>1 DEF OpensLate
<1>26. ASSUME NEW h \in Handlers, WriteOwner(h) PROVE OpensLate
  <2>1. sessions' \subseteq sessions
    BY <1>26 DEF WriteOwner
  <2> QED BY <2>1 DEF OpensLate
<1>27. ASSUME NEW h \in Handlers, NEW t \in Tokens, RefreshToken(h, t) PROVE OpensLate
  <2>1. sessions' \subseteq sessions
    BY <1>27 DEF RefreshToken
  <2> QED BY <2>1 DEF OpensLate
<1>28. ASSUME NEW h \in Handlers, RenewUser(h) PROVE OpensLate
  <2>1. sessions' \subseteq sessions
    BY <1>28 DEF RenewUser, Renews
  <2> QED BY <2>1 DEF OpensLate
<1>29. ASSUME NEW h \in Handlers, RenewDriver(h) PROVE OpensLate
  <2>1. sessions' \subseteq sessions
    BY <1>29 DEF RenewDriver, Renews
  <2> QED BY <2>1 DEF OpensLate
<1>30. ASSUME NEW h \in Handlers, RenewStore(h) PROVE OpensLate
  <2>1. sessions' \subseteq sessions
    BY <1>30 DEF RenewStore
  <2> QED BY <2>1 DEF OpensLate
<1>31. ASSUME NEW h \in Handlers, RenewOwner(h) PROVE OpensLate
  <2>1. sessions' \subseteq sessions
    BY <1>31 DEF RenewOwner
  <2> QED BY <2>1 DEF OpensLate
<1>32. ASSUME NEW h \in Handlers, RotateToken(h) PROVE OpensLate
  <2>1. sessions' \subseteq sessions
    BY <1>32 DEF RotateToken
  <2> QED BY <2>1 DEF OpensLate
<1>33. ASSUME NEW h \in Handlers, CheckAccountStatus(h) PROVE OpensLate
  <2>1. sessions' \subseteq sessions
    BY <1>33 DEF CheckAccountStatus
  <2> QED BY <2>1 DEF OpensLate
<1>34. ASSUME NEW h \in Handlers, FillCache(h) PROVE OpensLate
  <2>1. sessions' \subseteq sessions
    BY <1>34 DEF FillCache
  <2> QED BY <2>1 DEF OpensLate
<1>35. ASSUME NEW h \in Handlers, RevokeAccess(h) PROVE OpensLate
  <2>1. sessions' \subseteq sessions
    BY <1>35 DEF RevokeAccess
  <2> QED BY <2>1 DEF OpensLate
<1>36. ASSUME NEW h \in Handlers, Crash(h) PROVE OpensLate
  <2>1. sessions' \subseteq sessions
    BY <1>36 DEF Crash
  <2> QED BY <2>1 DEF OpensLate
<1>37. ASSUME NEW h \in Handlers, NEW to \in Status, UpdateUserStatus(h, to)
       PROVE  OpensLate
  <2>1. sessions' \subseteq sessions
    BY <1>37 DEF UpdateUserStatus, SetStatus
  <2> QED BY <2>1 DEF OpensLate
<1>38. ASSUME NEW h \in Handlers, NEW to \in Status, UpdateDriverStatus(h, to)
       PROVE  OpensLate
  <2>1. sessions' \subseteq sessions
    BY <1>38 DEF UpdateDriverStatus, SetStatus
  <2> QED BY <2>1 DEF OpensLate
<1>39. ASSUME NEW h \in Handlers, NEW to \in Status, UpdateStoreOwnerStatus(h, to)
       PROVE  OpensLate
  <2>1. sessions' \subseteq sessions
    BY <1>39 DEF UpdateStoreOwnerStatus, SetStatus
  <2> QED BY <2>1 DEF OpensLate
<1>40. ASSUME NEW h \in Handlers, NEW to \in Status, ToggleStoreStatus(h, to)
       PROVE  OpensLate
  <2>1. sessions' \subseteq sessions
    BY <1>40 DEF ToggleStoreStatus, SetStatus
  <2> QED BY <2>1 DEF OpensLate
<1>41. ASSUME NEW h \in Handlers, BulkDeactivate(h) PROVE OpensLate
  <2>1. sessions' \subseteq sessions
    BY <1>41 DEF BulkDeactivate, SetStatus
  <2> QED BY <2>1 DEF OpensLate
<1>42. ASSUME NEW h \in Handlers, BulkDeactivateDrivers(h) PROVE OpensLate
  <2>1. sessions' \subseteq sessions
    BY <1>42 DEF BulkDeactivateDrivers
  <2> QED BY <2>1 DEF OpensLate
<1>43. CASE CreateStoreOwner
  <2>1. sessions' \subseteq sessions
    BY <1>43 DEF CreateStoreOwner
  <2> QED BY <2>1 DEF OpensLate
<1>44. ASSUME NEW v \in BOOLEAN, CreateStore(v) PROVE OpensLate
  <2>1. sessions' \subseteq sessions
    BY <1>44 DEF CreateStore
  <2> QED BY <2>1 DEF OpensLate
<1>45. ASSUME NEW v \in BOOLEAN, AdminVerifies(v) PROVE OpensLate
  <2>1. sessions' \subseteq sessions
    BY <1>45 DEF AdminVerifies
  <2> QED BY <2>1 DEF OpensLate
<1>46. ASSUME NEW t \in Tokens, Logout(t) PROVE OpensLate
  <2>1. sessions' \subseteq sessions
    BY <1>46 DEF Logout
  <2> QED BY <2>1 DEF OpensLate
<1>47. ASSUME NEW t \in Tokens, OwnerLogsOut(t) PROVE OpensLate
  <2>1. sessions' \subseteq sessions
    BY <1>47 DEF OwnerLogsOut
  <2> QED BY <2>1 DEF OpensLate
<1>48. ASSUME NEW t \in Tokens, ExpireSession(t) PROVE OpensLate
  <2>1. sessions' \subseteq sessions
    BY <1>48 DEF ExpireSession
  <2> QED BY <2>1 DEF OpensLate
<1>49. CASE UpdateUserDetails
  <2>1. sessions' \subseteq sessions
    BY <1>49 DEF UpdateUserDetails, DropsProfile
  <2> QED BY <2>1 DEF OpensLate
<1>50. CASE CompleteProfile
  <2>1. sessions' \subseteq sessions
    BY <1>50 DEF CompleteProfile, DropsProfile
  <2> QED BY <2>1 DEF OpensLate
<1>51. CASE Expire
  <2>1. sessions' \subseteq sessions
    BY <1>51 DEF Expire
  <2> QED BY <2>1 DEF OpensLate
<1>52. CASE ExpireCache
  <2>1. sessions' \subseteq sessions
    BY <1>52 DEF ExpireCache
  <2> QED BY <2>1 DEF OpensLate
<1>53. CASE UNCHANGED vars
  BY <1>53 DEF vars, OpensLate
<1> QED BY <1>1, <1>2, <1>3, <1>4, <1>5, <1>6, <1>7, <1>8, <1>9, <1>10, <1>11,
           <1>12, <1>13, <1>14, <1>15, <1>16, <1>17, <1>18, <1>19, <1>20, <1>21,
           <1>22, <1>23, <1>24, <1>25, <1>26, <1>27, <1>28, <1>29, <1>30, <1>31,
           <1>32, <1>33, <1>34, <1>35, <1>36, <1>37, <1>38, <1>39, <1>40, <1>41,
           <1>42, <1>43, <1>44, <1>45, <1>46, <1>47, <1>48, <1>49, <1>50, <1>51,
           <1>52, <1>53
           DEF Next, Step

\* No step ends a suspension but that of a late request or an administrator.
LEMMA HoldsStep == Types /\ LateInv /\ [Next]_vars => RaisedLate
<1> SUFFICES ASSUME Types, LateInv, [Next]_vars PROVE RaisedLate
  OBVIOUS
<1>1. ASSUME NEW h \in Handlers, AuthUser(h) PROVE RaisedLate
  <2>1. UNCHANGED status \/ status = "none"
    BY <1>1 DEF AuthUser
  <2> QED BY <2>1 DEF RaisedLate, Suspended, Down
<1>2. ASSUME NEW h \in Handlers, SendOTPUser(h) PROVE RaisedLate
  <2>1. UNCHANGED status \/ status = "none"
    BY <1>2 DEF SendOTPUser
  <2> QED BY <2>1 DEF RaisedLate, Suspended, Down
<1>3. ASSUME NEW h \in Handlers, AuthDriver(h) PROVE RaisedLate
  <2>1. UNCHANGED status \/ status = "none"
    BY <1>3 DEF AuthDriver
  <2> QED BY <2>1 DEF RaisedLate, Suspended, Down
<1>4. ASSUME NEW h \in Handlers, SendOTPDriver(h) PROVE RaisedLate
  <2>1. UNCHANGED status \/ status = "none"
    BY <1>4 DEF SendOTPDriver
  <2> QED BY <2>1 DEF RaisedLate, Suspended, Down
<1>5. ASSUME NEW h \in Handlers, RegisterStoreOwner(h) PROVE RaisedLate
  <2>1. UNCHANGED status \/ status = "none"
    BY <1>5 DEF RegisterStoreOwner
  <2> QED BY <2>1 DEF RaisedLate, Suspended, Down
<1>6. ASSUME NEW h \in Handlers, LoginStoreOwner(h) PROVE RaisedLate
  <2>1. UNCHANGED status \/ status = "none"
    BY <1>6 DEF LoginStoreOwner
  <2> QED BY <2>1 DEF RaisedLate, Suspended, Down
<1>7. ASSUME NEW h \in Handlers, SendOTPOwner(h) PROVE RaisedLate
  <2>1. UNCHANGED status \/ status = "none"
    BY <1>7 DEF SendOTPOwner
  <2> QED BY <2>1 DEF RaisedLate, Suspended, Down
<1>8. ASSUME NEW h \in Handlers, AskForNewNumber(h) PROVE RaisedLate
  <2>1. UNCHANGED status \/ status = "none"
    BY <1>8 DEF AskForNewNumber
  <2> QED BY <2>1 DEF RaisedLate, Suspended, Down
<1>9. ASSUME NEW h \in Handlers, LoginStore(h) PROVE RaisedLate
  <2>1. UNCHANGED status \/ status = "none"
    BY <1>9 DEF LoginStore
  <2> QED BY <2>1 DEF RaisedLate, Suspended, Down
<1>10. ASSUME NEW h \in Handlers, UserVerifies(h) PROVE RaisedLate
  <2>1. UNCHANGED status \/ status = "none"
    BY <1>10 DEF UserVerifies, VerifyGate
  <2> QED BY <2>1 DEF RaisedLate, Suspended, Down
<1>11. ASSUME NEW h \in Handlers, DriverVerifies(h) PROVE RaisedLate
  <2>1. UNCHANGED status \/ status = "none"
    BY <1>11 DEF DriverVerifies, VerifyGate
  <2> QED BY <2>1 DEF RaisedLate, Suspended, Down
<1>12. ASSUME NEW h \in Handlers, OwnerVerifies(h) PROVE RaisedLate
  <2>1. UNCHANGED status \/ status = "none"
    BY <1>12 DEF OwnerVerifies, VerifyGate
  <2> QED BY <2>1 DEF RaisedLate, Suspended, Down
<1>13. ASSUME NEW h \in Handlers, StoreVerifies(h) PROVE RaisedLate
  <2>1. UNCHANGED status \/ status = "none"
    BY <1>13 DEF StoreVerifies, VerifyGate
  <2> QED BY <2>1 DEF RaisedLate, Suspended, Down
<1>14. ASSUME NEW h \in Handlers, ChangeNumber(h) PROVE RaisedLate
  <2>1. UNCHANGED status \/ status = "none"
    BY <1>14 DEF ChangeNumber, VerifyGate
  <2> QED BY <2>1 DEF RaisedLate, Suspended, Down
<1>15. ASSUME NEW h \in Handlers, IssueOTP(h) PROVE RaisedLate
  <2>1. UNCHANGED status \/ status = "none"
    BY <1>15 DEF IssueOTP
  <2> QED BY <2>1 DEF RaisedLate, Suspended, Down
<1>16. ASSUME NEW h \in Handlers, ReadFirst(h) PROVE RaisedLate
  <2>1. UNCHANGED status \/ status = "none"
    BY <1>16 DEF ReadFirst
  <2> QED BY <2>1 DEF RaisedLate, Suspended, Down
<1>17. ASSUME NEW h \in Handlers, CompareOTP(h) PROVE RaisedLate
  <2>1. UNCHANGED status \/ status = "none"
    BY <1>17 DEF CompareOTP
  <2> QED BY <2>1 DEF RaisedLate, Suspended, Down
<1>18. ASSUME NEW h \in Handlers, ReadUser(h) PROVE RaisedLate
  <2>1. UNCHANGED status \/ status = "none"
    BY <1>18 DEF ReadUser
  <2> QED BY <2>1 DEF RaisedLate, Suspended, Down
<1>19. ASSUME NEW h \in Handlers, ReadOwner(h) PROVE RaisedLate
  <2>1. UNCHANGED status \/ status = "none"
    BY <1>19 DEF ReadOwner
  <2> QED BY <2>1 DEF RaisedLate, Suspended, Down
<1>20. ASSUME NEW h \in Handlers, CreateAccount(h) PROVE RaisedLate
  <2>1. UNCHANGED status \/ status = "none"
    BY <1>20 DEF CreateAccount
  <2> QED BY <2>1 DEF RaisedLate, Suspended, Down
<1>21. ASSUME NEW h \in Handlers, CleanupOTPKeys(h) PROVE RaisedLate
  <2>1. UNCHANGED status \/ status = "none"
    BY <1>21 DEF CleanupOTPKeys
  <2> QED BY <2>1 DEF RaisedLate, Suspended, Down
<1>22. ASSUME NEW h \in Handlers, ClaimNumber(h) PROVE RaisedLate
  <2>1. UNCHANGED status \/ status = "none"
    BY <1>22 DEF ClaimNumber
  <2> QED BY <2>1 DEF RaisedLate, Suspended, Down
<1>23. ASSUME NEW h \in Handlers, GenerateTokenPair(h) PROVE RaisedLate
  <2>1. UNCHANGED status \/ status = "none"
    BY <1>23 DEF GenerateTokenPair
  <2> QED BY <2>1 DEF RaisedLate, Suspended, Down
<1>24. ASSUME NEW h \in Handlers, WriteDriver(h) PROVE RaisedLate
  <2>1. handler[h].do = "write" /\ handler'[h] # handler[h]
    BY <1>24, WriteDriverTurns DEF Turns
  <2>2. status \in Suspended => handler[h].late
    BY <2>1 DEF LateInv, Judged, Decided
  <2> QED BY <2>1, <2>2 DEF RaisedLate
<1>25. ASSUME NEW h \in Handlers, WriteStore(h) PROVE RaisedLate
  <2>1. UNCHANGED status \/ status = "none"
    BY <1>25 DEF WriteStore
  <2> QED BY <2>1 DEF RaisedLate, Suspended, Down
<1>26. ASSUME NEW h \in Handlers, WriteOwner(h) PROVE RaisedLate
  <2>1. handler[h].do = "write" /\ handler'[h] # handler[h]
    BY <1>26, WriteOwnerTurns DEF Turns
  <2>2. status \in Suspended => handler[h].late
    BY <2>1 DEF LateInv, Judged, Decided
  <2> QED BY <2>1, <2>2 DEF RaisedLate
<1>27. ASSUME NEW h \in Handlers, NEW t \in Tokens, RefreshToken(h, t) PROVE RaisedLate
  <2>1. UNCHANGED status \/ status = "none"
    BY <1>27 DEF RefreshToken
  <2> QED BY <2>1 DEF RaisedLate, Suspended, Down
<1>28. ASSUME NEW h \in Handlers, RenewUser(h) PROVE RaisedLate
  <2>1. UNCHANGED status \/ status = "none"
    BY <1>28 DEF RenewUser, Renews
  <2> QED BY <2>1 DEF RaisedLate, Suspended, Down
<1>29. ASSUME NEW h \in Handlers, RenewDriver(h) PROVE RaisedLate
  <2>1. UNCHANGED status \/ status = "none"
    BY <1>29 DEF RenewDriver, Renews
  <2> QED BY <2>1 DEF RaisedLate, Suspended, Down
<1>30. ASSUME NEW h \in Handlers, RenewStore(h) PROVE RaisedLate
  <2>1. UNCHANGED status \/ status = "none"
    BY <1>30 DEF RenewStore
  <2> QED BY <2>1 DEF RaisedLate, Suspended, Down
<1>31. ASSUME NEW h \in Handlers, RenewOwner(h) PROVE RaisedLate
  <2>1. UNCHANGED status \/ status = "none"
    BY <1>31 DEF RenewOwner
  <2> QED BY <2>1 DEF RaisedLate, Suspended, Down
<1>32. ASSUME NEW h \in Handlers, RotateToken(h) PROVE RaisedLate
  <2>1. UNCHANGED status \/ status = "none"
    BY <1>32 DEF RotateToken
  <2> QED BY <2>1 DEF RaisedLate, Suspended, Down
<1>33. ASSUME NEW h \in Handlers, CheckAccountStatus(h) PROVE RaisedLate
  <2>1. UNCHANGED status \/ status = "none"
    BY <1>33 DEF CheckAccountStatus
  <2> QED BY <2>1 DEF RaisedLate, Suspended, Down
<1>34. ASSUME NEW h \in Handlers, FillCache(h) PROVE RaisedLate
  <2>1. UNCHANGED status \/ status = "none"
    BY <1>34 DEF FillCache
  <2> QED BY <2>1 DEF RaisedLate, Suspended, Down
<1>35. ASSUME NEW h \in Handlers, RevokeAccess(h) PROVE RaisedLate
  <2>1. UNCHANGED status \/ status = "none"
    BY <1>35 DEF RevokeAccess
  <2> QED BY <2>1 DEF RaisedLate, Suspended, Down
<1>36. ASSUME NEW h \in Handlers, Crash(h) PROVE RaisedLate
  <2>1. UNCHANGED status \/ status = "none"
    BY <1>36 DEF Crash
  <2> QED BY <2>1 DEF RaisedLate, Suspended, Down
<1>37. ASSUME NEW h \in Handlers, NEW to \in Status, UpdateUserStatus(h, to)
       PROVE  RaisedLate
  <2>1. handler[h].do = "idle" /\ handler'[h].do = "revoke"
    BY <1>37, UpdateUserStatusTurns, IdleFields
  <2>2. handler'[h] # handler[h]
    BY <2>1
  <2> QED BY <2>1, <2>2 DEF RaisedLate
<1>38. ASSUME NEW h \in Handlers, NEW to \in Status, UpdateDriverStatus(h, to)
       PROVE  RaisedLate
  <2>1. handler[h].do = "idle" /\ handler'[h].do = "revoke"
    BY <1>38, UpdateDriverStatusTurns, IdleFields
  <2>2. handler'[h] # handler[h]
    BY <2>1
  <2> QED BY <2>1, <2>2 DEF RaisedLate
<1>39. ASSUME NEW h \in Handlers, NEW to \in Status, UpdateStoreOwnerStatus(h, to)
       PROVE  RaisedLate
  <2>1. handler[h].do = "idle" /\ handler'[h].do = "revoke"
    BY <1>39, UpdateStoreOwnerStatusTurns, IdleFields
  <2>2. handler'[h] # handler[h]
    BY <2>1
  <2> QED BY <2>1, <2>2 DEF RaisedLate
<1>40. ASSUME NEW h \in Handlers, NEW to \in Status, ToggleStoreStatus(h, to)
       PROVE  RaisedLate
  <2>1. handler[h].do = "idle" /\ handler'[h].do = "revoke"
    BY <1>40, ToggleStoreStatusTurns, IdleFields
  <2>2. handler'[h] # handler[h]
    BY <2>1
  <2> QED BY <2>1, <2>2 DEF RaisedLate
<1>41. ASSUME NEW h \in Handlers, BulkDeactivate(h) PROVE RaisedLate
  <2>1. handler[h].do = "idle" /\ handler'[h].do = "revoke"
    BY <1>41, BulkDeactivateTurns, IdleFields
  <2>2. handler'[h] # handler[h]
    BY <2>1
  <2> QED BY <2>1, <2>2 DEF RaisedLate
<1>42. ASSUME NEW h \in Handlers, BulkDeactivateDrivers(h) PROVE RaisedLate
  <2>1. handler[h].do = "idle" /\ handler'[h].do = "revoke"
    BY <1>42, BulkDeactivateDriversTurns, IdleFields
  <2>2. handler'[h] # handler[h]
    BY <2>1
  <2> QED BY <2>1, <2>2 DEF RaisedLate
<1>43. CASE CreateStoreOwner
  <2>1. UNCHANGED status \/ status = "none"
    BY <1>43 DEF CreateStoreOwner
  <2> QED BY <2>1 DEF RaisedLate, Suspended, Down
<1>44. ASSUME NEW v \in BOOLEAN, CreateStore(v) PROVE RaisedLate
  <2>1. UNCHANGED status \/ status = "none"
    BY <1>44 DEF CreateStore
  <2> QED BY <2>1 DEF RaisedLate, Suspended, Down
<1>45. ASSUME NEW v \in BOOLEAN, AdminVerifies(v) PROVE RaisedLate
  <2>1. UNCHANGED status \/ status = "none"
    BY <1>45 DEF AdminVerifies
  <2> QED BY <2>1 DEF RaisedLate, Suspended, Down
<1>46. ASSUME NEW t \in Tokens, Logout(t) PROVE RaisedLate
  <2>1. UNCHANGED status \/ status = "none"
    BY <1>46 DEF Logout
  <2> QED BY <2>1 DEF RaisedLate, Suspended, Down
<1>47. ASSUME NEW t \in Tokens, OwnerLogsOut(t) PROVE RaisedLate
  <2>1. UNCHANGED status \/ status = "none"
    BY <1>47 DEF OwnerLogsOut
  <2> QED BY <2>1 DEF RaisedLate, Suspended, Down
<1>48. ASSUME NEW t \in Tokens, ExpireSession(t) PROVE RaisedLate
  <2>1. UNCHANGED status \/ status = "none"
    BY <1>48 DEF ExpireSession
  <2> QED BY <2>1 DEF RaisedLate, Suspended, Down
<1>49. CASE UpdateUserDetails
  <2>1. UNCHANGED status \/ status = "none"
    BY <1>49 DEF UpdateUserDetails, DropsProfile
  <2> QED BY <2>1 DEF RaisedLate, Suspended, Down
<1>50. CASE CompleteProfile
  <2>1. UNCHANGED status \/ status = "none"
    BY <1>50 DEF CompleteProfile, DropsProfile
  <2> QED BY <2>1 DEF RaisedLate, Suspended, Down
<1>51. CASE Expire
  <2>1. UNCHANGED status \/ status = "none"
    BY <1>51 DEF Expire
  <2> QED BY <2>1 DEF RaisedLate, Suspended, Down
<1>52. CASE ExpireCache
  <2>1. UNCHANGED status \/ status = "none"
    BY <1>52 DEF ExpireCache
  <2> QED BY <2>1 DEF RaisedLate, Suspended, Down
<1>53. CASE UNCHANGED vars
  BY <1>53 DEF vars, RaisedLate
<1> QED BY <1>1, <1>2, <1>3, <1>4, <1>5, <1>6, <1>7, <1>8, <1>9, <1>10, <1>11,
           <1>12, <1>13, <1>14, <1>15, <1>16, <1>17, <1>18, <1>19, <1>20, <1>21,
           <1>22, <1>23, <1>24, <1>25, <1>26, <1>27, <1>28, <1>29, <1>30, <1>31,
           <1>32, <1>33, <1>34, <1>35, <1>36, <1>37, <1>38, <1>39, <1>40, <1>41,
           <1>42, <1>43, <1>44, <1>45, <1>46, <1>47, <1>48, <1>49, <1>50, <1>51,
           <1>52, <1>53
           DEF Next, Step

(* The theorems. *)

\* The invariant holds in the beginning.
LEMMA InitHolds == Init => AccountsInv
<1> SUFFICES ASSUME Init PROVE AccountsInv
  OBVIOUS
<1>1. Types
  BY IdleFields DEF Init, Types, NoKeys, Status
<1>2. AttemptsInv
  <2>1. \A h \in Handlers : handler[h].do = "idle"
    BY IdleFields DEF Init
  <2>2. Comparing = {} /\ key.fails = 0
    BY <2>1 DEF Comparing, Init, NoKeys
  <2>3. key.fails + Cardinality(Comparing) = 0
    BY <2>2, FS_EmptySet
  <2>4. Cardinality(Handlers) \in Nat /\ MaxAttempts \in Nat /\ MaxAttempts >= 1
    BY LimitsAssumption, FS_CardinalityType
  <2> QED BY <2>3, <2>4 DEF AttemptsInv
<1>3. LateInv
  BY DEF Init, LateInv, Suspended, Down
<1> QED BY <1>1, <1>2, <1>3 DEF AccountsInv

\* The invariant of the accounts is inductive: types, the failures that requests let
\* in may still add, and what requests know of a suspension.
THEOREM AccountsInvariant == Spec => []AccountsInv
<1>1. Init => AccountsInv
  BY InitHolds
<1>2. AccountsInv /\ [Next]_vars => AccountsInv'
  BY TypeStep, AttemptsStep, LateStep DEF AccountsInv
<1> QED BY <1>1, <1>2, PTL DEF Spec

\* Type correctness: documents, codes, caches, tokens and requests keep their shapes.
THEOREM TypeCorrect == Spec => []TypeOK
<1>1. AccountsInv => TypeOK
  BY Fields DEF AccountsInv, Types, TypeOK
<1> QED BY <1>1, AccountsInvariant, PTL

\* However many requests compare a code at once, the failures go over the limit of
\* attempts by no more than the requests let in below it.
THEOREM AttemptsStayLimited == Spec => []AttemptsLimited
<1>1. AccountsInv => AttemptsLimited
  <2> SUFFICES ASSUME AccountsInv PROVE AttemptsLimited
    OBVIOUS
  <2>1. IsFiniteSet(Comparing)
    BY LimitsAssumption, FS_Subset DEF Comparing
  <2>2. /\ Cardinality(Comparing) \in Nat /\ Cardinality(Handlers) \in Nat
        /\ MaxAttempts \in Nat /\ key.fails \in Nat
    BY <2>1, FS_CardinalityType, LimitsAssumption DEF AccountsInv, Types
  <2> QED BY <2>2 DEF AccountsInv, AttemptsInv, AttemptsLimited
<1> QED BY <1>1, AccountsInvariant, PTL

\* A suspended account gets no session by any number of concurrent requests, but from
\* one that read the account, or its cached profile, before it was suspended.
THEOREM SuspendedGetNoSession == Spec => SuspendedGetsNoSession
<1>1. AccountsInv /\ [Next]_vars
         => [sessions' \ sessions # {} /\ status \in Suspended =>
               \E h \in Handlers : handler'[h] # handler[h] /\ handler[h].late]_vars
  BY NoSessionStep DEF AccountsInv, OpensLate
<1> QED BY <1>1, AccountsInvariant, PTL DEF Spec, SuspendedGetsNoSession

\* A suspension ends by an administrator, or by a sign-in that had read the account
\* before, and by nothing else.
THEOREM SuspensionsHold == Spec => SuspensionHolds
<1>1. AccountsInv /\ [Next]_vars
         => [status' # status /\ status \in Suspended =>
               \E h \in Handlers :
                  handler'[h] # handler[h] /\ (handler[h].late \/ handler'[h].do = "revoke")]_vars
  BY HoldsStep DEF AccountsInv, RaisedLate
<1> QED BY <1>1, AccountsInvariant, PTL DEF Spec, SuspensionHolds

------------------------------------------------------------------------------
(* The addresses of an account: AddressBook. *)

------------------------------------------------------------------------------
(* Lists of addresses. *)

\* A list is a function on its positions.
LEMMA BookIs ==
    ASSUME NEW l, Book(l)
    PROVE  /\ Len(l) \in Nat /\ Len(l) <= MaxAddresses /\ DOMAIN l = 1..Len(l)
           /\ \A i \in DOMAIN l :
                 /\ l[i] \in Addresses /\ l[i].id \in Ids \cup {None, "hole"}
                 /\ l[i].spot \in Spots \cup {None} /\ l[i].default \in BOOLEAN
           /\ (l = <<>>) <=> (Len(l) = 0)
<1>1. /\ Len(l) \in Nat /\ DOMAIN l = 1..Len(l) /\ \A i \in 1..Len(l) : l[i] \in Addresses
  BY LenProperties, ElementOfSeq DEF Book
<1>2. (l = <<>>) <=> (Len(l) = 0)
  BY EmptySeq, <1>1 DEF Book
<1>3. \A x \in Addresses : /\ x.id \in Ids \cup {None, "hole"}
                           /\ x.spot \in Spots \cup {None} /\ x.default \in BOOLEAN
  BY DEF Addresses
<1>. QED BY <1>1, <1>2, <1>3 DEF Book

\* ... and a function on positions a list.
LEMMA IsBook ==
    ASSUME NEW n \in Nat, n <= MaxAddresses, NEW l \in [1..n -> Addresses]
    PROVE  Book(l) /\ Len(l) = n
<1>1. l \in Seq(Addresses)
  BY SeqDef
<1>2. Len(l) = n
  BY <1>1, LenProperties
<1>. QED BY <1>1, <1>2 DEF Book

\* Two lists with the same addresses in the same places are one.
LEMMA SameBook ==
    ASSUME NEW l, Book(l), NEW m, Book(m), Len(l) = Len(m),
           \A i \in DOMAIN l : l[i] = m[i]
    PROVE  l = m
  BY SeqEqual, LenProperties DEF Book

\* Marking one address as the only default.
LEMMA OnlyDefaultIs ==
    ASSUME NEW l, Book(l), NEW a
    PROVE  LET m == OnlyDefault(l, a) IN
           /\ Book(m) /\ Len(m) = Len(l) /\ DOMAIN m = DOMAIN l
           /\ \A i \in DOMAIN l :
                 m[i].id = l[i].id /\ m[i].spot = l[i].spot /\ m[i].default = (l[i].id = a)
<1> DEFINE m == OnlyDefault(l, a)
<1>1. /\ Len(l) \in Nat /\ Len(l) <= MaxAddresses /\ DOMAIN l = 1..Len(l)
      /\ \A i \in DOMAIN l : l[i] \in Addresses
  BY BookIs
<1>2. ASSUME NEW x \in Addresses, NEW d \in BOOLEAN
      PROVE  /\ [x EXCEPT !.default = d] \in Addresses
             /\ [x EXCEPT !.default = d].id = x.id /\ [x EXCEPT !.default = d].spot = x.spot
             /\ [x EXCEPT !.default = d].default = d
  BY DEF Addresses
<1>3. m = [i \in 1..Len(l) |-> [l[i] EXCEPT !.default = (l[i].id = a)]]
  BY <1>1 DEF OnlyDefault
<1>4. \A i \in 1..Len(l) :
         /\ m[i] \in Addresses /\ m[i].id = l[i].id /\ m[i].spot = l[i].spot
         /\ m[i].default = (l[i].id = a)
  <2> SUFFICES ASSUME NEW i \in 1..Len(l)
               PROVE  /\ m[i] \in Addresses /\ m[i].id = l[i].id /\ m[i].spot = l[i].spot
                      /\ m[i].default = (l[i].id = a)
    OBVIOUS
  <2> DEFINE d == (l[i].id = a)
  <2>1. m[i] = [l[i] EXCEPT !.default = d]
    BY <1>3
  <2>2. d \in BOOLEAN /\ l[i] \in Addresses
    BY <1>1
  <2> HIDE DEF d, m
  <2>3. m[i] \in Addresses /\ m[i].id = l[i].id /\ m[i].spot = l[i].spot /\ m[i].default = d
    BY <1>2, <2>1, <2>2
  <2>. QED BY <2>3 DEF d
<1>5. m \in [1..Len(l) -> Addresses]
  BY <1>3, <1>4
<1>6. Book(m) /\ Len(m) = Len(l) /\ DOMAIN m = 1..Len(l)
  BY <1>1, <1>3, <1>5, IsBook
<1>. QED BY <1>1, <1>4, <1>6

\* Moving one.
LEMMA MovedIs ==
    ASSUME NEW l, Book(l), NEW i \in DOMAIN l, NEW spot \in Spots \cup {None}
    PROVE  LET m == Moved(l, i, spot) IN
           /\ Book(m) /\ Len(m) = Len(l) /\ DOMAIN m = DOMAIN l
           /\ \A j \in DOMAIN l :
                 /\ m[j].id = l[j].id /\ m[j].default = l[j].default
                 /\ m[j].spot = IF j = i /\ spot # None THEN spot ELSE l[j].spot
<1> DEFINE e == [l[i] EXCEPT !.spot = spot]
           m == [l EXCEPT ![i] = e]
<1>1. /\ Len(l) \in Nat /\ Len(l) <= MaxAddresses /\ DOMAIN l = 1..Len(l)
      /\ \A j \in DOMAIN l : l[j] \in Addresses
      /\ l \in [1..Len(l) -> Addresses]
  BY BookIs, LenProperties DEF Book
<1>2. e \in Addresses /\ e.id = l[i].id /\ e.spot = spot /\ e.default = l[i].default
  BY <1>1 DEF Addresses
<1> HIDE DEF e
<1>3. m \in [1..Len(l) -> Addresses] /\ DOMAIN m = 1..Len(l)
      /\ \A j \in 1..Len(l) : m[j] = IF j = i THEN e ELSE l[j]
  BY <1>1, <1>2
<1>4. Book(m) /\ Len(m) = Len(l)
  BY <1>1, <1>3, IsBook
<1> HIDE DEF m
<1>5. CASE spot = None
  BY <1>5 DEF Moved
<1>6. CASE spot # None
  <2>1. Moved(l, i, spot) = m
    BY <1>6 DEF Moved, m, e
  <2>. QED BY <1>1, <1>2, <1>3, <1>4, <1>6, <2>1
<1>. QED BY <1>5, <1>6

\* Marking one.
LEMMA MarkedIs ==
    ASSUME NEW l, Book(l), NEW i \in DOMAIN l, NEW mark \in BOOLEAN
    PROVE  LET m == Marked(l, i, mark) IN
           /\ Book(m) /\ Len(m) = Len(l) /\ DOMAIN m = DOMAIN l
           /\ \A j \in DOMAIN l :
                 /\ m[j].id = l[j].id /\ m[j].spot = l[j].spot
                 /\ m[j].default = IF j = i THEN mark ELSE l[j].default
<1> DEFINE e == [l[i] EXCEPT !.default = mark]
           m == [l EXCEPT ![i] = e]
<1>1. /\ Len(l) \in Nat /\ Len(l) <= MaxAddresses /\ DOMAIN l = 1..Len(l)
      /\ \A j \in DOMAIN l : l[j] \in Addresses
      /\ l \in [1..Len(l) -> Addresses]
  BY BookIs, LenProperties DEF Book
<1>2. e \in Addresses /\ e.id = l[i].id /\ e.spot = l[i].spot /\ e.default = mark
  BY <1>1 DEF Addresses
<1> HIDE DEF e
<1>3. m \in [1..Len(l) -> Addresses] /\ DOMAIN m = 1..Len(l)
      /\ \A j \in 1..Len(l) : m[j] = IF j = i THEN e ELSE l[j]
  BY <1>1, <1>2
<1>4. Book(m) /\ Len(m) = Len(l)
  BY <1>1, <1>3, IsBook
<1> HIDE DEF m
<1>5. Marked(l, i, mark) = m
  BY DEF Marked, m, e
<1>. QED BY <1>1, <1>2, <1>3, <1>4, <1>5

\* Taking one out moves those behind it up.
LEMMA WithoutIs ==
    ASSUME NEW l, Book(l), NEW i \in DOMAIN l
    PROVE  LET m == Without(l, i) IN
           /\ Book(m) /\ Len(m) = Len(l) - 1 /\ DOMAIN m = 1..(Len(l) - 1)
           /\ \A j \in DOMAIN m : m[j] = l[IF j < i THEN j ELSE j + 1]
<1> DEFINE m == Without(l, i)
<1>1. /\ Len(l) \in Nat /\ Len(l) <= MaxAddresses /\ DOMAIN l = 1..Len(l)
      /\ \A j \in DOMAIN l : l[j] \in Addresses /\ Len(l) - 1 \in Nat
      /\ MaxAddresses \in Nat
  BY BookIs, AddressAssumption
<1>2. Len(l) - 1 \in Nat /\ Len(l) - 1 <= MaxAddresses
  BY <1>1
<1>3. m = [j \in 1..(Len(l) - 1) |-> l[IF j < i THEN j ELSE j + 1]]
  BY DEF Without
<1>4. \A j \in 1..(Len(l) - 1) : (IF j < i THEN j ELSE j + 1) \in DOMAIN l
  BY <1>1
<1>5. m \in [1..(Len(l) - 1) -> Addresses]
  BY <1>1, <1>3, <1>4
<1>6. Book(m) /\ Len(m) = Len(l) - 1
  BY <1>2, <1>5, IsBook
<1>. QED BY <1>3, <1>6

\* Adding one.
LEMMA AppendIs ==
    ASSUME NEW l, Book(l), Len(l) < MaxAddresses, NEW e \in Addresses
    PROVE  LET m == Append(l, e) IN
           /\ Book(m) /\ Len(m) = Len(l) + 1 /\ DOMAIN m = 1..(Len(l) + 1)
           /\ \A j \in DOMAIN l : j \in DOMAIN m /\ m[j] = l[j]
           /\ m[Len(l) + 1] = e
<1>1. /\ Len(l) \in Nat /\ DOMAIN l = 1..Len(l) /\ l \in Seq(Addresses) /\ MaxAddresses \in Nat
  BY BookIs, AddressAssumption DEF Book
<1>2. /\ Append(l, e) \in Seq(Addresses) /\ Len(Append(l, e)) = Len(l) + 1
      /\ \A j \in 1..Len(l) : Append(l, e)[j] = l[j]
      /\ Append(l, e)[Len(l) + 1] = e
  BY <1>1, AppendProperties
<1>3. DOMAIN Append(l, e) = 1..(Len(l) + 1)
  BY <1>2, LenProperties
<1>. QED BY <1>1, <1>2, <1>3 DEF Book
\* A write by position reaches as far as the list does, or as what it changes.
LEMMA ReachIs ==
    ASSUME Book(list), NEW old, Book(old), NEW new
    PROVE  /\ Reach(old, new) \in Nat
           /\ Len(list) <= Reach(old, new) /\ Reach(old, new) <= MaxAddresses
           /\ \A i \in DOMAIN old : Differs(old, new, i) => i <= Reach(old, new)
           /\ Reach(old, new) = Len(list) \/ Differs(old, new, Reach(old, new))
<1> DEFINE Far(n) == n >= Len(list) /\ \A i \in DOMAIN old : Differs(old, new, i) => i <= n
           T == {n \in Nat : Far(n)}
<1>1. /\ Len(list) \in Nat /\ Len(list) <= MaxAddresses /\ MaxAddresses \in Nat
      /\ Len(old) \in Nat /\ Len(old) <= MaxAddresses /\ DOMAIN old = 1..Len(old)
  BY BookIs, AddressAssumption
<1>2. Len(list) + Len(old) \in T
  BY <1>1
<1>3. PICK n \in T : \A y \in T : ~(<<y, n>> \in OpToRel(<, Nat))
  BY <1>2, WFMin, NatLessThanWellFounded
<1>4. \A y \in T : ~(y < n)
  BY <1>3 DEF OpToRel
<1>5. n \in 0..(Len(list) + Len(old))
  BY <1>1, <1>2, <1>4
<1>6. n = Len(list) \/ Differs(old, new, n)
  <2>1. CASE n > Len(list)
    <3>1. n - 1 \in Nat /\ n - 1 >= Len(list)
      BY <1>1, <1>5, <2>1
    <3>2. ~Far(n - 1)
      BY <1>4, <3>1
    <3>3. PICK i \in DOMAIN old : Differs(old, new, i) /\ ~(i <= n - 1)
      BY <3>1, <3>2
    <3>4. Far(n)
      BY <1>3
    <3>6. i <= n /\ i \in Nat
      BY <1>1, <3>3, <3>4
    <3>5. i = n
      BY <1>5, <3>3, <3>6
    <3>. QED BY <3>3, <3>5
  <2>2. n >= Len(list) /\ n \in Nat
    BY <1>3
  <2>. QED BY <1>1, <2>1, <2>2
<1> DEFINE P(m) == Far(m) /\ (m = Len(list) \/ Differs(old, new, m))
           c == CHOOSE m \in 0..(Len(list) + Len(old)) : P(m)
<1>7. P(n)
  BY <1>3, <1>6
<1>8. c \in 0..(Len(list) + Len(old)) /\ P(c)
  <2> HIDE DEF P
  <2>. QED BY <1>5, <1>7
<1>9. Reach(old, new) = c
  BY DEF Reach
<1>10. c <= MaxAddresses
  BY <1>1, <1>8 DEF Differs
<1> HIDE DEF c
<1>. QED BY <1>1, <1>8, <1>9, <1>10

\* What a write by position makes of the list.
LEMMA PositionalIs ==
    ASSUME Book(list), NEW old, Book(old), NEW new, Book(new), Len(new) = Len(old)
    PROVE  LET r == Positional(old, new) IN
           /\ Book(r) /\ Len(r) >= Len(list) /\ DOMAIN r = 1..Len(r)
           /\ \A i \in DOMAIN r : r[i] = IF Differs(old, new, i)
                                       THEN Merged(Base(old, new, i), old[i], new[i])
                                       ELSE Base(old, new, i)
           /\ \A i \in DOMAIN old : Differs(old, new, i) => i \in DOMAIN r
<1> DEFINE n == Reach(old, new)
           r == Positional(old, new)
<1>1. /\ n \in Nat /\ Len(list) <= n /\ n <= MaxAddresses
      /\ \A i \in DOMAIN old : Differs(old, new, i) => i <= n
  BY ReachIs
<1>2. /\ \A i \in DOMAIN list : list[i] \in Addresses
      /\ DOMAIN old = 1..Len(old) /\ DOMAIN new = DOMAIN old
      /\ \A i \in DOMAIN old : old[i] \in Addresses /\ new[i] \in Addresses
  BY BookIs
<1>3. Hole \in Addresses /\ Broken \in Addresses
  BY DEF Hole, Broken, Addresses
<1>4. \A i : Base(old, new, i) \in Addresses
  BY <1>2, <1>3 DEF Base
<1>5. ASSUME NEW x \in Addresses, NEW y \in Addresses, NEW z \in Addresses
      PROVE  Merged(x, y, z) \in Addresses
  BY DEF Merged, Addresses
<1>6. \A i \in 1..n : r[i] = IF Differs(old, new, i)
                              THEN Merged(Base(old, new, i), old[i], new[i])
                              ELSE Base(old, new, i)
  BY DEF Positional
<1>7. \A i \in 1..n : r[i] \in Addresses
  BY <1>2, <1>4, <1>5, <1>6 DEF Differs
<1>8. r \in [1..n -> Addresses]
  BY <1>7 DEF Positional
<1>9. Book(r) /\ Len(r) = n /\ DOMAIN r = 1..n
  BY <1>1, <1>8, IsBook
<1>10. \A i \in DOMAIN old : Differs(old, new, i) => i \in 1..n
  BY <1>1, <1>2
<1> HIDE DEF r
<1>. QED BY <1>1, <1>6, <1>9, <1>10 DEF r

\* No address comes or goes by position, whatever list it is written to ...
LEMMA PositionalKeepsIds ==
    ASSUME Book(list), NEW old, Book(old), NEW new, Book(new), Len(new) = Len(old),
           \A i \in DOMAIN old : new[i].id = old[i].id
    PROVE  LET r == Positional(old, new) IN
           /\ \A i \in DOMAIN list : i \in DOMAIN r /\ r[i].id = list[i].id
           /\ \A i \in DOMAIN r \ DOMAIN list : r[i].id \in {None, "hole"}
<1> DEFINE r == Positional(old, new)
<1>0. /\ Book(r) /\ Len(r) >= Len(list) /\ DOMAIN r = 1..Len(r)
      /\ \A i \in DOMAIN r : r[i] = IF Differs(old, new, i)
                                  THEN Merged(Base(old, new, i), old[i], new[i])
                                  ELSE Base(old, new, i)
  BY PositionalIs
<1>1. Len(r) \in Nat /\ Len(list) \in Nat /\ DOMAIN list = 1..Len(list)
  <2> HIDE DEF r
  <2>. QED BY <1>0, BookIs
<1>2. \A i \in DOMAIN r : r[i].id = Base(old, new, i).id
  BY <1>0 DEF Differs, Merged
<1>3. \A i \in DOMAIN list : i \in DOMAIN r
  BY <1>0, <1>1
<1>4. Hole.id = "hole" /\ Broken.id = None
  BY DEF Hole, Broken
<1> HIDE DEF r
<1>. QED BY <1>2, <1>3, <1>4 DEF Base, r

\* ... and what is written to the list that was read is what was meant.
LEMMA PositionalSame ==
    ASSUME Book(list), NEW new, Book(new), Len(new) = Len(list)
    PROVE  Positional(list, new) = new
<1> DEFINE r == Positional(list, new)
<1>1. /\ Book(r) /\ DOMAIN r = 1..Len(r)
      /\ \A i \in DOMAIN r : r[i] = IF Differs(list, new, i)
                                  THEN Merged(Base(list, new, i), list[i], new[i])
                                  ELSE Base(list, new, i)
  BY PositionalIs
<1>2. /\ DOMAIN list = 1..Len(list) /\ DOMAIN new = 1..Len(list) /\ Len(list) \in Nat
      /\ \A i \in DOMAIN new : new[i] \in Addresses
  BY BookIs
<1>3. Reach(list, new) = Len(list)
  BY <1>2, ReachIs DEF Differs
<1>4. DOMAIN r = 1..Len(list) /\ Len(r) = Len(list)
  <2>1. DOMAIN r = 1..Len(list)
    BY <1>3 DEF Positional
  <2>2. Len(r) \in Nat
    <3> HIDE DEF r
    <3>. QED BY <1>1, BookIs
  <2>3. 1..Len(r) = 1..Len(list)
    BY <1>1, <2>1
  <2> HIDE DEF r
  <2>. QED BY <1>2, <2>1, <2>2, <2>3
<1>5. ASSUME NEW i \in 1..Len(list) PROVE r[i] = new[i]
  <2>1. Base(list, new, i) = list[i]
    BY <1>2, <1>5 DEF Base
  <2>2. Merged(list[i], list[i], new[i]) = new[i]
    BY <1>2 DEF Merged, Addresses
  <2>. QED BY <1>1, <1>2, <1>4, <2>1, <2>2 DEF Differs
<1> HIDE DEF r
<1>. QED BY <1>1, <1>4, <1>5, SameBook DEF r

\* Which defaults there are after the mark of no address was changed.
LEMMA PositionalKeepsMarks ==
    ASSUME Book(list), NEW old, Book(old), NEW new, Book(new), Len(new) = Len(old),
           \A i \in DOMAIN old : new[i].default = old[i].default
    PROVE  LET r == Positional(old, new) IN
           \A i \in DOMAIN r : r[i].default => i \in DOMAIN list /\ list[i].default
<1> DEFINE r == Positional(old, new)
<1>1. \A i \in DOMAIN r : r[i] = IF Differs(old, new, i)
                                  THEN Merged(Base(old, new, i), old[i], new[i])
                                  ELSE Base(old, new, i)
  BY PositionalIs
<1>2. \A i \in DOMAIN r : r[i].default = Base(old, new, i).default
  BY <1>1 DEF Differs, Merged
<1>3. Hole.default = FALSE /\ Broken.default = FALSE
  BY DEF Hole, Broken
<1> HIDE DEF r
<1>. QED BY <1>2, <1>3 DEF Base, r

------------------------------------------------------------------------------
(* What the invariant says of a list. *)

Single(l)       == \A i, j \in DOMAIN l : l[i].default /\ l[j].default => i = j
Marks(l)        == \E i \in DOMAIN l : l[i].default
DefaultSpots(l) == {l[i].spot : i \in {j \in DOMAIN l : l[j].default}}

\* The invariant, of these.
Consistent(l, loc, ar, lo, ke, cl, wh, ra) ==
    /\ Distinct(l)
    /\ ra \cap {"update", "delete"} = {} => Single(l)
    /\ ra = {} /\ ~cl /\ l # <<>> => Marks(l)
    /\ "delete" \notin ra => IdsOf(l) = ke
    /\ wh = "default" /\ ra = {} =>
          /\ \A s \in DefaultSpots(l) : s # None => loc = s
          /\ l = <<>> => loc = None
    /\ wh # "unknown" => lo = loc
    /\ loc = None => ar = None

LEMMA ConsistentIs ==
    AddressInv <=> /\ Consistent(list, location, area, lookedUp, kept, cleared, whence, raced)
                   /\ \A h \in Editors : Distinct(editor[h].read)
<1>1. (\A i, j \in Defaults : i = j) <=> Single(list)
  BY DEF Defaults, Single
<1>2. (Defaults # {}) <=> Marks(list)
  BY DEF Defaults, Marks
<1>3. (\A i \in Defaults : list[i].spot # None => location = list[i].spot)
        <=> (\A s \in DefaultSpots(list) : s # None => location = s)
  BY DEF Defaults, DefaultSpots
<1>. QED BY <1>1, <1>2, <1>3 DEF AddressInv, OneDefault, NothingLost, LocationFollows,
                                 Consistent

LEMMA ConsistentNext ==
    AddressInv' <=>
        /\ Consistent(list', location', area', lookedUp', kept', cleared', whence', raced')
        /\ \A h \in Editors : Distinct(editor'[h].read)
<1>1. (\A i, j \in Defaults' : i = j) <=> Single(list')
  BY DEF Defaults, Single
<1>2. (Defaults' # {}) <=> Marks(list')
  BY DEF Defaults, Marks
<1>3. (\A i \in Defaults' : list'[i].spot # None => location' = list'[i].spot)
        <=> (\A s \in DefaultSpots(list') : s # None => location' = s)
  BY DEF Defaults, DefaultSpots
<1>. QED BY <1>1, <1>2, <1>3 DEF AddressInv, OneDefault, NothingLost, LocationFollows,
                                 Consistent

\* Lists with the same addresses and marks in the same places.
LEMMA SameIds ==
    ASSUME NEW l, NEW m, DOMAIN m = DOMAIN l, \A i \in DOMAIN l : m[i].id = l[i].id
    PROVE  IdsOf(m) = IdsOf(l) /\ (Distinct(l) => Distinct(m))
  BY DEF IdsOf, Distinct

LEMMA SameMarks ==
    ASSUME NEW l, NEW m, DOMAIN m = DOMAIN l, \A i \in DOMAIN l : m[i].default = l[i].default
    PROVE  (Single(l) <=> Single(m)) /\ (Marks(l) <=> Marks(m))
  BY DEF Single, Marks

\* Where an address is.
LEMMA AtIs ==
    ASSUME NEW l, Book(l), NEW a \in IdsOf(l)
    PROVE  Position(l, a) \in DOMAIN l /\ l[Position(l, a)].id = a /\ a \in Ids /\ l # <<>>
<1>1. PICK i \in DOMAIN l : l[i].id = a
  BY DEF IdsOf
<1>2. Position(l, a) \in DOMAIN l /\ l[Position(l, a)].id = a
  BY <1>1 DEF Position
<1>3. a \in Ids
  BY <1>1, BookIs DEF IdsOf
<1>4. l # <<>>
  BY <1>1
<1>. QED BY <1>2, <1>3, <1>4

\* The only default, of a list in which its address is but once.
LEMMA OnlyDefaultMarks ==
    ASSUME NEW l, Book(l), Distinct(l), NEW i \in DOMAIN l, l[i].id \in Ids
    PROVE  LET m == OnlyDefault(l, l[i].id) IN
           /\ IdsOf(m) = IdsOf(l) /\ Distinct(m) /\ m[i].default
           /\ Single(m) /\ Marks(m) /\ DefaultSpots(m) = {l[i].spot}
<1> DEFINE m == OnlyDefault(l, l[i].id)
<1>1. /\ DOMAIN m = DOMAIN l
      /\ \A j \in DOMAIN l :
            m[j].id = l[j].id /\ m[j].spot = l[j].spot /\ m[j].default = (l[j].id = l[i].id)
  BY OnlyDefaultIs
<1> HIDE DEF m
<1>2. \A j \in DOMAIN m : m[j].default <=> j = i
  BY <1>1 DEF Distinct
<1>3. IdsOf(m) = IdsOf(l) /\ Distinct(m)
  BY <1>1, SameIds
<1>4. Single(m) /\ Marks(m) /\ DefaultSpots(m) = {l[i].spot} /\ m[i].default
  BY <1>1, <1>2 DEF Single, Marks, DefaultSpots
<1>. QED BY <1>3, <1>4 DEF m

\* An address is added, as the default or not.
Added(l, a, spot, default) ==
    LET added == Append(l, [id |-> a, spot |-> spot, default |-> default])
    IN IF default THEN OnlyDefault(added, a) ELSE added

LEMMA AddedIs ==
    ASSUME NEW l, Book(l), Distinct(l), Len(l) < MaxAddresses,
           NEW a \in Ids, a \notin IdsOf(l), NEW spot \in Spots \cup {None}, NEW default \in BOOLEAN
    PROVE  LET m == Added(l, a, spot, default) IN
           /\ Book(m) /\ m # <<>> /\ Distinct(m) /\ IdsOf(m) = IdsOf(l) \cup {a}
           /\ default => Single(m) /\ Marks(m) /\ DefaultSpots(m) = {spot}
           /\ ~default => /\ Single(l) => Single(m)
                          /\ Marks(l) => Marks(m)
                          /\ DefaultSpots(m) = DefaultSpots(l)
<1> DEFINE e == [id |-> a, spot |-> spot, default |-> default]
           p == Append(l, e)
           n == Len(l) + 1
<1>1. e \in Addresses /\ e.id = a /\ e.spot = spot /\ e.default = default
  BY DEF Addresses
<1> HIDE DEF e
<1>2. /\ Book(p) /\ Len(p) = Len(l) + 1 /\ DOMAIN p = 1..(Len(l) + 1)
      /\ \A j \in DOMAIN l : j \in DOMAIN p /\ p[j] = l[j]
      /\ p[Len(l) + 1] = e
  BY <1>1, AppendIs
<1>3. Len(l) \in Nat /\ DOMAIN l = 1..Len(l)
  BY BookIs
<1>4. /\ n \in DOMAIN p /\ n \notin DOMAIN l /\ DOMAIN p = DOMAIN l \cup {n} /\ p[n] = e
      /\ \A j \in DOMAIN l : p[j] = l[j]
  BY <1>2, <1>3
<1>5. a \notin {None, "hole"}
  BY AddressAssumption
<1>6. \A j \in DOMAIN l : l[j].id # a
  BY <1>5 DEF IdsOf
<1>7. p # <<>>
  BY <1>2, <1>4
<1> HIDE DEF p, n
<1>8. IdsOf(p) = IdsOf(l) \cup {a}
  BY <1>1, <1>4, <1>5 DEF IdsOf
<1>9. Distinct(p)
  BY <1>1, <1>4, <1>6 DEF Distinct
<1>10. CASE default
  <2> DEFINE m == OnlyDefault(p, a)
  <2>1. IdsOf(m) = IdsOf(p) /\ Distinct(m) /\ Single(m) /\ Marks(m) /\ DefaultSpots(m) = {spot}
    <3>1. p[n].id = a /\ p[n].spot = spot /\ n \in DOMAIN p /\ Book(p)
      BY <1>1, <1>2, <1>4
    <3>2. LET o == OnlyDefault(p, p[n].id) IN
          IdsOf(o) = IdsOf(p) /\ Distinct(o) /\ Single(o) /\ Marks(o) /\ DefaultSpots(o) = {p[n].spot}
      <4> HIDE DEF m
      <4>. QED BY <1>9, <3>1, OnlyDefaultMarks
    <3>. QED BY <3>1, <3>2
  <2>2. Book(m) /\ DOMAIN m = DOMAIN p
    BY <1>2, OnlyDefaultIs
  <2>3. m # <<>>
    <3> HIDE DEF m
    <3>. QED BY <2>2, <1>4
  <2>4. Added(l, a, spot, default) = m
    BY <1>10 DEF Added, p, e
  <2> HIDE DEF m
  <2>. QED BY <1>8, <1>10, <2>1, <2>2, <2>3, <2>4
<1>11. CASE ~default
  <2>1. \A j \in DOMAIN p : p[j].default => j \in DOMAIN l
    BY <1>1, <1>4, <1>11
  <2>2. /\ Single(l) => Single(p)
        /\ Marks(l) => Marks(p)
        /\ DefaultSpots(p) = DefaultSpots(l)
    BY <1>4, <2>1 DEF Single, Marks, DefaultSpots
  <2>3. Added(l, a, spot, default) = p
    BY <1>11 DEF Added, p, e
  <2>. QED BY <1>2, <1>7, <1>8, <1>9, <1>11, <2>2, <2>3
<1>. QED BY <1>10, <1>11

\* An address is taken out and, if it was the default, the one at place p then is.
Deleted(l, i, p) ==
    LET left == Without(l, i)
    IN IF l[i].default /\ left # <<>> THEN Marked(left, p, TRUE) ELSE left

LEMMA DeletedIs ==
    ASSUME NEW l, Book(l), Distinct(l), NEW i \in DOMAIN l, l[i].id \in Ids,
           NEW p, Without(l, i) # <<>> => p \in DOMAIN Without(l, i)
    PROVE  LET m    == Deleted(l, i, p)
               left == Without(l, i) IN
           /\ Book(m) /\ (m = <<>> <=> left = <<>>) /\ Distinct(m)
           /\ IdsOf(m) = IdsOf(l) \ {l[i].id}
           /\ Single(l) => Single(m)
           /\ Marks(l) /\ left # <<>> => Marks(m)
           /\ l[i].default /\ left # <<>> /\ Single(l) => DefaultSpots(m) = {left[p].spot}
           /\ ~l[i].default \/ left = <<>> => DefaultSpots(m) \subseteq DefaultSpots(l)
           /\ left # <<>> => left[p].spot \in Spots \cup {None}
<1> DEFINE left == Without(l, i)
           at(j) == IF j < i THEN j ELSE j + 1
           m == Deleted(l, i, p)
<1>1. Len(l) \in Nat /\ DOMAIN l = 1..Len(l)
  BY BookIs
<1>2. /\ Book(left) /\ Len(left) = Len(l) - 1 /\ DOMAIN left = 1..(Len(l) - 1)
      /\ \A j \in DOMAIN left : left[j] = l[at(j)]
  BY WithoutIs
<1> HIDE DEF left
<1>3. \A j \in DOMAIN left : at(j) \in DOMAIN l \ {i}
  BY <1>1, <1>2
<1>4. \A j, k \in DOMAIN left : at(j) = at(k) => j = k
  BY <1>1, <1>2
<1>5. \A k \in DOMAIN l \ {i} : \E j \in DOMAIN left : at(j) = k
  <2> SUFFICES ASSUME NEW k \in DOMAIN l \ {i} PROVE \E j \in DOMAIN left : at(j) = k
    OBVIOUS
  <2>1. CASE k < i
    BY <1>1, <1>2, <2>1
  <2>2. CASE ~(k < i)
    <3>1. k - 1 \in DOMAIN left /\ at(k - 1) = k
      BY <1>1, <1>2, <2>2
    <3>. QED BY <3>1
  <2>. QED BY <2>1, <2>2
<1> HIDE DEF at
<1>6. Distinct(left)
  BY <1>2, <1>3, <1>4 DEF Distinct
<1>7. IdsOf(left) = IdsOf(l) \ {l[i].id}
  <2>1. IdsOf(left) \subseteq IdsOf(l) \ {l[i].id}
    <3> SUFFICES ASSUME NEW j \in DOMAIN left, left[j].id \notin {None, "hole"}
                 PROVE  left[j].id \in IdsOf(l) /\ left[j].id # l[i].id
      BY DEF IdsOf
    <3>1. at(j) \in DOMAIN l /\ at(j) # i /\ left[j] = l[at(j)]
      BY <1>2, <1>3
    <3>. QED BY <3>1 DEF IdsOf, Distinct
  <2>2. IdsOf(l) \ {l[i].id} \subseteq IdsOf(left)
    <3> SUFFICES ASSUME NEW k \in DOMAIN l, l[k].id \notin {None, "hole"}, l[k].id # l[i].id
                 PROVE  l[k].id \in IdsOf(left)
      BY DEF IdsOf
    <3>1. PICK j \in DOMAIN left : at(j) = k
      BY <1>5
    <3>. QED BY <3>1, <1>2 DEF IdsOf
  <2>. QED BY <2>1, <2>2
<1>8. \A j \in DOMAIN left : left[j].default => at(j) \in DOMAIN l /\ at(j) # i /\ l[at(j)].default
  BY <1>2, <1>3
<1>9. (left # <<>>) => left[p].spot \in Spots \cup {None}
  <2> HIDE DEF m
  <2>1. (left # <<>>) => p \in DOMAIN left
    BY DEF left
  <2>. QED BY <1>2, <2>1, BookIs
<1>10. CASE l[i].default /\ left # <<>>
  <2>1. p \in DOMAIN left
    BY <1>10 DEF left
  <2>2. m = Marked(left, p, TRUE)
    BY <1>10 DEF Deleted, left
  <2>3. /\ Book(m) /\ DOMAIN m = DOMAIN left
        /\ \A j \in DOMAIN left :
              /\ m[j].id = left[j].id /\ m[j].spot = left[j].spot
              /\ j = p => m[j].default
              /\ j # p => m[j].default = left[j].default
    <3> DEFINE o == Marked(left, p, TRUE)
    <3>1. /\ Book(o) /\ DOMAIN o = DOMAIN left
          /\ \A j \in DOMAIN left :
                /\ o[j].id = left[j].id /\ o[j].spot = left[j].spot
                /\ j = p => o[j].default
                /\ j # p => o[j].default = left[j].default
      <4> HIDE DEF m, o
      <4>1. ASSUME NEW t \in BOOLEAN
            PROVE  /\ Book(Marked(left, p, t)) /\ DOMAIN Marked(left, p, t) = DOMAIN left
                   /\ \A j \in DOMAIN left :
                         /\ Marked(left, p, t)[j].id = left[j].id
                         /\ Marked(left, p, t)[j].spot = left[j].spot
                         /\ j = p => Marked(left, p, t)[j].default = t
                         /\ j # p => Marked(left, p, t)[j].default = left[j].default
          <5>1. /\ Book(Marked(left, p, t)) /\ DOMAIN Marked(left, p, t) = DOMAIN left
                /\ \A j \in DOMAIN left :
                      /\ Marked(left, p, t)[j].id = left[j].id
                      /\ Marked(left, p, t)[j].spot = left[j].spot
                      /\ Marked(left, p, t)[j].default = IF j = p THEN t ELSE left[j].default
            <6>1. Book(left) /\ p \in DOMAIN left
              BY <1>2, <2>1
            <6>. QED BY <6>1, MarkedIs
          <5>. QED BY <5>1
      <4>2. /\ Book(Marked(left, p, TRUE)) /\ DOMAIN Marked(left, p, TRUE) = DOMAIN left
            /\ \A j \in DOMAIN left :
                  /\ Marked(left, p, TRUE)[j].id = left[j].id
                  /\ Marked(left, p, TRUE)[j].spot = left[j].spot
                  /\ j = p => Marked(left, p, TRUE)[j].default = TRUE
                  /\ j # p => Marked(left, p, TRUE)[j].default = left[j].default
        BY <4>1
      <4>. QED BY <4>2 DEF o
    <3> HIDE DEF o, m
    <3>2. m = o
      BY <2>2 DEF o
    <3>. QED BY <3>1, <3>2
  <2> HIDE DEF m
  <2>4. IdsOf(m) = IdsOf(left) /\ Distinct(m)
    BY <1>6, <2>3, SameIds
  <2>5. m # <<>>
    BY <2>1, <2>3
  <2>6. Marks(m)
    BY <2>1, <2>3 DEF Marks
  <2>7. ASSUME Single(l) PROVE Single(m) /\ DefaultSpots(m) = {left[p].spot}
    <3>1. \A j \in DOMAIN left : ~left[j].default \/ j = p
      BY <1>8, <1>10, <2>7 DEF Single
    <3>2. \A j \in DOMAIN m : m[j].default <=> j = p
      BY <2>3, <3>1
    <3>3. {j \in DOMAIN m : m[j].default} = {p} /\ m[p].spot = left[p].spot
      BY <2>1, <2>3, <3>2
    <3>. QED BY <3>2, <3>3 DEF Single, DefaultSpots
  <2>. QED BY <1>7, <1>9, <1>10, <2>3, <2>4, <2>5, <2>6, <2>7 DEF m, left
<1>11. CASE ~(l[i].default /\ left # <<>>)
  <2>1. m = left
    BY <1>11 DEF Deleted, left
  <2>2. Single(l) => Single(left)
    BY <1>4, <1>8 DEF Single
  <2>3. DefaultSpots(left) \subseteq DefaultSpots(l)
    <3> SUFFICES ASSUME NEW j \in DOMAIN left, left[j].default PROVE left[j].spot \in DefaultSpots(l)
      BY DEF DefaultSpots
    <3>1. at(j) \in DOMAIN l /\ l[at(j)].default /\ left[j] = l[at(j)]
      BY <1>2, <1>8
    <3>. QED BY <3>1 DEF DefaultSpots
  <2>4. ASSUME Marks(l), left # <<>> PROVE Marks(left)
    <3>1. PICK k \in DOMAIN l : l[k].default
      BY <2>4 DEF Marks
    <3>2. k # i
      BY <1>11, <2>4, <3>1
    <3>3. PICK j \in DOMAIN left : at(j) = k
      BY <1>5, <3>2
    <3>. QED BY <1>2, <3>1, <3>3 DEF Marks
  <2> HIDE DEF m
  <2>. QED BY <1>2, <1>6, <1>7, <1>9, <1>11, <2>1, <2>2, <2>3, <2>4 DEF m, left
<1>. QED BY <1>10, <1>11

------------------------------------------------------------------------------
(* The requests. *)

LEMMA EmptyDistinct == Distinct(<<>>)
  BY DEF Distinct

\* A request of the list it read, or none.
LEMMA HandlerSet ==
    ASSUME AddressTypeOK, AddressInv, NEW h \in Editors, NEW k \in Edits, Known(k), Distinct(k.read),
           editor' = [editor EXCEPT ![h] = k]
    PROVE  /\ editor' \in [Editors -> Edits]
           /\ \A g \in Editors : Known(editor'[g]) /\ Distinct(editor'[g].read)
<1>1. /\ editor \in [Editors -> Edits]
      /\ \A g \in Editors : Known(editor[g]) /\ Distinct(editor[g].read)
  BY DEF AddressTypeOK, AddressInv
<1>2. \A g \in Editors : editor'[g] = IF g = h THEN k ELSE editor[g]
  BY <1>1
<1>. QED BY <1>1, <1>2

LEMMA HandlerFreed ==
    ASSUME AddressTypeOK, AddressInv, NEW h \in Editors, editor' = [editor EXCEPT ![h] = Free]
    PROVE  /\ editor' \in [Editors -> Edits]
           /\ \A g \in Editors : Known(editor'[g]) /\ Distinct(editor'[g].read)
<1>1. Free \in Edits /\ Known(Free) /\ Free.read = <<>>
  BY EmptySeq DEF Free, Edits, Known
<1>. QED BY <1>1, EmptyDistinct, HandlerSet

\* What is known of a request under way.
LEMMA Working ==
    ASSUME AddressTypeOK, AddressInv, NEW h \in Editors, editor[h].do # "free"
    PROVE  LET k == editor[h] IN
           /\ k \in Edits /\ Known(k) /\ Book(k.read) /\ Distinct(k.read)
           /\ k.at \in DOMAIN k.read /\ k.read[k.at].id \in Ids
           /\ k.spot \in Spots \cup {None} /\ k.default \in BOOLEAN
           /\ k.do \in {"locate", "located"} => k.spot \in Spots
<1>1. editor[h] \in Edits /\ Known(editor[h]) /\ Distinct(editor[h].read)
  BY DEF AddressTypeOK, AddressInv
<1>2. editor[h] # Free
  BY DEF Free
<1>. QED BY <1>1, <1>2 DEF Known, Edits

\* The location follows an address.
LEMMA FollowIs ==
    ASSUME AddressTypeOK, NEW spot \in Spots \cup {None}, Follow(spot)
    PROVE  /\ location' \in Spots \cup {None}
           /\ area' \in Areas \cup {None} /\ lookedUp' \in Spots \cup {None}
           /\ whence' \in {"default", "other", "unknown"}
           /\ spot # None => location' = spot /\ lookedUp' = spot /\ whence' = "default"
           /\ spot = None => UNCHANGED <<place, whence>>
  BY DEF Follow, Stay, checkServiceability, AddressTypeOK, place

LEMMA StayIs ==
    ASSUME AddressTypeOK, Stay
    PROVE  /\ location' = location /\ area' = area /\ lookedUp' = lookedUp /\ whence' = whence
           /\ location' \in Spots \cup {None}
           /\ area' \in Areas \cup {None} /\ lookedUp' \in Spots \cup {None}
           /\ whence' \in {"default", "other", "unknown"}
  BY DEF Stay, AddressTypeOK, place

LEMMA UnusedIs ==
    ASSUME NEW a \in Unused
    PROVE  a \in Ids /\ a \notin IdsOf(list)
  BY DEF Unused

\* The owner adds an address ...
LEMMA addAddressStep ==
    ASSUME AddressTypeOK, AddressInv, NEW a \in Ids, NEW spot \in Spots \cup {None},
           NEW asked \in BOOLEAN, addAddress(a, spot, asked)
    PROVE  AddressTypeOK' /\ AddressInv'
<1> DEFINE default == asked \/ list = <<>>
<1>1. /\ Consistent(list, location, area, lookedUp, kept, cleared, whence, raced)
      /\ Book(list) /\ \A h \in Editors : Distinct(editor[h].read)
  BY ConsistentIs DEF AddressTypeOK
<1>2. /\ list' = Added(list, a, spot, default)
      /\ IF default THEN Follow(spot) ELSE Stay
      /\ a \notin IdsOf(list) /\ Len(list) < MaxAddresses
      /\ kept' = kept \cup {a} /\ editor' = editor /\ cleared' = cleared /\ raced' = raced
  BY UnusedIs DEF addAddress, Added
<1>3. default \in BOOLEAN
  OBVIOUS
<1>4. (list = <<>>) => default
  OBVIOUS
<1> HIDE DEF default
<1>5. /\ Book(list') /\ list' # <<>> /\ Distinct(list') /\ IdsOf(list') = IdsOf(list) \cup {a}
      /\ default => Single(list') /\ Marks(list') /\ DefaultSpots(list') = {spot}
      /\ ~default => /\ Single(list) => Single(list')
                     /\ Marks(list) => Marks(list')
                     /\ DefaultSpots(list') = DefaultSpots(list)
  BY <1>1, <1>2, <1>3, AddedIs DEF Consistent
<1>6. CASE default
  <2>1. /\ location' \in Spots \cup {None}
        /\ area' \in Areas \cup {None} /\ lookedUp' \in Spots \cup {None}
        /\ whence' \in {"default", "other", "unknown"}
        /\ spot # None => location' = spot /\ lookedUp' = spot /\ whence' = "default"
        /\ spot = None => /\ location' = location /\ whence' = whence
                          /\ area' = area /\ lookedUp' = lookedUp
    BY <1>2, <1>6, FollowIs DEF place
  <2>2. AddressTypeOK'
    BY <1>2, <1>5, <2>1 DEF AddressTypeOK
  <2>3. Consistent(list', location', area', lookedUp', kept', cleared', whence', raced')
    BY <1>1, <1>2, <1>5, <1>6, <2>1 DEF Consistent
  <2>. QED BY <1>1, <1>2, <2>2, <2>3, ConsistentNext
<1>7. CASE ~default
  <2>1. /\ location' = location /\ area' = area /\ lookedUp' = lookedUp /\ whence' = whence
    BY <1>2, <1>7, StayIs
  <2>2. AddressTypeOK'
    BY <1>2, <1>5, <2>1 DEF AddressTypeOK
  <2>3. Consistent(list', location', area', lookedUp', kept', cleared', whence', raced')
    BY <1>1, <1>2, <1>4, <1>5, <1>7, <2>1 DEF Consistent
  <2>. QED BY <1>1, <1>2, <2>2, <2>3, ConsistentNext
<1>. QED BY <1>6, <1>7

\* ... or an administrator does.
LEMMA addUserAddressStep ==
    ASSUME AddressTypeOK, AddressInv, NEW a \in Ids, NEW spot \in Spots \cup {None},
           NEW asked \in BOOLEAN, addUserAddress(a, spot, asked)
    PROVE  AddressTypeOK' /\ AddressInv'
<1> DEFINE default == asked \/ list = <<>>
<1>1. /\ Consistent(list, location, area, lookedUp, kept, cleared, whence, raced)
      /\ Book(list) /\ \A h \in Editors : Distinct(editor[h].read)
  BY ConsistentIs DEF AddressTypeOK
<1>2. /\ list' = Added(list, a, spot, default)
      /\ whence' = (IF default THEN Away ELSE whence)
      /\ a \notin IdsOf(list) /\ Len(list) < MaxAddresses
      /\ kept' = kept \cup {a} /\ editor' = editor /\ cleared' = cleared /\ raced' = raced
      /\ location' = location /\ area' = area /\ lookedUp' = lookedUp
  BY UnusedIs DEF addUserAddress, Added, place
<1>3. default \in BOOLEAN /\ ((list = <<>>) => default)
  OBVIOUS
<1>4. /\ Away # "default" /\ Away \in {"default", "other", "unknown"}
      /\ Away # "unknown" => whence # "unknown"
  BY DEF Away
<1> HIDE DEF default
<1>5. /\ Book(list') /\ list' # <<>> /\ Distinct(list') /\ IdsOf(list') = IdsOf(list) \cup {a}
      /\ default => Single(list') /\ Marks(list') /\ DefaultSpots(list') = {spot}
      /\ ~default => /\ Single(list) => Single(list')
                     /\ Marks(list) => Marks(list')
                     /\ DefaultSpots(list') = DefaultSpots(list)
  BY <1>1, <1>2, <1>3, AddedIs DEF Consistent
<1>6. AddressTypeOK'
  BY <1>2, <1>4, <1>5 DEF AddressTypeOK
<1>7. Consistent(list', location', area', lookedUp', kept', cleared', whence', raced')
  BY <1>1, <1>2, <1>3, <1>4, <1>5 DEF Consistent
<1>. QED BY <1>1, <1>2, <1>6, <1>7, ConsistentNext

\* A request reads the list.
LEMMA BeginStep ==
    ASSUME AddressTypeOK, AddressInv, NEW h \in Editors, NEW a \in Ids,
           NEW do \in {"update", "delete", "locate"}, NEW spot \in Spots \cup {None},
           do = "locate" => spot \in Spots, NEW asked \in BOOLEAN, BeginEdit(h, do, a, spot, asked)
    PROVE  AddressTypeOK' /\ AddressInv'
<1> DEFINE k == [do |-> do, at |-> Position(list, a), read |-> list, spot |-> spot, default |-> asked]
<1>1. /\ Consistent(list, location, area, lookedUp, kept, cleared, whence, raced)
      /\ Book(list) /\ list \in Seq(Addresses)
  BY ConsistentIs DEF AddressTypeOK, Book
<1>2. /\ a \in IdsOf(list) /\ editor' = [editor EXCEPT ![h] = k]
      /\ list' = list /\ location' = location /\ area' = area /\ lookedUp' = lookedUp
      /\ kept' = kept /\ cleared' = cleared /\ whence' = whence /\ raced' = raced
  BY DEF BeginEdit, place, history
<1>3. Position(list, a) \in DOMAIN list /\ list[Position(list, a)].id = a
  BY <1>1, <1>2, AtIs
<1>4. Position(list, a) \in Nat
  BY <1>1, <1>3, BookIs
<1>5. k \in Edits /\ k.read = list
  BY <1>1, <1>4 DEF Edits
<1>6. Known(k)
  BY <1>1, <1>3 DEF Known
<1>7. Distinct(k.read)
  BY <1>1 DEF Consistent
<1> HIDE DEF k
<1>8. /\ editor' \in [Editors -> Edits]
      /\ \A g \in Editors : Known(editor'[g]) /\ Distinct(editor'[g].read)
  BY <1>2, <1>5, <1>6, <1>7, HandlerSet
<1>9. AddressTypeOK'
  BY <1>2, <1>8 DEF AddressTypeOK
<1>. QED BY <1>1, <1>2, <1>8, <1>9, ConsistentNext

\* A list that keeps its addresses keeps them apart, and so does one to which
\* places without an address were added.
LEMMA PositionalDistinct ==
    ASSUME Book(list), Distinct(list), NEW old, Book(old), NEW new, Book(new),
           Len(new) = Len(old), \A i \in DOMAIN old : new[i].id = old[i].id
    PROVE  LET r == Positional(old, new) IN Book(r) /\ Distinct(r) /\ IdsOf(r) = IdsOf(list)
<1> DEFINE r == Positional(old, new)
<1>1. /\ \A i \in DOMAIN list : i \in DOMAIN r /\ r[i].id = list[i].id
      /\ \A i \in DOMAIN r \ DOMAIN list : r[i].id \in {None, "hole"}
  BY PositionalKeepsIds
<1>2. Book(r)
  BY PositionalIs
<1> HIDE DEF r
<1>3. IdsOf(r) = IdsOf(list)
  BY <1>1 DEF IdsOf
<1>4. Distinct(r)
  BY <1>1, AddressAssumption DEF Distinct
<1>. QED BY <1>2, <1>3, <1>4 DEF r

\* What the unguarded writes of a request leave of the list as it was read.
LEMMA RaceIs ==
    ASSUME NEW h \in Editors, AddressTypeOK, Race(h), editor[h].do \in {"update", "delete", "locate"}
    PROVE  /\ raced' \subseteq {"update", "delete", "locate"}
           /\ editor[h].do \notin raced' => list = editor[h].read /\ raced' = raced
           /\ raced' \cap {"update", "delete"} = {} => raced \cap {"update", "delete"} = {}
           /\ raced \subseteq raced'
  BY DEF Race, AddressTypeOK

\* An update is written.
LEMMA WriteUpdateStep ==
    ASSUME AddressTypeOK, AddressInv, NEW h \in Editors, WriteUpdate(h)
    PROVE  AddressTypeOK' /\ AddressInv'
<1> DEFINE k     == editor[h]
           old   == k.read
           id    == old[k.at].id
           moved == Moved(old, k.at, k.spot)
           new   == IF k.default /\ ~old[k.at].default THEN OnlyDefault(moved, id) ELSE moved
<1>1. /\ Consistent(list, location, area, lookedUp, kept, cleared, whence, raced)
      /\ Book(list) /\ Distinct(list)
  BY ConsistentIs DEF AddressTypeOK, Consistent
<1>2. /\ Book(old) /\ Distinct(old) /\ k.at \in DOMAIN old /\ old[k.at].id \in Ids
      /\ k.spot \in Spots \cup {None} /\ k.default \in BOOLEAN /\ k.do = "update"
  BY Working DEF WriteUpdate
<1>3. /\ list' = Positional(old, new)
      /\ IF new[k.at].default THEN Follow(new[k.at].spot) ELSE Stay
      /\ Race(h)
      /\ editor' = [editor EXCEPT ![h] = Free] /\ kept' = kept /\ cleared' = cleared
  BY DEF WriteUpdate
<1>4. /\ Book(moved) /\ Len(moved) = Len(old) /\ DOMAIN moved = DOMAIN old
      /\ \A j \in DOMAIN old :
            /\ moved[j].id = old[j].id /\ moved[j].default = old[j].default
            /\ moved[j].spot = IF j = k.at /\ k.spot # None THEN k.spot ELSE old[j].spot
  <2> HIDE DEF k, old, id, new
  <2>1. Book(old) /\ k.at \in DOMAIN old /\ k.spot \in Spots \cup {None}
    BY <1>2
  <2>. QED BY <2>1, MovedIs
<1> DEFINE at == k.at
<1> HIDE DEF k, moved
<1>5. Distinct(moved) /\ moved[at].id = id /\ at \in DOMAIN moved /\ IdsOf(moved) = IdsOf(old)
  BY <1>2, <1>4, SameIds
<1>6. CASE k.default /\ ~old[at].default
  <2>1. new = OnlyDefault(moved, moved[at].id)
    BY <1>5, <1>6
  <2> DEFINE only == OnlyDefault(moved, moved[at].id)
  <2>2. /\ Book(only) /\ Len(only) = Len(moved) /\ DOMAIN only = DOMAIN moved
        /\ \A i \in DOMAIN moved : only[i].id = moved[i].id /\ only[i].spot = moved[i].spot
    BY <1>4, OnlyDefaultIs
  <2>3. /\ only[at].default /\ Single(only) /\ Marks(only) /\ DefaultSpots(only) = {moved[at].spot}
    BY <1>2, <1>4, <1>5, OnlyDefaultMarks
  <2> HIDE DEF only, new
  <2>4. /\ Book(new) /\ Len(new) = Len(old) /\ DOMAIN new = DOMAIN old
        /\ \A i \in DOMAIN old : new[i].id = old[i].id
        /\ new[at].default /\ Single(new) /\ Marks(new) /\ DefaultSpots(new) = {new[at].spot}
    <3>1. new = only
      BY <2>1 DEF only
    <3>. QED BY <1>4, <1>5, <2>2, <2>3, <3>1
  <2>5. new[at].spot \in Spots \cup {None}
    BY <1>2, <2>4, BookIs
  <2>6. Book(list') /\ Distinct(list') /\ IdsOf(list') = IdsOf(list)
    BY <1>1, <1>2, <1>3, <2>4, PositionalDistinct
  <2>7. /\ location' \in Spots \cup {None}
        /\ area' \in Areas \cup {None} /\ lookedUp' \in Spots \cup {None}
        /\ whence' \in {"default", "other", "unknown"}
        /\ new[at].spot # None =>
              location' = new[at].spot /\ lookedUp' = new[at].spot /\ whence' = "default"
        /\ new[at].spot = None => /\ location' = location /\ whence' = whence
                                  /\ area' = area /\ lookedUp' = lookedUp
    BY <1>3, <2>4, <2>5, FollowIs DEF place
  <2>8. ("update" \notin raced') => list = old /\ list' = new /\ raced' = raced
    BY <1>1, <1>2, <1>3, <2>4, RaceIs, PositionalSame DEF k
  <2>9. raced \subseteq raced' /\ raced' \subseteq {"update", "delete", "locate"}
    BY <1>2, <1>3, RaceIs DEF k
  <2>10. /\ editor' \in [Editors -> Edits]
         /\ \A g \in Editors : Known(editor'[g]) /\ Distinct(editor'[g].read)
    BY <1>3, HandlerFreed
  <2>11. AddressTypeOK'
    BY <1>3, <2>6, <2>7, <2>9, <2>10 DEF AddressTypeOK
  <2>12. new # <<>>
    BY <1>2, <2>4
  <2>13. Consistent(list', location', area', lookedUp', kept', cleared', whence', raced')
    BY <1>1, <1>3, <2>4, <2>6, <2>7, <2>8, <2>9, <2>12 DEF Consistent
  <2>. QED BY <2>10, <2>11, <2>13, ConsistentNext
<1>7. CASE ~(k.default /\ ~old[at].default)
  <2>1. new = moved
    BY <1>7
  <2> HIDE DEF new
  <2>2. /\ Book(new) /\ Len(new) = Len(old) /\ DOMAIN new = DOMAIN old
        /\ \A j \in DOMAIN old :
              /\ new[j].id = old[j].id /\ new[j].default = old[j].default
              /\ j # at => new[j].spot = old[j].spot
    BY <1>4, <2>1
  <2>3. new[at].spot \in Spots \cup {None}
    BY <1>2, <2>2, BookIs
  <2>4. Book(list') /\ Distinct(list') /\ IdsOf(list') = IdsOf(list)
    BY <1>1, <1>2, <1>3, <2>2, PositionalDistinct
  <2>5. ("update" \notin raced') => list = old /\ list' = new /\ raced' = raced
    BY <1>1, <1>2, <1>3, <2>2, RaceIs, PositionalSame DEF k
  <2>6. raced \subseteq raced' /\ raced' \subseteq {"update", "delete", "locate"}
    BY <1>2, <1>3, RaceIs DEF k
  <2>7. /\ editor' \in [Editors -> Edits]
        /\ \A g \in Editors : Known(editor'[g]) /\ Distinct(editor'[g].read)
    BY <1>3, HandlerFreed
  <2>8. (Single(old) <=> Single(new)) /\ (Marks(old) <=> Marks(new))
    BY <2>2, SameMarks
  <2>9. new # <<>> /\ old # <<>>
    BY <1>2, <2>2
  <2>10. CASE new[at].default
    <3>1. /\ location' \in Spots \cup {None}
          /\ area' \in Areas \cup {None} /\ lookedUp' \in Spots \cup {None}
          /\ whence' \in {"default", "other", "unknown"}
          /\ new[at].spot # None =>
                location' = new[at].spot /\ lookedUp' = new[at].spot /\ whence' = "default"
          /\ new[at].spot = None => /\ location' = location /\ whence' = whence
                                    /\ area' = area /\ lookedUp' = lookedUp
      BY <1>3, <2>3, <2>10, FollowIs DEF place
    <3>2. Single(new) => DefaultSpots(new) = {new[at].spot}
      BY <1>2, <2>2, <2>10 DEF Single, DefaultSpots
    <3>3. AddressTypeOK'
      BY <1>3, <2>4, <2>6, <2>7, <3>1 DEF AddressTypeOK
    <3>4. Consistent(list', location', area', lookedUp', kept', cleared', whence', raced')
      BY <1>1, <1>3, <2>4, <2>5, <2>6, <2>8, <2>9, <3>1, <3>2 DEF Consistent
    <3>. QED BY <2>7, <3>3, <3>4, ConsistentNext
  <2>11. CASE ~new[at].default
    <3>1. /\ location' = location /\ area' = area /\ lookedUp' = lookedUp /\ whence' = whence
      BY <1>3, <2>11, StayIs
    <3>2. DefaultSpots(new) = DefaultSpots(old)
      BY <1>2, <2>2, <2>11 DEF DefaultSpots
    <3>3. AddressTypeOK'
      BY <1>3, <2>4, <2>6, <2>7, <3>1 DEF AddressTypeOK
    <3>4. Consistent(list', location', area', lookedUp', kept', cleared', whence', raced')
      BY <1>1, <1>3, <2>4, <2>5, <2>6, <2>8, <2>9, <3>1, <3>2 DEF Consistent
    <3>. QED BY <2>7, <3>3, <3>4, ConsistentNext
  <2>. QED BY <2>10, <2>11
<1>. QED BY <1>6, <1>7

\* A delete is written.
LEMMA WriteDeleteStep ==
    ASSUME AddressTypeOK, AddressInv, NEW h \in Editors, WriteDelete(h)
    PROVE  AddressTypeOK' /\ AddressInv'
<1> DEFINE k    == editor[h]
           old  == k.read
           at   == k.at
           left == Without(old, at)
           new  == Deleted(old, at, 1)
<1>1. /\ Consistent(list, location, area, lookedUp, kept, cleared, whence, raced)
      /\ Book(list) /\ Distinct(list) /\ \A g \in Editors : Distinct(editor[g].read)
  BY ConsistentIs DEF AddressTypeOK, Consistent
<1>2. /\ Book(old) /\ Distinct(old) /\ at \in DOMAIN old /\ old[at].id \in Ids
      /\ k.do = "delete"
  BY Working DEF WriteDelete
<1>3. /\ \/ /\ list' = list /\ location' = location /\ area' = area /\ lookedUp' = lookedUp
            /\ kept' = kept /\ whence' = whence /\ raced' = raced
         \/ /\ list' = new /\ kept' = kept \ {old[at].id}
            /\ IF left = <<>> THEN Nowhere /\ whence' = "default"
               ELSE IF old[at].default THEN Follow(left[1].spot)
               ELSE Stay
            /\ Race(h)
      /\ editor' = [editor EXCEPT ![h] = Free] /\ cleared' = cleared
  BY DEF WriteDelete, Deleted, place
<1>4. /\ editor' \in [Editors -> Edits]
      /\ \A g \in Editors : Known(editor'[g]) /\ Distinct(editor'[g].read)
  BY <1>3, HandlerFreed
<1>5. CASE /\ list' = list /\ location' = location /\ area' = area /\ lookedUp' = lookedUp
           /\ kept' = kept /\ whence' = whence /\ raced' = raced
  <2>1. AddressTypeOK'
    BY <1>3, <1>4, <1>5 DEF AddressTypeOK
  <2>2. Consistent(list', location', area', lookedUp', kept', cleared', whence', raced')
    BY <1>1, <1>3, <1>5
  <2>. QED BY <1>4, <2>1, <2>2, ConsistentNext
<1>6. CASE /\ list' = new /\ kept' = kept \ {old[at].id}
           /\ IF left = <<>> THEN Nowhere /\ whence' = "default"
              ELSE IF old[at].default THEN Follow(left[1].spot)
              ELSE Stay
           /\ Race(h)
  <2>1. Book(left)
    <3> HIDE DEF k
    <3>. QED BY <1>2, WithoutIs
  <2>2. left # <<>> => 1 \in DOMAIN left
    <3> HIDE DEF left
    <3>1. Len(left) \in Nat /\ DOMAIN left = 1..Len(left) /\ ((left = <<>>) <=> (Len(left) = 0))
      BY <2>1, BookIs
    <3>. QED BY <3>1
  <2> HIDE DEF k
  <2>3. /\ Book(new) /\ (new = <<>> <=> left = <<>>) /\ Distinct(new)
        /\ IdsOf(new) = IdsOf(old) \ {old[at].id}
        /\ Single(old) => Single(new)
        /\ Marks(old) /\ left # <<>> => Marks(new)
        /\ old[at].default /\ left # <<>> /\ Single(old) => DefaultSpots(new) = {left[1].spot}
        /\ ~old[at].default \/ left = <<>> => DefaultSpots(new) \subseteq DefaultSpots(old)
        /\ left # <<>> => left[1].spot \in Spots \cup {None}
    BY <1>2, <2>2, DeletedIs
  <2>4. ("delete" \notin raced') => list = old /\ raced' = raced
    BY <1>2, <1>6, RaceIs DEF k
  <2>5. raced \subseteq raced' /\ raced' \subseteq {"update", "delete", "locate"}
    BY <1>2, <1>6, RaceIs DEF k
  <2>6. old # <<>>
    BY <1>2
  <2> HIDE DEF left, new, old, at
  <2>8. DefaultSpots(<<>>) = {}
    BY DEF DefaultSpots
  <2>9. CASE left = <<>>
    <3>1. /\ location' = None /\ area' = None /\ lookedUp' = None /\ whence' = "default"
      BY <1>6, <2>9 DEF Nowhere
    <3>3. AddressTypeOK'
      BY <1>3, <1>4, <1>6, <2>3, <2>5, <3>1 DEF AddressTypeOK
    <3>4. Consistent(list', location', area', lookedUp', kept', cleared', whence', raced')
      BY <1>1, <1>3, <1>6, <2>3, <2>4, <2>5, <2>8, <2>9, <3>1 DEF Consistent
    <3>. QED BY <1>4, <3>3, <3>4, ConsistentNext
  <2>10. CASE left # <<>> /\ old[at].default
    <3>1. /\ location' \in Spots \cup {None}
          /\ area' \in Areas \cup {None} /\ lookedUp' \in Spots \cup {None}
          /\ whence' \in {"default", "other", "unknown"}
          /\ left[1].spot # None =>
                location' = left[1].spot /\ lookedUp' = left[1].spot /\ whence' = "default"
          /\ left[1].spot = None => /\ location' = location /\ whence' = whence
                                    /\ area' = area /\ lookedUp' = lookedUp
      BY <1>6, <2>3, <2>10, FollowIs DEF place
    <3>3. AddressTypeOK'
      BY <1>3, <1>4, <1>6, <2>3, <2>5, <3>1 DEF AddressTypeOK
    <3>4. Consistent(list', location', area', lookedUp', kept', cleared', whence', raced')
      BY <1>1, <1>3, <1>6, <2>3, <2>4, <2>5, <2>6, <2>10, <3>1 DEF Consistent
    <3>. QED BY <1>4, <3>3, <3>4, ConsistentNext
  <2>11. CASE left # <<>> /\ ~old[at].default
    <3>1. /\ location' = location /\ area' = area /\ lookedUp' = lookedUp /\ whence' = whence
      BY <1>6, <2>11, StayIs
    <3>3. AddressTypeOK'
      BY <1>3, <1>4, <1>6, <2>3, <2>5, <3>1 DEF AddressTypeOK
    <3>4. Consistent(list', location', area', lookedUp', kept', cleared', whence', raced')
      BY <1>1, <1>3, <1>6, <2>3, <2>4, <2>5, <2>6, <2>11, <3>1 DEF Consistent
    <3>. QED BY <1>4, <3>3, <3>4, ConsistentNext
  <2>. QED BY <2>9, <2>10, <2>11
<1>. QED BY <1>3, <1>5, <1>6

\* An address is moved to where the user is ...
LEMMA WriteLocationStep ==
    ASSUME AddressTypeOK, AddressInv, NEW h \in Editors, WriteLocation(h)
    PROVE  AddressTypeOK' /\ AddressInv'
<1> DEFINE k   == editor[h]
           old == k.read
           at  == k.at
           new == Moved(old, at, k.spot)
           k2  == [k EXCEPT !.do = "located"]
<1>1. /\ Consistent(list, location, area, lookedUp, kept, cleared, whence, raced)
      /\ Book(list) /\ Distinct(list)
  BY ConsistentIs DEF AddressTypeOK, Consistent
<1>2. /\ Book(old) /\ Distinct(old) /\ at \in DOMAIN old /\ old[at].id \in Ids
      /\ k.spot \in Spots /\ k.do = "locate" /\ k \in Edits /\ Known(k)
  BY Working DEF WriteLocation
<1>3. /\ list' = Positional(old, new)
      /\ whence' = (IF \E i \in DOMAIN list' : i = at /\ list'[i].default THEN Away ELSE whence)
      /\ editor' = [editor EXCEPT ![h] = k2] /\ Race(h)
      /\ location' = location
      /\ area' = area /\ lookedUp' = lookedUp /\ kept' = kept /\ cleared' = cleared
  BY DEF WriteLocation, place
<1>4. k2 \in Edits /\ k2.read = old /\ Known(k2)
  <2>1. /\ k2 \in Edits /\ k2.do = "located" /\ k2.at = at /\ k2.read = old /\ k2.spot = k.spot
    BY <1>2 DEF Edits
  <2> HIDE DEF k2, k
  <2>2. Known(k2)
    BY <1>2, <2>1 DEF Known
  <2>. QED BY <2>1, <2>2
<1> HIDE DEF k2
<1>5. /\ editor' \in [Editors -> Edits]
      /\ \A g \in Editors : Known(editor'[g]) /\ Distinct(editor'[g].read)
  BY <1>2, <1>3, <1>4, HandlerSet
<1>6. ("locate" \notin raced') => list = old /\ raced' = raced
  BY <1>2, <1>3, RaceIs
<1>7. /\ raced \subseteq raced' /\ raced' \subseteq {"update", "delete", "locate"}
      /\ raced' \cap {"update", "delete"} = {} => raced \cap {"update", "delete"} = {}
  BY <1>2, <1>3, RaceIs
<1>8. /\ Away # "default" /\ Away \in {"default", "other", "unknown"}
      /\ Away # "unknown" => whence # "unknown"
  BY DEF Away
<1>9. whence \in {"default", "other", "unknown"}
  BY DEF AddressTypeOK
<1> HIDE DEF k
<1>10. /\ Book(new) /\ Len(new) = Len(old) /\ DOMAIN new = DOMAIN old
       /\ \A j \in DOMAIN old :
             /\ new[j].id = old[j].id /\ new[j].default = old[j].default
             /\ new[j].spot = IF j = at /\ k.spot # None THEN k.spot ELSE old[j].spot
  <2> HIDE DEF old, at
  <2>1. Book(old) /\ at \in DOMAIN old /\ k.spot \in Spots \cup {None}
    BY <1>2
  <2>. QED BY <2>1, MovedIs
<1> HIDE DEF new, old, at
<1>11. Book(list') /\ Distinct(list') /\ IdsOf(list') = IdsOf(list)
  BY <1>1, <1>2, <1>3, <1>10, PositionalDistinct
<1>12. \A i \in DOMAIN list' : list'[i].default => i \in DOMAIN list /\ list[i].default
  BY <1>1, <1>2, <1>3, <1>10, PositionalKeepsMarks
<1>13. Single(list) => Single(list')
  BY <1>12 DEF Single
<1>14. (raced' = {}) => list = old /\ list' = new /\ raced = {}
  <2>1. (list = old) => Positional(old, new) = new
    BY <1>1, <1>10, PositionalSame
  <2>. QED BY <1>3, <1>6, <2>1
<1>15. (Single(old) <=> Single(new)) /\ (Marks(old) <=> Marks(new))
  BY <1>10, SameMarks
<1>16. ASSUME raced' = {}, whence' = "default"
       PROVE  DefaultSpots(new) = DefaultSpots(old) /\ whence = "default" /\ list' # <<>> /\ list # <<>>
  <2>1. ~(at \in DOMAIN new /\ new[at].default) /\ whence = "default"
    BY <1>3, <1>8, <1>14, <1>16
  <2>2. DefaultSpots(new) = DefaultSpots(old)
    BY <1>10, <2>1 DEF DefaultSpots
  <2>3. new # <<>> /\ old # <<>>
    BY <1>2, <1>10
  <2>. QED BY <1>14, <1>16, <2>1, <2>2, <2>3
<1>17. AddressTypeOK'
  BY <1>3, <1>5, <1>7, <1>8, <1>9, <1>11 DEF AddressTypeOK
<1>18. ASSUME raced' = {}, ~cleared', list' # <<>> PROVE Marks(list')
  BY <1>1, <1>2, <1>3, <1>14, <1>15, <1>18 DEF Consistent
<1>19. ((whence' # "unknown") => lookedUp' = location') /\ (location' = None => area' = None)
  BY <1>1, <1>3, <1>8 DEF Consistent
<1>20. Consistent(list', location', area', lookedUp', kept', cleared', whence', raced')
  <2>1. ASSUME whence' = "default", raced' = {}
        PROVE  /\ \A s \in DefaultSpots(list') : s # None => location' = s
               /\ list' = <<>> => location' = None
    <3>1. DefaultSpots(new) = DefaultSpots(old) /\ whence = "default" /\ list' # <<>> /\ list # <<>>
      BY <1>16, <2>1
    <3>2. list = old /\ list' = new /\ raced = {}
      BY <1>14, <2>1
    <3>3. \A s \in DefaultSpots(list) : s # None => location = s
      BY <1>1, <3>1, <3>2 DEF Consistent
    <3>. QED BY <1>3, <3>1, <3>2, <3>3
  <2>2. raced' \cap {"update", "delete"} = {} => Single(list')
    BY <1>1, <1>7, <1>13 DEF Consistent
  <2>3. "delete" \notin raced' => IdsOf(list') = kept'
    BY <1>1, <1>3, <1>7, <1>11 DEF Consistent
  <2>. QED BY <1>11, <1>18, <1>19, <2>1, <2>2, <2>3 DEF Consistent
<1>. QED BY <1>5, <1>17, <1>20, ConsistentNext

\* ... and then the user.
LEMMA SetLocationStep ==
    ASSUME AddressTypeOK, AddressInv, NEW h \in Editors, SetLocation(h)
    PROVE  AddressTypeOK' /\ AddressInv'
<1>1. Consistent(list, location, area, lookedUp, kept, cleared, whence, raced) /\ Book(list)
  BY ConsistentIs DEF AddressTypeOK
<1>2. editor[h].spot \in Spots
  BY Working DEF SetLocation
<1>3. /\ location' \in Spots /\ location' # None
      /\ area' \in Areas \cup {None} /\ lookedUp' = location'
      /\ whence' = (IF Default(list, location') THEN "default" ELSE "other")
      /\ editor' = [editor EXCEPT ![h] = Free]
      /\ list' = list /\ kept' = kept /\ cleared' = cleared /\ raced' = raced
  BY <1>2, AddressAssumption DEF SetLocation, checkServiceability
<1>4. /\ editor' \in [Editors -> Edits]
      /\ \A g \in Editors : Known(editor'[g]) /\ Distinct(editor'[g].read)
  BY <1>3, HandlerFreed
<1>5. AddressTypeOK'
  BY <1>3, <1>4 DEF AddressTypeOK
<1>6. ASSUME Default(list, location'), Single(list)
      PROVE  DefaultSpots(list) = {location'} /\ list # <<>>
  <2>1. PICK i \in DOMAIN list : list[i].default /\ list[i].spot = location'
    BY <1>6 DEF Default
  <2>. QED BY <1>6, <2>1 DEF Single, DefaultSpots
<1>7. Consistent(list', location', area', lookedUp', kept', cleared', whence', raced')
  BY <1>1, <1>3, <1>6 DEF Consistent
<1>. QED BY <1>4, <1>5, <1>7, ConsistentNext

\* The user sets the location alone.
LEMMA updateProfileStep ==
    ASSUME AddressTypeOK, AddressInv, NEW spot \in Spots, updateProfile(spot)
    PROVE  AddressTypeOK' /\ AddressInv'
<1>1. /\ Consistent(list, location, area, lookedUp, kept, cleared, whence, raced)
      /\ \A g \in Editors : Distinct(editor[g].read)
  BY ConsistentIs
<1>2. /\ location' = spot /\ spot # None /\ whence' = "other"
      /\ area' \in Areas \cup {None} /\ lookedUp' = spot
      /\ list' = list /\ editor' = editor /\ kept' = kept /\ cleared' = cleared /\ raced' = raced
  BY AddressAssumption DEF updateProfile, checkServiceability
<1>3. AddressTypeOK'
  BY <1>2 DEF AddressTypeOK
<1>4. Consistent(list', location', area', lookedUp', kept', cleared', whence', raced')
  BY <1>1, <1>2 DEF Consistent
<1>. QED BY <1>1, <1>2, <1>3, <1>4, ConsistentNext

\* An administrator changes an address.
LEMMA updateUserAddressStep ==
    ASSUME AddressTypeOK, AddressInv, NEW a \in Ids, NEW spot \in Spots \cup {None},
           NEW asked \in {"same", "yes", "no"}, updateUserAddress(a, spot, asked)
    PROVE  AddressTypeOK' /\ AddressInv'
<1> DEFINE i     == Position(list, a)
           only  == IF asked = "yes" THEN OnlyDefault(list, a) ELSE list
           moved == Moved(only, i, spot)
           new   == IF asked = "no" THEN Marked(moved, i, FALSE) ELSE moved
<1>1. /\ Consistent(list, location, area, lookedUp, kept, cleared, whence, raced)
      /\ Book(list) /\ Distinct(list) /\ \A g \in Editors : Distinct(editor[g].read)
  BY ConsistentIs DEF AddressTypeOK, Consistent
<1>2. /\ a \in IdsOf(list) /\ list' = new
      /\ cleared' = (cleared \/ (asked = "no" /\ list[i].default))
      /\ location' = (IF spot = None THEN location ELSE spot)
      /\ whence' = (IF list' = list /\ location' = location THEN whence ELSE "unknown")
      /\ area' = area /\ lookedUp' = lookedUp /\ editor' = editor /\ kept' = kept /\ raced' = raced
  BY DEF updateUserAddress
<1>3. i \in DOMAIN list /\ list[i].id = a /\ list # <<>>
  BY <1>1, <1>2, AtIs
<1> HIDE DEF i
<1>4. /\ Book(only) /\ DOMAIN only = DOMAIN list
      /\ \A j \in DOMAIN list : only[j].id = list[j].id
      /\ asked = "yes" => Single(only) /\ Marks(only)
      /\ asked # "yes" => only = list
  <2>1. CASE asked = "yes"
    <3> DEFINE o == OnlyDefault(list, a)
    <3>1. /\ Book(o) /\ DOMAIN o = DOMAIN list
          /\ \A j \in DOMAIN list : o[j].id = list[j].id
      BY <1>1, OnlyDefaultIs
    <3>2. Single(o) /\ Marks(o)
      BY <1>1, <1>3, OnlyDefaultMarks
    <3> HIDE DEF o
    <3>3. only = o
      BY <2>1 DEF o
    <3>. QED BY <2>1, <3>1, <3>2, <3>3
  <2>2. CASE asked # "yes"
    BY <1>1, <2>2
  <2>. QED BY <2>1, <2>2
<1> HIDE DEF only
<1>5. /\ Book(moved) /\ DOMAIN moved = DOMAIN only
      /\ \A j \in DOMAIN only : moved[j].id = only[j].id /\ moved[j].default = only[j].default
  BY <1>3, <1>4, MovedIs
<1> HIDE DEF moved
<1>6. (Single(only) <=> Single(moved)) /\ (Marks(only) <=> Marks(moved))
  BY <1>5, SameMarks
<1>7. CASE asked = "no"
  <2> DEFINE m == Marked(moved, i, FALSE)
  <2>1. /\ Book(m) /\ DOMAIN m = DOMAIN moved
        /\ \A j \in DOMAIN moved :
              /\ m[j].id = moved[j].id
              /\ j = i => ~m[j].default
              /\ j # i => m[j].default = moved[j].default
    <3> HIDE DEF m
    <3>1. i \in DOMAIN moved
      BY <1>3, <1>4, <1>5
    <3>2. ASSUME NEW t \in BOOLEAN
          PROVE  /\ Book(Marked(moved, i, t)) /\ DOMAIN Marked(moved, i, t) = DOMAIN moved
                 /\ \A j \in DOMAIN moved :
                       /\ Marked(moved, i, t)[j].id = moved[j].id
                       /\ Marked(moved, i, t)[j].default = IF j = i THEN t ELSE moved[j].default
      BY <1>5, <3>1, MarkedIs
    <3>3. /\ Book(Marked(moved, i, FALSE)) /\ DOMAIN Marked(moved, i, FALSE) = DOMAIN moved
          /\ \A j \in DOMAIN moved :
                /\ Marked(moved, i, FALSE)[j].id = moved[j].id
                /\ j = i => Marked(moved, i, FALSE)[j].default = FALSE
                /\ j # i => Marked(moved, i, FALSE)[j].default = moved[j].default
      BY <3>2
    <3>. QED BY <3>3 DEF m
  <2> HIDE DEF m
  <2>2. new = m
    BY <1>7 DEF m
  <2>3. only = list
    BY <1>4, <1>7
  <2>4. /\ DOMAIN m = DOMAIN list
        /\ \A j \in DOMAIN list :
              /\ m[j].id = list[j].id
              /\ j # i => m[j].default = list[j].default
              /\ j = i => ~m[j].default
    BY <1>4, <1>5, <2>1, <2>3
  <2>5. (Single(list) => Single(m)) /\ (~list[i].default /\ Marks(list) => Marks(m))
    BY <2>4 DEF Single, Marks
  <2>6. IdsOf(m) = IdsOf(list) /\ Distinct(m)
    BY <1>1, <2>4, SameIds
  <2>7. AddressTypeOK'
    BY <1>2, <2>1, <2>2 DEF AddressTypeOK
  <2> HIDE DEF new
  <2>8. Consistent(list', location', area', lookedUp', kept', cleared', whence', raced')
    BY <1>1, <1>2, <1>3, <1>7, <2>2, <2>5, <2>6 DEF Consistent
  <2>. QED BY <1>1, <1>2, <2>7, <2>8, ConsistentNext
<1>8. CASE asked # "no"
  <2>1. new = moved
    BY <1>8
  <2>2. IdsOf(moved) = IdsOf(list) /\ Distinct(moved)
    BY <1>1, <1>4, <1>5, SameIds
  <2>3. AddressTypeOK'
    BY <1>2, <1>5, <2>1 DEF AddressTypeOK
  <2> HIDE DEF new
  <2>4. Consistent(list', location', area', lookedUp', kept', cleared', whence', raced')
    <3>1. /\ list' = moved /\ (cleared' <=> cleared) /\ kept' = kept /\ raced' = raced
          /\ whence' = "default" => list' = list /\ location' = location /\ whence = "default"
          /\ whence' # "unknown" => whence # "unknown" /\ location' = location
          /\ area' = area /\ lookedUp' = lookedUp /\ (location' = None => location = None)
      BY <1>2, <1>8, <2>1
    <3>2. (Single(list) => Single(moved)) /\ (Marks(list) => Marks(moved))
      BY <1>4, <1>6
    <3>. QED BY <1>1, <1>3, <2>2, <3>1, <3>2 DEF Consistent
  <2>. QED BY <1>1, <1>2, <2>3, <2>4, ConsistentNext
<1>. QED BY <1>7, <1>8

\* An administrator deletes an address.
LEMMA deleteUserAddressStep ==
    ASSUME AddressTypeOK, AddressInv, NEW a \in Ids, deleteUserAddress(a)
    PROVE  AddressTypeOK' /\ AddressInv'
<1> DEFINE i    == Position(list, a)
           left == Without(list, i)
           p    == Len(left)
           new  == Deleted(list, i, p)
<1>1. /\ Consistent(list, location, area, lookedUp, kept, cleared, whence, raced)
      /\ Book(list) /\ Distinct(list) /\ \A g \in Editors : Distinct(editor[g].read)
  BY ConsistentIs DEF AddressTypeOK, Consistent
<1>2. /\ a \in IdsOf(list) /\ list' = new
      /\ whence' = (IF list[i].default \/ left = <<>> THEN Away ELSE whence)
      /\ location' = location
      /\ area' = area /\ lookedUp' = lookedUp /\ editor' = editor /\ kept' = kept \ {a}
      /\ raced' = raced /\ cleared' = cleared
  BY DEF deleteUserAddress, Deleted, place
<1>3. i \in DOMAIN list /\ list[i].id = a /\ list # <<>>
  BY <1>1, <1>2, AtIs
<1> HIDE DEF i
<1>4. Book(left)
  BY <1>1, <1>3, WithoutIs
<1>5. left # <<>> => p \in DOMAIN left
  <2> HIDE DEF left
  <2>1. Len(left) \in Nat /\ DOMAIN left = 1..Len(left) /\ ((left = <<>>) <=> (Len(left) = 0))
    BY <1>4, BookIs
  <2>. QED BY <2>1
<1> HIDE DEF p
<1>6. /\ Book(new) /\ (new = <<>> <=> left = <<>>) /\ Distinct(new)
      /\ IdsOf(new) = IdsOf(list) \ {list[i].id}
      /\ Single(list) => Single(new)
      /\ Marks(list) /\ left # <<>> => Marks(new)
      /\ ~list[i].default \/ left = <<>> => DefaultSpots(new) \subseteq DefaultSpots(list)
  BY <1>1, <1>3, <1>5, DeletedIs
<1>7. /\ Away # "default" /\ Away \in {"default", "other", "unknown"}
      /\ Away # "unknown" => whence # "unknown"
  BY DEF Away
<1> HIDE DEF new, left
<1>8. AddressTypeOK'
  BY <1>2, <1>6, <1>7 DEF AddressTypeOK
<1>9. Consistent(list', location', area', lookedUp', kept', cleared', whence', raced')
  BY <1>1, <1>2, <1>3, <1>6, <1>7 DEF Consistent
<1>. QED BY <1>1, <1>2, <1>8, <1>9, ConsistentNext

LEMMA AddressStarts == ASSUME AddressInit PROVE AddressTypeOK /\ AddressInv
<1>1. /\ list = <<>> /\ location = None /\ area = None /\ lookedUp = None
      /\ kept = {} /\ cleared = FALSE /\ whence = "default" /\ raced = {} /\ editor = [h \in Editors |-> Free]
  BY DEF AddressInit
<1>2. Book(<<>>) /\ Free \in Edits /\ Known(Free) /\ Free.read = <<>>
  BY EmptySeq, AddressAssumption DEF Book, Free, Edits, Known
<1> HIDE DEF Free
<1>4. /\ editor \in [Editors -> Edits]
      /\ \A h \in Editors : Known(editor[h]) /\ editor[h].read = <<>>
  BY <1>1, <1>2
<1>6. AddressTypeOK
  BY <1>1, <1>2, <1>4 DEF AddressTypeOK
<1>7. IdsOf(<<>>) = {} /\ Single(<<>>) /\ DefaultSpots(<<>>) = {}
  BY DEF IdsOf, Single, DefaultSpots
<1>8. Consistent(list, location, area, lookedUp, kept, cleared, whence, raced)
  BY <1>1, <1>7, EmptyDistinct DEF Consistent
<1>9. \A h \in Editors : Distinct(editor[h].read)
  BY <1>4, EmptyDistinct
<1>. QED BY <1>6, <1>8, <1>9, ConsistentIs

LEMMA AddressStutter ==
    ASSUME AddressTypeOK, AddressInv, UNCHANGED <<list, place, editor, history>>
    PROVE  AddressTypeOK' /\ AddressInv'
<1>1. /\ list' = list /\ location' = location
      /\ area' = area /\ lookedUp' = lookedUp /\ editor' = editor
      /\ kept' = kept /\ cleared' = cleared /\ whence' = whence /\ raced' = raced
  BY DEF place, history
<1>2. AddressTypeOK'
  BY <1>1 DEF AddressTypeOK
<1>3. /\ Consistent(list, location, area, lookedUp, kept, cleared, whence, raced)
      /\ \A h \in Editors : Distinct(editor[h].read)
  BY ConsistentIs
<1>. QED BY <1>1, <1>2, <1>3, ConsistentNext

\* Every request, and every write of one, keeps the invariant.
LEMMA AddressRequest ==
    ASSUME AddressTypeOK, AddressInv, Request
    PROVE  AddressTypeOK' /\ AddressInv'
<1>1. CASE \E a \in Ids, spot \in Spots \cup {None}, asked \in BOOLEAN : addAddress(a, spot, asked)
  BY <1>1, addAddressStep
<1>2. CASE \E a \in Ids, spot \in Spots \cup {None}, asked \in BOOLEAN : addUserAddress(a, spot, asked)
  BY <1>2, addUserAddressStep
<1>3. CASE \E a \in Ids, spot \in Spots \cup {None}, asked \in {"same", "yes", "no"} :
              updateUserAddress(a, spot, asked)
  BY <1>3, updateUserAddressStep
<1>4. CASE \E a \in Ids : deleteUserAddress(a)
  BY <1>4, deleteUserAddressStep
<1>5. CASE \E spot \in Spots : updateProfile(spot)
  BY <1>5, updateProfileStep
<1>6. ASSUME NEW h \in Editors, NEW a \in Ids, NEW spot \in Spots \cup {None}, NEW asked \in BOOLEAN,
             UpdateAddress(h, a, spot, asked)
      PROVE  AddressTypeOK' /\ AddressInv'
  <2>1. BeginEdit(h, "update", a, spot, asked)
    BY <1>6 DEF UpdateAddress
  <2>. QED BY <2>1, BeginStep
<1>7. ASSUME NEW h \in Editors, NEW a \in Ids, NEW spot \in Spots, UpdateLocation(h, a, spot)
      PROVE  AddressTypeOK' /\ AddressInv'
  <2>1. BeginEdit(h, "locate", a, spot, FALSE)
    BY <1>7 DEF UpdateLocation
  <2>. QED BY <2>1, BeginStep
<1>8. ASSUME NEW h \in Editors, NEW a \in Ids, DeleteAddress(h, a)
      PROVE  AddressTypeOK' /\ AddressInv'
  <2>1. BeginEdit(h, "delete", a, None, FALSE)
    BY <1>8 DEF DeleteAddress
  <2>. QED BY <2>1, BeginStep
<1>. QED BY <1>1, <1>2, <1>3, <1>4, <1>5, <1>6, <1>7, <1>8 DEF Request

\* The list, the location and what requests know of them keep the invariant, for any
\* number of requests at once, whatever the limit: a write by position brings no address
\* and takes none away, and one to the list that was read makes of it what was meant.
THEOREM AddressInvariant == AddressSpec => [](AddressTypeOK /\ AddressInv)
<1>1. AddressInit => AddressTypeOK /\ AddressInv
  BY AddressStarts
<1>2. AddressTypeOK /\ AddressInv /\ [AddressNext]_addressVars => (AddressTypeOK /\ AddressInv)'
  <2> SUFFICES ASSUME AddressTypeOK, AddressInv, [AddressNext]_addressVars PROVE AddressTypeOK' /\ AddressInv'
    OBVIOUS
  <2>1. CASE Request
    BY <2>1, AddressRequest
  <2>2. CASE \E h \in Editors :
                \/ WriteUpdate(h) \/ WriteDelete(h)
                \/ WriteLocation(h) \/ SetLocation(h)
    BY <2>2, WriteUpdateStep, WriteDeleteStep, WriteLocationStep, SetLocationStep
  <2>3. CASE UNCHANGED addressVars
    <3>1. UNCHANGED <<list, place, editor, history>>
      BY <2>3 DEF addressVars
    <3>. QED BY <3>1, AddressStutter
  <2>. QED BY <2>1, <2>2, <2>3 DEF AddressNext
<1>. QED BY <1>1, <1>2, PTL DEF AddressSpec

\* A user has one default address: two only once an update or a delete wrote to a list
\* other than the one it had read, none only then or when an administrator took it away.
THEOREM DefaultAddress == AddressSpec => []OneDefault
<1>1. AddressInv => OneDefault
  BY DEF AddressInv
<1>. QED BY <1>1, AddressInvariant, PTL

\* What was added and not deleted is in the list, and what was deleted is not, until a
\* delete writes back the list it had read over another's change.
THEOREM AddressesKept == AddressSpec => []NothingLost
<1>1. AddressInv => NothingLost
  BY DEF AddressInv
<1>. QED BY <1>1, AddressInvariant, PTL

\* The location goes with the default address through every request of its owner, with an
\* area looked up for it, and there is no area where there is no location.
THEOREM LocationKept == AddressSpec => []LocationFollows
<1>1. AddressInv => LocationFollows
  BY DEF AddressInv
<1>. QED BY <1>1, AddressInvariant, PTL
==============================================================================
