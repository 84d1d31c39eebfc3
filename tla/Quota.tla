------------------------------- MODULE Quota -------------------------------
(***************************************************************************)
(* The freemium rules for one user: JobsService.enforceQuota in front of   *)
(* every POST /jobs, BillingService changing the tier, and the token that  *)
(* carries the tier of the last login.                                     *)
(*                                                                         *)
(* Each database statement is one action; there is no transaction, so      *)
(* requests interleave between reading the counter and writing it, and     *)
(* changes of tier between the user row and the subscription row.          *)
(***************************************************************************)
EXTENDS Naturals, FiniteSets

CONSTANTS
  Request,                 \* the POST /jobs requests
  Billing,                 \* the POST /billing requests
  FREE_QUOTA, PAID_QUOTA,
  MaxWindows               \* bound: how often the quota window runs out

ASSUME QuotaAssumption ==
  /\ IsFiniteSet(Request)
  /\ {FREE_QUOTA, PAID_QUOTA} \subseteq Nat \ {0}
  /\ MaxWindows \in Nat

VARIABLES
  userTier,   \* User.tier
  sub,        \* the Subscription row; old: quotaResetAt is over 24 h ago
  token,      \* the tier in the JWT the phone holds
  login,      \* the tier a login has read, while it compares the password
  pc,         \* where each POST /jobs waits
  change,     \* what each POST /billing has still to write
  windows,
  (* history *)
  inWindow,   \* the requests admitted in the present window
  overtaken,  \* requests whose counter was written after they read it
  reopened,   \* those that opened the present window when it had been opened
  forgotten,  \* those admitted before the last of them
  allowed,    \* the highest limit in force in the window
  alone,      \* changes of tier under way that met no other
  tangled,    \* the last change of tier failed halfway, or met another
  late,       \* User.tier was written since the login under way read it
  outdated    \* User.tier was written since it was read for the token

qvars == <<userTier, sub, token, login, pc, change, windows, inWindow, overtaken,
           reopened, forgotten, allowed, alone, tangled, late, outdated>>

Tier == {"FREE", "PAID"}
quotaOf(tier) == IF tier = "PAID" THEN PAID_QUOTA ELSE FREE_QUOTA

TypeOK ==
  /\ {userTier, token} \subseteq Tier
  /\ login \in Tier \cup {"none"}
  /\ sub \in [tier : Tier, limit : {FREE_QUOTA, PAID_QUOTA},
              used : 0..Cardinality(Request), old : BOOLEAN]
  /\ pc \in [Request -> {"idle", "reset", "increment", "refused", "admitted"}]
  /\ change \in [Billing -> Tier \cup {"idle", "done"}]
  /\ windows \in 0..MaxWindows
  /\ inWindow \subseteq Request /\ overtaken \subseteq Request
  /\ reopened \subseteq Request /\ forgotten \subseteq Request
  /\ alone \subseteq Billing
  /\ {tangled, late, outdated} \subseteq BOOLEAN
  /\ allowed \in {FREE_QUOTA, PAID_QUOTA}

(* AuthService.register: the user with a FREE subscription, and a token.   *)
Init ==
  /\ userTier = "FREE" /\ token = "FREE" /\ login = "none"
  /\ sub = [tier |-> "FREE", limit |-> FREE_QUOTA, used |-> 0, old |-> FALSE]
  /\ pc = [r \in Request |-> "idle"]
  /\ change = [b \in Billing |-> "idle"]
  /\ windows = 0
  /\ inWindow = {} /\ overtaken = {} /\ reopened = {} /\ forgotten = {}
  /\ allowed = FREE_QUOTA
  /\ alone = {} /\ tangled = FALSE /\ late = FALSE /\ outdated = FALSE

tokens  == <<token, login, late, outdated>>
tiers   == <<userTier, change, alone, tangled, tokens>>
counted == <<inWindow, overtaken, reopened, forgotten, allowed>>

-----------------------------------------------------------------------------
(* JobsService.enforceQuota                                                *)

(* findUnique, and what the request makes of the row it read.              *)
Decides(r, reached) ==
  /\ pc[r] = "idle"
  /\ pc' = [pc EXCEPT ![r] = IF sub.old THEN "reset"
                             ELSE IF reached THEN "refused" ELSE "increment"]
  /\ UNCHANGED <<sub, tiers, windows, counted>>

(* Faulty variant of Read: `>` where the code has `>=`.                    *)
ReadOffByOne(r) == Decides(r, sub.used > sub.limit)

Read(r) == Decides(r, sub.used >= sub.limit)

Overtake(r) ==
  overtaken' = overtaken \cup {q \in Request \ {r} : pc[q] \in {"reset", "increment"}}

(* The window ran out: a new one opens, with a counter of `used`.          *)
OpensWindow(r, used) ==
  /\ pc[r] = "reset"
  /\ pc' = [pc EXCEPT ![r] = "admitted"]
  /\ sub' = [sub EXCEPT !.used = used, !.old = FALSE]
  /\ IF sub.old
     THEN /\ inWindow' = {r} /\ reopened' = {} /\ forgotten' = {}
          /\ allowed' = sub.limit
     ELSE /\ inWindow' = inWindow \cup {r} /\ reopened' = reopened \cup {r}
          /\ forgotten' = inWindow /\ UNCHANGED allowed
  /\ Overtake(r)
  /\ UNCHANGED <<tiers, windows>>

(* Faulty variant of Reset: the request that opens the window is free.     *)
ResetToZero(r) == OpensWindow(r, 0)

Reset(r) == OpensWindow(r, 1)

Counts(r, next) ==
  /\ pc[r] = "increment"
  /\ pc' = [pc EXCEPT ![r] = next]
  /\ sub' = [sub EXCEPT !.used = @ + 1]
  /\ inWindow' = inWindow \cup {r}
  /\ Overtake(r)
  /\ UNCHANGED <<tiers, windows, reopened, forgotten, allowed>>

(* Faulty variant of Increment: the update is sent again and again.        *)
IncrementAgain(r) == Counts(r, "increment")

Increment(r) == Counts(r, "admitted")

(* 24 hours have passed since quotaResetAt.                                *)
WindowLapses ==
  /\ ~sub.old
  /\ windows < MaxWindows
  /\ windows' = windows + 1
  /\ sub' = [sub EXCEPT !.old = TRUE]
  /\ UNCHANGED <<tiers, pc, counted>>

-----------------------------------------------------------------------------
(* BillingService.upgrade and downgrade: the user row, then the            *)
(* subscription row.                                                       *)

UnderWay == {b \in Billing : change[b] \in Tier}

SetUserTier(b, tier) ==
  /\ change[b] = "idle"
  /\ change' = [change EXCEPT ![b] = tier]
  /\ userTier' = tier
  /\ outdated' = TRUE /\ late' = (login # "none")
  /\ alone' = IF UnderWay = {} THEN {b} ELSE {}
  /\ UNCHANGED <<sub, token, login, tangled, pc, windows, counted>>

(* The second write, which makes the row's tier `tier`.                    *)
WritesRow(b, tier) ==
  /\ change[b] \in Tier
  /\ change' = [change EXCEPT ![b] = "done"]
  /\ sub' = [sub EXCEPT !.tier = tier, !.limit = quotaOf(change[b])]
  /\ allowed' = IF quotaOf(change[b]) > allowed THEN quotaOf(change[b]) ELSE allowed
  /\ tangled' = (b \notin alone)
  /\ UNCHANGED <<userTier, tokens, alone, pc, windows,
                 inWindow, overtaken, reopened, forgotten>>

(* Faulty variant of SetSubscription: the tier is left as it was.          *)
SetQuotaOnly(b) == WritesRow(b, sub.tier)

SetSubscription(b) == WritesRow(b, change[b])

(* The second write is refused, or the API dies before it.                 *)
ChangeThrows(b) ==
  /\ change[b] \in Tier
  /\ change' = [change EXCEPT ![b] = "done"]
  /\ tangled' = TRUE
  /\ UNCHANGED <<userTier, sub, tokens, alone, pc, windows, counted>>

-----------------------------------------------------------------------------
(* AuthService.login: the user row is read, and the password compared      *)
(* before the token is signed, which carries that tier until the next one. *)

elsewhere == <<userTier, sub, change, alone, tangled, pc, windows, counted>>

LoginReads ==
  /\ login = "none"
  /\ login' = userTier /\ late' = FALSE
  /\ UNCHANGED <<token, outdated, elsewhere>>

LoginIssues ==
  /\ login # "none"
  /\ login' = "none" /\ late' = FALSE
  /\ token' = login /\ outdated' = late
  /\ UNCHANGED elsewhere

(* The password is wrong.                                                  *)
LoginRefused ==
  /\ login # "none"
  /\ login' = "none" /\ late' = FALSE
  /\ UNCHANGED <<token, outdated, elsewhere>>

-----------------------------------------------------------------------------
Next ==
  \/ \E r \in Request : Read(r) \/ Reset(r) \/ Increment(r)
  \/ WindowLapses
  \/ \E b \in Billing :
       \/ \E tier \in Tier : SetUserTier(b, tier)
       \/ SetSubscription(b) \/ ChangeThrows(b)
  \/ LoginReads \/ LoginIssues \/ LoginRefused

Spec == Init /\ [][Next]_qvars

-----------------------------------------------------------------------------
(* Properties                                                              *)

(* jobs.service.ts:147-164: however requests interleave, the counter is    *)
(* the number of jobs admitted in the window; only when two requests find  *)
(* the window expired does the later one make it forget the jobs that the  *)
(* window had let in before, and nothing else does.                        *)
CounterCountsJobs ==
  /\ sub.used = Cardinality(inWindow \ forgotten)
  /\ reopened = {} => forgotten = {}

(* jobs.service.ts:141,157: a window lets in no more jobs than its limit,  *)
(* once more for each request that opened it again, and those that raced:  *)
(* that wrote the counter after it had changed under them.  In particular  *)
(* requests that do not overlap keep to the limit, whatever upgrades,      *)
(* downgrades and windows come between.                                    *)
QuotaHolds ==
  Cardinality(inWindow \ overtaken) <= allowed * (1 + Cardinality(reopened))

(* billing.service.ts:25-32, auth.service.ts:43: the three copies of the   *)
(* tier agree when no change is under way; unless the last one failed      *)
(* halfway or ran into another, or the row was written after it was read   *)
(* for the token.                                                          *)
TiersAgree ==
  UnderWay = {} /\ ~tangled =>
    /\ sub.tier = userTier
    /\ sub.limit = quotaOf(userTier)
    /\ outdated \/ token = userTier

-----------------------------------------------------------------------------
(* What they rest on                                                       *)

Admitted == {r \in Request : pc[r] = "admitted"}

(* A request counts once, and opens a window once.                         *)
CountInv ==
  /\ inWindow \subseteq Admitted /\ reopened \subseteq Admitted
  /\ forgotten \subseteq inWindow
  /\ sub.used <= Cardinality(Admitted)
  /\ CounterCountsJobs

(* Those that did not race: let in since the window was opened for the     *)
(* last time, and before.                                                  *)
Since  == (inWindow \ forgotten) \ overtaken
Before == forgotten \ overtaken

(* A request that nobody has overtaken still has room, and each opening    *)
(* has let in no more than the limit beside the ones that raced.           *)
RoomInv ==
  /\ sub.limit <= allowed
  /\ \A r \in Request \ overtaken : pc[r] = "increment" => sub.used < allowed
  /\ Cardinality(Since) <= allowed
  /\ Cardinality(Before) <= allowed * Cardinality(reopened)

(* A change of tier that met no other finds the user row as it wrote it,   *)
(* and so does a login that none came after.                               *)
TierInv ==
  /\ \A b \in alone : b \in UnderWay => UnderWay = {b} /\ change[b] = userTier
  /\ login # "none" => late \/ login = userTier
  /\ outdated \/ token = userTier
  /\ TiersAgree

=============================================================================
