----------------------------- MODULE QuotaProofs -----------------------------
(***************************************************************************)
(* What TLAPS proves of the freemium rules, for any number of requests,    *)
(* changes of tier and windows, and any two quotas.                        *)
(***************************************************************************)
EXTENDS Quota, FiniteSetTheorems, TLAPS

LEMMA Quotas ==
  /\ IsFiniteSet(Request) /\ MaxWindows \in Nat
  /\ FREE_QUOTA \in Nat \ {0} /\ PAID_QUOTA \in Nat \ {0}
  /\ \A tier : quotaOf(tier) \in {FREE_QUOTA, PAID_QUOTA}
BY QuotaAssumption DEF quotaOf

LEMMA SomeRequests ==
  ASSUME NEW S, S \subseteq Request
  PROVE  /\ IsFiniteSet(S) /\ Cardinality(S) \in Nat
         /\ Cardinality(S) <= Cardinality(Request)
         /\ \A T \in SUBSET S : Cardinality(T) <= Cardinality(S)
         /\ \A r : Cardinality(S \cup {r}) =
                     IF r \in S THEN Cardinality(S) ELSE Cardinality(S) + 1
BY Quotas, FS_Subset, FS_CardinalityType, FS_AddElement

(* The steps that leave the counter alone.                                 *)
LEMMA CountersStay ==
  ASSUME NEW b \in Billing,
         \/ \E tier \in Tier : SetUserTier(b, tier)
         \/ SetSubscription(b) \/ ChangeThrows(b)
  PROVE  /\ UNCHANGED <<pc, windows, inWindow, overtaken, reopened, forgotten>>
         /\ SetSubscription(b) \/ UNCHANGED <<sub, allowed>>
BY DEF SetUserTier, SetSubscription, WritesRow, ChangeThrows, counted

-----------------------------------------------------------------------------
(* Types and the counter                                                   *)

LEMMA SubTypes ==
  ASSUME TypeOK
  PROVE  /\ sub.limit \in {FREE_QUOTA, PAID_QUOTA} /\ sub.limit \in Nat \ {0}
         /\ allowed \in Nat \ {0}
         /\ sub.used \in Nat /\ sub.used <= Cardinality(Request)
         /\ sub.tier \in Tier /\ sub.old \in BOOLEAN
         /\ sub = [tier |-> sub.tier, limit |-> sub.limit,
                   used |-> sub.used, old |-> sub.old]
<1>1. Cardinality(Request) \in Nat
  BY SomeRequests
<1>2. QED
  BY <1>1, Quotas DEF TypeOK

LEMMA InitTypes ==
  ASSUME Init
  PROVE  TypeOK /\ CountInv /\ RoomInv /\ TierInv
<1>1. Cardinality({}) = 0 /\ Cardinality(Request) \in Nat
  BY FS_EmptySet, SomeRequests
<1>2. TypeOK
  <2>1. sub \in [tier : Tier, limit : {FREE_QUOTA, PAID_QUOTA},
                used : 0..Cardinality(Request), old : BOOLEAN]
    BY <1>1 DEF Init, Tier
  <2>2. {userTier, token} \subseteq Tier /\ windows \in 0..MaxWindows
    BY Quotas DEF Init, Tier
  <2>3. {tangled, late, outdated} \subseteq BOOLEAN /\ login \in Tier \cup {"none"}
    BY DEF Init
  <2>4. QED
    BY <2>1, <2>2, <2>3 DEF Init, TypeOK
<1>3. /\ Admitted = {} /\ inWindow = {} /\ reopened = {} /\ forgotten = {}
      /\ inWindow \ forgotten = {} /\ forgotten \ overtaken = {}
      /\ (inWindow \ forgotten) \ overtaken = {}
  BY DEF Init, Admitted
<1>4. CountInv
  BY <1>1, <1>3 DEF Init, CountInv, CounterCountsJobs
<1>5. RoomInv
  BY <1>1, <1>3, Quotas DEF Init, RoomInv, Since, Before
<1>6. TierInv
  BY DEF Init, TierInv, TiersAgree, quotaOf
<1>7. QED
  BY <1>2, <1>4, <1>5, <1>6

(* What an admission makes of the counter.                                 *)
LEMMA AdmitSteps ==
  ASSUME TypeOK, NEW r \in Request, Reset(r) \/ Increment(r)
  PROVE  /\ UNCHANGED <<tiers, windows>>
         /\ pc' = [pc EXCEPT ![r] = "admitted"]
         /\ Admitted' = Admitted \cup {r} /\ r \notin Admitted
         /\ overtaken' = overtaken \cup {q \in Request \ {r} : pc[q] \in {"reset", "increment"}}
         /\ sub'.limit = sub.limit /\ sub'.tier = sub.tier
         /\ Increment(r) =>
              /\ pc[r] = "increment"
              /\ sub' = [tier |-> sub.tier, limit |-> sub.limit,
                         used |-> sub.used + 1, old |-> sub.old]
              /\ inWindow' = inWindow \cup {r} /\ UNCHANGED <<reopened, forgotten, allowed>>
         /\ Reset(r) =>
              /\ sub' = [tier |-> sub.tier, limit |-> sub.limit, used |-> 1, old |-> FALSE]
              /\ IF sub.old
                 THEN /\ inWindow' = {r} /\ reopened' = {} /\ forgotten' = {}
                      /\ allowed' = sub.limit
                 ELSE /\ inWindow' = inWindow \cup {r} /\ reopened' = reopened \cup {r}
                      /\ forgotten' = inWindow /\ UNCHANGED allowed
<1>1. sub = [tier |-> sub.tier, limit |-> sub.limit, used |-> sub.used, old |-> sub.old]
  BY SubTypes
<1>2. CASE Reset(r)
  <2>1. Admitted' = Admitted \cup {r} /\ r \notin Admitted
    BY <1>2 DEF Reset, OpensWindow, Admitted, TypeOK
  <2>2. ~Increment(r)
    BY <1>2 DEF Reset, OpensWindow, Increment, Counts
  <2>3. sub' = [tier |-> sub.tier, limit |-> sub.limit, used |-> 1, old |-> FALSE]
    BY <1>1, <1>2 DEF Reset, OpensWindow
  <2>4. QED
    BY <1>2, <2>1, <2>2, <2>3 DEF Reset, OpensWindow, Overtake
<1>3. CASE Increment(r)
  <2>1. Admitted' = Admitted \cup {r} /\ r \notin Admitted
    BY <1>3 DEF Increment, Counts, Admitted, TypeOK
  <2>2. ~Reset(r)
    BY <1>3 DEF Reset, OpensWindow, Increment, Counts
  <2>3. sub' = [tier |-> sub.tier, limit |-> sub.limit,
                used |-> sub.used + 1, old |-> sub.old]
    BY <1>1, <1>3 DEF Increment, Counts
  <2>4. QED
    BY <1>3, <2>1, <2>2, <2>3 DEF Increment, Counts, Overtake
<1>4. QED
  BY <1>2, <1>3

LEMMA CountStep ==
  ASSUME TypeOK, CountInv, [Next]_qvars
  PROVE  CountInv'
<1>0. /\ Admitted \subseteq Request
      /\ inWindow \subseteq Admitted /\ reopened \subseteq Admitted
      /\ forgotten \subseteq inWindow /\ sub.used <= Cardinality(Admitted)
  BY DEF Admitted, CountInv
<1>1. ASSUME NEW r \in Request, Reset(r) \/ Increment(r)
      PROVE  CountInv'
  <2>1. /\ Cardinality(Admitted') = Cardinality(Admitted) + 1
        /\ Cardinality(Admitted) \in Nat
    BY <1>0, <1>1, AdmitSteps, SomeRequests
  <2>2. /\ inWindow' \subseteq Admitted' /\ reopened' \subseteq Admitted'
        /\ forgotten' \subseteq inWindow'
    BY <1>0, <1>1, AdmitSteps
  <2>3. sub'.used <= Cardinality(Admitted')
    BY <1>0, <1>1, <2>1, AdmitSteps, SubTypes
  <2>4. CounterCountsJobs'
    <3>1. CASE Reset(r)
      <4>1. Cardinality({r}) = 1
        BY FS_Singleton
      <4>2. inWindow' \ forgotten' = {r}
        BY <1>0, <3>1, AdmitSteps
      <4>3. sub'.used = 1 /\ (reopened' = {} => forgotten' = {})
        BY <3>1, AdmitSteps
      <4>4. QED
        BY <4>1, <4>2, <4>3 DEF CounterCountsJobs
    <3>2. CASE Increment(r)
      <4>1. /\ inWindow' \ forgotten' = (inWindow \ forgotten) \cup {r}
            /\ r \notin inWindow \ forgotten /\ inWindow \ forgotten \subseteq Request
        BY <1>0, <3>2, AdmitSteps
      <4>2. Cardinality(inWindow' \ forgotten') = Cardinality(inWindow \ forgotten) + 1
        BY <4>1, SomeRequests
      <4>3. QED
        BY <3>2, <4>2, AdmitSteps DEF CountInv, CounterCountsJobs
    <3>3. QED
      BY <1>1, <3>1, <3>2
  <2>5. QED
    BY <2>2, <2>3, <2>4 DEF CountInv
<1>2. ASSUME NEW r \in Request, Read(r)
      PROVE  CountInv'
  <2>1. UNCHANGED <<sub, inWindow, reopened, forgotten>>
    BY <1>2 DEF Read, Decides, counted
  <2>2. Admitted' = Admitted
    BY <1>2 DEF Read, Decides, Admitted, TypeOK
  <2>3. QED
    BY <2>1, <2>2 DEF CountInv, CounterCountsJobs
<1>3. ASSUME sub'.used = sub.used, UNCHANGED <<pc, inWindow, reopened, forgotten>>
      PROVE  CountInv'
  BY <1>3 DEF CountInv, CounterCountsJobs, Admitted
<1>4. CASE WindowLapses
  BY <1>3, <1>4, SubTypes DEF WindowLapses, counted
<1>5. ASSUME NEW b \in Billing,
             (\E tier \in Tier : SetUserTier(b, tier)) \/ SetSubscription(b) \/ ChangeThrows(b)
      PROVE  CountInv'
  BY <1>3, <1>5, CountersStay, SubTypes DEF SetSubscription, WritesRow
<1>6. CASE LoginReads \/ LoginIssues \/ LoginRefused \/ UNCHANGED qvars
  BY <1>3, <1>6 DEF LoginReads, LoginIssues, LoginRefused, elsewhere, counted, qvars
<1>7. QED
  BY <1>1, <1>2, <1>4, <1>5, <1>6 DEF Next

LEMMA TypesStep ==
  ASSUME TypeOK, CountInv, [Next]_qvars
  PROVE  TypeOK'
<1>0. Cardinality(Request) \in Nat
  BY SomeRequests
<1>1. ASSUME NEW r \in Request, Reset(r) \/ Increment(r)
      PROVE  TypeOK'
  <2>1. sub'.used \in 0..Cardinality(Request)
    <3>1. Cardinality(Admitted') <= Cardinality(Request) /\ Cardinality(Admitted') \in Nat
      BY SomeRequests DEF Admitted
    <3>2. sub'.used <= Cardinality(Admitted')
      BY CountStep, <1>1 DEF CountInv, Next
    <3>3. sub'.used \in Nat
      BY <1>1, AdmitSteps, SubTypes
    <3>4. QED
      BY <1>0, <3>1, <3>2, <3>3
  <2>2. sub' \in [tier : Tier, limit : {FREE_QUOTA, PAID_QUOTA},
                  used : 0..Cardinality(Request), old : BOOLEAN]
    <3>1. CASE Reset(r)
      <4>1. sub' = [tier |-> sub.tier, limit |-> sub.limit, used |-> 1, old |-> FALSE]
        BY <3>1, AdmitSteps
      <4>2. QED
        BY <2>1, <4>1, SubTypes
    <3>2. CASE Increment(r)
      <4>1. sub' = [tier |-> sub.tier, limit |-> sub.limit,
                    used |-> sub.used + 1, old |-> sub.old]
        BY <3>2, AdmitSteps
      <4>2. QED
        BY <2>1, <4>1, SubTypes
    <3>3. QED
      BY <1>1, <3>1, <3>2
  <2>3. /\ inWindow' \subseteq Request /\ overtaken' \subseteq Request
        /\ reopened' \subseteq Request /\ forgotten' \subseteq Request
    BY <1>1, AdmitSteps DEF TypeOK
  <2>4. allowed' \in {FREE_QUOTA, PAID_QUOTA}
    BY <1>1, AdmitSteps, SubTypes DEF TypeOK
  <2>5. pc' \in [Request -> {"idle", "reset", "increment", "refused", "admitted"}]
    BY <1>1, AdmitSteps DEF TypeOK
  <2>6. QED
    BY <1>1, <2>2, <2>3, <2>4, <2>5, AdmitSteps DEF TypeOK, tiers, tokens
<1>2. ASSUME NEW r \in Request, Read(r)
      PROVE  TypeOK'
  BY <1>2 DEF Read, Decides, TypeOK, tiers, tokens, counted
<1>3. CASE WindowLapses
  <2>1. sub' \in [tier : Tier, limit : {FREE_QUOTA, PAID_QUOTA},
                  used : 0..Cardinality(Request), old : BOOLEAN]
    BY <1>3 DEF WindowLapses, TypeOK
  <2>2. windows' \in 0..MaxWindows
    BY <1>3, Quotas DEF WindowLapses, TypeOK
  <2>3. QED
    BY <1>3, <2>1, <2>2 DEF WindowLapses, TypeOK, tiers, tokens, counted
<1>4. ASSUME NEW b \in Billing, NEW tier \in Tier, SetUserTier(b, tier)
      PROVE  TypeOK'
  BY <1>4 DEF SetUserTier, TypeOK, counted
<1>5. ASSUME NEW b \in Billing, SetSubscription(b)
      PROVE  TypeOK'
  <2>1. sub' \in [tier : Tier, limit : {FREE_QUOTA, PAID_QUOTA},
                  used : 0..Cardinality(Request), old : BOOLEAN]
    BY <1>5, Quotas DEF SetSubscription, WritesRow, TypeOK
  <2>2. allowed' \in {FREE_QUOTA, PAID_QUOTA} /\ tangled' \in BOOLEAN
    BY <1>5, Quotas DEF SetSubscription, WritesRow, TypeOK
  <2>3. change' \in [Billing -> Tier \cup {"idle", "done"}]
    BY <1>5 DEF SetSubscription, WritesRow, TypeOK
  <2>4. QED
    BY <1>5, <2>1, <2>2, <2>3 DEF SetSubscription, WritesRow, TypeOK, tokens
<1>6. ASSUME NEW b \in Billing, ChangeThrows(b)
      PROVE  TypeOK'
  BY <1>6 DEF ChangeThrows, TypeOK, tokens, counted
<1>7. CASE LoginReads \/ LoginIssues \/ LoginRefused
  <2>1. {userTier', token'} \subseteq Tier /\ login' \in Tier \cup {"none"}
    BY <1>7 DEF LoginReads, LoginIssues, LoginRefused, elsewhere, TypeOK
  <2>2. {tangled', late', outdated'} \subseteq BOOLEAN
    BY <1>7 DEF LoginReads, LoginIssues, LoginRefused, elsewhere, TypeOK
  <2>3. QED
    BY <1>7, <2>1, <2>2
    DEF LoginReads, LoginIssues, LoginRefused, elsewhere, TypeOK, counted
<1>8. CASE UNCHANGED qvars
  BY <1>8 DEF TypeOK, qvars
<1>9. QED
  BY <1>1, <1>2, <1>3, <1>4, <1>5, <1>6, <1>7, <1>8 DEF Next

LEMMA CountHolds == Spec => [](TypeOK /\ CountInv)
<1>1. Init => TypeOK /\ CountInv
  BY InitTypes
<1>2. TypeOK /\ CountInv /\ [Next]_qvars => (TypeOK /\ CountInv)'
  BY TypesStep, CountStep
<1>3. QED
  BY <1>1, <1>2, PTL DEF Spec

(* The type invariant; that the counter never passes the number of         *)
(* requests rests on CountInv.                                             *)
THEOREM TypeInvariant == Spec => []TypeOK
BY CountHolds, PTL

(* The counter is the number of jobs the window let in since it was opened *)
(* for the last time.                                                      *)
THEOREM CounterIsRight == Spec => []CounterCountsJobs
<1>1. CountInv => CounterCountsJobs
  BY DEF CountInv
<1>2. QED
  BY <1>1, CountHolds, PTL

-----------------------------------------------------------------------------
(* The limit                                                               *)

LEMMA Multiples ==
  ASSUME NEW a \in Nat, NEW b \in Nat, NEW n \in Nat, a <= b
  PROVE  a * n <= b * n /\ a * n \in Nat /\ a * (n + 1) = a * n + a /\ a * 0 = 0
BY Z3

LEMMA RoomSets ==
  ASSUME TypeOK
  PROVE  /\ Since \subseteq Request /\ Before \subseteq Request
         /\ Cardinality(Since) \in Nat /\ Cardinality(Before) \in Nat
         /\ Cardinality(reopened) \in Nat
         /\ Cardinality(Before \cup Since) = Cardinality(Before) + Cardinality(Since)
<1>1. Since \subseteq Request /\ Before \subseteq Request /\ reopened \subseteq Request
  BY DEF Since, Before, TypeOK
<1>2. /\ IsFiniteSet(Since) /\ IsFiniteSet(Before)
      /\ Cardinality(Since) \in Nat /\ Cardinality(Before) \in Nat
      /\ Cardinality(reopened) \in Nat
  BY <1>1, SomeRequests
<1>3. Cardinality(Before \cap Since) = 0
  <2>1. Before \cap Since = {}
    BY DEF Before, Since
  <2>2. QED
    BY <2>1, FS_EmptySet
<1>4. Cardinality(Before \cup Since) =
        Cardinality(Before) + Cardinality(Since) - Cardinality(Before \cap Since)
  BY <1>2, FS_Union
<1>5. QED
  BY <1>1, <1>2, <1>3, <1>4

LEMMA RoomStep ==
  ASSUME TypeOK, CountInv, TypeOK', RoomInv, [Next]_qvars
  PROVE  RoomInv'
<1>0. /\ inWindow \subseteq Request /\ sub.limit <= allowed
      /\ forgotten \subseteq inWindow /\ inWindow \subseteq Admitted
      /\ reopened \subseteq Admitted /\ Admitted \subseteq Request
  BY DEF TypeOK, RoomInv, CountInv, Admitted
<1>a. /\ Since \subseteq Request /\ Before \subseteq Request
      /\ Cardinality(Since) \in Nat /\ Cardinality(Before) \in Nat
      /\ Cardinality(reopened) \in Nat /\ allowed \in Nat /\ sub.used \in Nat
      /\ Cardinality(Since) <= allowed
      /\ Cardinality(Before) <= allowed * Cardinality(reopened)
  BY RoomSets, SubTypes DEF RoomInv
<1>b. /\ Since' \subseteq Request /\ Before' \subseteq Request
      /\ Cardinality(Since') \in Nat /\ Cardinality(Before') \in Nat
      /\ Cardinality(reopened') \in Nat /\ allowed' \in Nat
  <2>1. Since' \subseteq Request /\ Before' \subseteq Request /\ reopened' \subseteq Request
    BY DEF TypeOK, Since, Before
  <2>2. allowed' \in Nat
    BY Quotas DEF TypeOK
  <2>3. QED
    BY <2>1, <2>2, SomeRequests
<1>c. allowed' \in Nat \ {0}
  BY Quotas DEF TypeOK
<1>1. ASSUME NEW r \in Request, Increment(r)
      PROVE  RoomInv'
  <2>1. sub'.limit <= allowed' /\ UNCHANGED <<allowed, reopened>>
    BY <1>0, <1>1, AdmitSteps
  <2>2. \A q \in Request \ overtaken' : pc'[q] # "increment"
    BY <1>1, AdmitSteps DEF TypeOK
  <2>3. Cardinality(Before') <= allowed * Cardinality(reopened)
    <3>1. Before' \subseteq Before
      BY <1>1, AdmitSteps DEF Before
    <3>2. Cardinality(Before') <= Cardinality(Before)
      BY <3>1, <1>a, SomeRequests
    <3>4. PICK n \in Nat : n = allowed * Cardinality(reopened)
      BY <1>a, Multiples
    <3>5. QED
      BY <1>a, <1>b, <3>2, <3>4
  <2>4. Cardinality(Since') <= allowed
    <3>1. CASE r \in overtaken
      <4>1. Since' \subseteq Since
        BY <1>1, <3>1, AdmitSteps DEF Since
      <4>2. Cardinality(Since') <= Cardinality(Since)
        BY <4>1, <1>a, SomeRequests
      <4>3. QED
        BY <4>2, <1>a, <1>b, SubTypes
    <3>2. CASE r \notin overtaken
      <4>1. Cardinality(inWindow \ forgotten) = sub.used /\ sub.used < allowed
        BY <1>1, <3>2, AdmitSteps DEF CountInv, CounterCountsJobs, RoomInv
      <4>2. Cardinality((inWindow \ forgotten) \cup {r}) <= sub.used + 1
        BY <1>0, <4>1, SomeRequests, SubTypes
      <4>3. /\ (inWindow \ forgotten) \cup {r} \subseteq Request
            /\ Since' \subseteq (inWindow \ forgotten) \cup {r}
        BY <1>0, <1>1, AdmitSteps DEF Since
      <4>4. /\ Cardinality(Since') <= Cardinality((inWindow \ forgotten) \cup {r})
            /\ Cardinality((inWindow \ forgotten) \cup {r}) \in Nat
        BY <4>3, SomeRequests
      <4>5. QED
        BY <4>1, <4>2, <4>4, <1>a, <1>b, SubTypes
    <3>3. QED
      BY <3>1, <3>2
  <2>5. QED
    BY <2>1, <2>2, <2>3, <2>4 DEF RoomInv
<1>2. ASSUME NEW r \in Request, Reset(r)
      PROVE  RoomInv'
  <2>1. sub'.limit <= allowed'
    BY <1>0, <1>2, AdmitSteps, SubTypes
  <2>2. \A q \in Request \ overtaken' : pc'[q] # "increment"
    BY <1>2, AdmitSteps DEF TypeOK
  <2>3. Cardinality(Since') <= allowed'
    <3>1. Since' \subseteq {r} /\ {r} \subseteq Request
      BY <1>2, AdmitSteps DEF Since
    <3>2. Cardinality(Since') <= Cardinality({r}) /\ Cardinality({r}) = 1
      BY <3>1, SomeRequests, FS_Singleton
    <3>3. QED
      BY <3>2, <1>a, <1>b, <1>c
  <2>4. Cardinality(Before') <= allowed' * Cardinality(reopened')
    <3>1. CASE sub.old
      <4>1. Before' = {} /\ reopened' = {}
        BY <1>2, <3>1, AdmitSteps DEF Before
      <4>2. allowed' \in Nat /\ allowed' * 0 = 0
        <5>1. \A n \in Nat : n * 0 = 0
          BY Z3
        <5>2. QED
          BY <1>c, <5>1
      <4>3. QED
        BY <4>1, <4>2, FS_EmptySet
    <3>2. CASE ~sub.old
      <4>1. /\ Before' \subseteq Before \cup Since /\ reopened' = reopened \cup {r}
            /\ r \notin reopened /\ UNCHANGED allowed
        BY <1>0, <1>2, <3>2, AdmitSteps DEF Before, Since
      <4>2. Cardinality(Before \cup Since) = Cardinality(Before) + Cardinality(Since)
        BY RoomSets
      <4>3. Cardinality(Before') <= Cardinality(Before) + Cardinality(Since)
        <5>1. Before \cup Since \subseteq Request
          BY <1>a, <1>b
        <5>2. /\ Cardinality(Before') <= Cardinality(Before \cup Since)
              /\ Cardinality(Before \cup Since) \in Nat
          BY <4>1, <5>1, SomeRequests
        <5>3. QED
          BY <4>2, <5>2, <1>a, <1>b
      <4>4. Cardinality(reopened') = Cardinality(reopened) + 1
        BY <1>0, <4>1, SomeRequests
      <4>5. /\ allowed * (Cardinality(reopened) + 1) = allowed * Cardinality(reopened) + allowed
            /\ allowed * Cardinality(reopened) \in Nat
        BY <1>a, <1>b, Multiples
      <4>6. PICK n \in Nat : n = allowed * Cardinality(reopened)
        BY <4>5
      <4>7. Cardinality(Before) <= n /\ Cardinality(Since) <= allowed
        BY <4>6, <1>a, <1>b
      <4>8. Cardinality(Before') <= n + allowed
        BY <4>3, <4>7, <1>a, <1>b, SubTypes
      <4>9. QED
        BY <4>1, <4>4, <4>5, <4>6, <4>8
    <3>3. QED
      BY <3>1, <3>2
  <2>5. QED
    BY <2>1, <2>2, <2>3, <2>4 DEF RoomInv
<1>3. ASSUME NEW r \in Request, Read(r)
      PROVE  RoomInv'
  <2>1. UNCHANGED <<sub, counted>>
    BY <1>3 DEF Read, Decides
  <2>2. ASSUME pc'[r] = "increment"
        PROVE  sub.used < allowed
    BY <1>0, <1>3, <2>2, SubTypes DEF Read, Decides, TypeOK
  <2>3. \A q \in Request \ {r} : pc'[q] = pc[q]
    BY <1>3 DEF Read, Decides, TypeOK
  <2>4. QED
    BY <2>1, <2>2, <2>3 DEF RoomInv, counted, Since, Before
<1>4. ASSUME sub'.used = sub.used,
             UNCHANGED <<pc, inWindow, overtaken, reopened, forgotten>>,
             sub'.limit <= allowed', allowed <= allowed'
      PROVE  RoomInv'
  <2>1. UNCHANGED <<Since, Before>>
    BY <1>4 DEF Since, Before
  <2>2. /\ allowed * Cardinality(reopened) <= allowed' * Cardinality(reopened)
        /\ allowed * Cardinality(reopened) \in Nat
        /\ allowed' * Cardinality(reopened) \in Nat
    BY <1>4, <1>a, <1>b, Multiples
  <2>3. Cardinality(Before) <= allowed' * Cardinality(reopened)
    <3>1. PICK m \in Nat, n \in Nat : /\ m = allowed * Cardinality(reopened)
                                      /\ n = allowed' * Cardinality(reopened)
      BY <2>2
    <3>2. Cardinality(Before) <= m /\ m <= n
      BY <2>2, <3>1, <1>a, <1>b
    <3>3. QED
      BY <3>1, <3>2, <1>a, <1>b
  <2>4. Cardinality(Since) <= allowed' /\ \A r \in Request \ overtaken :
          pc[r] = "increment" => sub.used < allowed'
    BY <1>4, <1>a, <1>b, <1>c, SubTypes DEF RoomInv
  <2>5. QED
    BY <1>4, <2>1, <2>3, <2>4 DEF RoomInv
<1>5. ASSUME UNCHANGED <<pc, counted>>, sub'.used = sub.used, sub'.limit = sub.limit
      PROVE  RoomInv'
  BY <1>0, <1>4, <1>5, SubTypes DEF counted
<1>6. CASE WindowLapses
  BY <1>5, <1>6, SubTypes DEF WindowLapses
<1>7. ASSUME NEW b \in Billing, SetSubscription(b)
      PROVE  RoomInv'
  <2>1. sub'.used = sub.used /\ sub'.limit = quotaOf(change[b])
    BY <1>7, SubTypes DEF SetSubscription, WritesRow
  <2>2. sub'.limit <= allowed' /\ allowed <= allowed'
    BY <1>7, <2>1, Quotas, SubTypes DEF SetSubscription, WritesRow
  <2>3. QED
    BY <1>4, <1>7, <2>1, <2>2, CountersStay
<1>8. ASSUME NEW b \in Billing, (\E tier \in Tier : SetUserTier(b, tier)) \/ ChangeThrows(b)
      PROVE  RoomInv'
  BY <1>5, <1>8 DEF SetUserTier, ChangeThrows
<1>9. CASE LoginReads \/ LoginIssues \/ LoginRefused \/ UNCHANGED qvars
  BY <1>5, <1>9 DEF LoginReads, LoginIssues, LoginRefused, elsewhere, qvars, counted
<1>10. QED
  BY <1>1, <1>2, <1>3, <1>6, <1>7, <1>8, <1>9 DEF Next

(* A window lets in no more than its limit, once more for each request     *)
(* that opened it again, and those that raced.                             *)
THEOREM LimitHolds == Spec => []QuotaHolds
<1>1. Init => RoomInv
  BY InitTypes
<1>2. TypeOK /\ CountInv /\ TypeOK' /\ RoomInv /\ [Next]_qvars => RoomInv'
  BY RoomStep
<1>3. TypeOK /\ RoomInv => QuotaHolds
  <2>1. SUFFICES ASSUME TypeOK, RoomInv PROVE QuotaHolds
    OBVIOUS
  <2>2. /\ Since \subseteq Request /\ Before \subseteq Request
        /\ Cardinality(Since) \in Nat /\ Cardinality(Before) \in Nat
        /\ Cardinality(reopened) \in Nat /\ allowed \in Nat
        /\ Cardinality(Before \cup Since) = Cardinality(Before) + Cardinality(Since)
    BY <2>1, RoomSets, SubTypes
  <2>3. /\ inWindow \ overtaken \subseteq Before \cup Since
        /\ Before \cup Since \subseteq Request
    BY <2>2 DEF Before, Since
  <2>4. /\ Cardinality(inWindow \ overtaken) <= Cardinality(Before \cup Since)
        /\ Cardinality(inWindow \ overtaken) \in Nat
    BY <2>3, SomeRequests
  <2>6. /\ allowed * (Cardinality(reopened) + 1) = allowed * Cardinality(reopened) + allowed
        /\ allowed * Cardinality(reopened) \in Nat
        /\ 1 + Cardinality(reopened) = Cardinality(reopened) + 1
    BY <2>2, Multiples
  <2>7. PICK n \in Nat : n = allowed * Cardinality(reopened)
    BY <2>6
  <2>8. Cardinality(Before) <= n /\ Cardinality(Since) <= allowed
    BY <2>1, <2>7 DEF RoomInv
  <2>9. Cardinality(inWindow \ overtaken) <= n + allowed
    BY <2>2, <2>4, <2>8
  <2>10. QED
    BY <2>6, <2>7, <2>9 DEF QuotaHolds
<1>4. QED
  BY <1>1, <1>2, <1>3, CountHolds, PTL DEF Spec

-----------------------------------------------------------------------------
(* The tiers                                                               *)

LEMMA TierStep ==
  ASSUME TypeOK, TierInv, [Next]_qvars
  PROVE  TierInv'
<1>1. ASSUME NEW b \in Billing, NEW tier \in Tier, SetUserTier(b, tier)
      PROVE  TierInv'
  <2>1. UnderWay' = UnderWay \cup {b}
    BY <1>1 DEF SetUserTier, UnderWay, TypeOK
  <2>2. ASSUME NEW d \in alone'
        PROVE  UnderWay' = {d} /\ change'[d] = userTier'
    BY <1>1, <2>1, <2>2 DEF SetUserTier, TypeOK
  <2>3. QED
    BY <1>1, <2>1, <2>2 DEF SetUserTier, TierInv, TiersAgree, tokens
<1>2. ASSUME NEW b \in Billing, SetSubscription(b) \/ ChangeThrows(b)
      PROVE  TierInv'
  <2>1. /\ UnderWay' = UnderWay \ {b} /\ b \in UnderWay
        /\ \A d \in UnderWay' : change'[d] = change[d]
        /\ UNCHANGED <<userTier, alone, tokens>>
    BY <1>2
    DEF SetSubscription, WritesRow, ChangeThrows, UnderWay, TypeOK, Tier
  <2>2. \A d \in alone' : d \in UnderWay' => UnderWay' = {d} /\ change'[d] = userTier'
    BY <2>1 DEF TierInv
  <2>3. TiersAgree'
    <3>1. CASE b \in alone /\ SetSubscription(b)
      <4>1. change[b] = userTier
        BY <2>1, <3>1 DEF TierInv
      <4>2. sub'.tier = userTier /\ sub'.limit = quotaOf(userTier)
        BY <3>1, <4>1, SubTypes DEF SetSubscription, WritesRow
      <4>3. QED
        BY <2>1, <4>2 DEF TierInv, TiersAgree, tokens
    <3>2. CASE b \notin alone \/ ChangeThrows(b)
      BY <1>2, <3>2 DEF SetSubscription, WritesRow, ChangeThrows, TiersAgree
    <3>3. QED
      BY <1>2, <3>1, <3>2
  <2>4. QED
    BY <2>1, <2>2, <2>3 DEF TierInv, tokens
<1>3. CASE LoginReads \/ LoginIssues \/ LoginRefused
  BY <1>3 DEF LoginReads, LoginIssues, LoginRefused, elsewhere, TierInv, TiersAgree, UnderWay
<1>4. ASSUME sub'.tier = sub.tier, sub'.limit = sub.limit, UNCHANGED tiers
      PROVE  TierInv'
  BY <1>4 DEF tiers, tokens, TierInv, TiersAgree, UnderWay
<1>5. ASSUME NEW r \in Request, Read(r)
      PROVE  TierInv'
  BY <1>4, <1>5 DEF Read, Decides
<1>6. ASSUME NEW r \in Request, Reset(r) \/ Increment(r)
      PROVE  TierInv'
  BY <1>4, <1>6, AdmitSteps
<1>7. CASE WindowLapses \/ UNCHANGED qvars
  BY <1>4, <1>7, SubTypes DEF WindowLapses, qvars, tiers, tokens
<1>8. QED
  BY <1>1, <1>2, <1>3, <1>5, <1>6, <1>7 DEF Next

(* User row, subscription row and token agree on the tier.                 *)
THEOREM TiersHold == Spec => []TiersAgree
<1>1. Init => TierInv
  BY InitTypes
<1>2. TypeOK /\ TierInv /\ [Next]_qvars => TierInv'
  BY TierStep
<1>3. TierInv => TiersAgree
  BY DEF TierInv
<1>4. QED
  BY <1>1, <1>2, <1>3, TypeInvariant, PTL DEF Spec

=============================================================================
