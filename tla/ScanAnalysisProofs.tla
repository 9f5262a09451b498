-------------------------- MODULE ScanAnalysisProofs --------------------------
(***************************************************************************)
(* The properties of ScanAnalysis, for any number of workers, scans, days, *)
(* rules and failures of Redis.                                            *)
(*                                                                         *)
(* BudgetHolds is not inductive: a request is asked long after its check.  *)
(* The strengthening follows it through the counters:                      *)
(*                                                                         *)
(*   - a counter and the increments that are due on it stay within the     *)
(*     limit and one for each worker but the one whose check let its       *)
(*     request pass (Counted);                                             *)
(*   - the requests asked, and those whose increment is made or was        *)
(*     excused by a failure, stay within the counter and the failures      *)
(*     (Paid).                                                             *)
(*                                                                         *)
(* BlockingIsStable follows from what every published report satisfies by  *)
(* itself (Grounded); ScansReport needs that the table of company rules    *)
(* can be evaluated while no update spoilt it (Evaluable), and counts the  *)
(* attempts of a scan without a report against those that Semgrep cost it  *)
(* (Attempts).                                                             *)
(***************************************************************************)
EXTENDS ScanAnalysis, FiniteSetTheorems, TLAPS


\* The workers that have still to increment k, and those that need not any more.
Owing(k) == {w \in Workers : k \in due[w]}
Settled(k) == {w \in Workers : k \in held[w] /\ k \notin due[w]}

BudgetTypes ==
    /\ config \in Configurations /\ today \in Days
    /\ count \in [Keys -> Nat] /\ asked \in [Keys -> Nat] /\ faults \in Nat
    /\ held \in [Workers -> SUBSET Keys] /\ due \in [Workers -> SUBSET Keys]

\* Where a worker can hold the keys of a check.
Positions ==
    /\ DOMAIN work = Workers
    /\ \A w \in Workers :
          /\ due[w] \subseteq held[w]
          /\ work[w].at # "count" => due[w] = {}
          /\ work[w].at \notin {"count", "ask"} => held[w] = {}

Counted ==
    \A k \in Keys : Limit(k) > 0 =>
        count[k] + Cardinality(Owing(k)) <= Limit(k) + (Cardinality(Workers) - 1)

Paid == \A k \in Keys : asked[k] + Cardinality(Settled(k)) <= count[k] + faults

BudgetInv == BudgetTypes /\ Positions /\ Counted /\ Paid

-----------------------------------------------------------------------------
(* Workers, limits and keys.                                               *)

LEMMA Sizes ==
    ASSUME NEW S \in SUBSET Workers
    PROVE  Cardinality(S) \in Nat /\ Cardinality(S) <= Cardinality(Workers)
BY WorkersAssumption, FS_Subset, FS_CardinalityType

LEMMA Fewer ==
    ASSUME NEW S \in SUBSET Workers, NEW T \in SUBSET S
    PROVE  Cardinality(T) <= Cardinality(S)
BY WorkersAssumption, FS_Subset

LEMMA OneMore ==
    ASSUME NEW S \in SUBSET Workers, NEW w \in Workers, NEW T \in SUBSET (S \cup {w})
    PROVE  Cardinality(T) <= Cardinality(S) + 1
<1>1. IsFiniteSet(S) /\ Cardinality(S) \in Nat
  BY WorkersAssumption, FS_Subset, FS_CardinalityType
<1>2. IsFiniteSet(S \cup {w}) /\ Cardinality(S \cup {w}) <= Cardinality(S) + 1
  BY <1>1, FS_AddElement
<1>3. IsFiniteSet(T) /\ Cardinality(T) <= Cardinality(S \cup {w})
  BY <1>2, FS_Subset
<1>4. QED
  BY <1>1, <1>2, <1>3, FS_CardinalityType

LEMMA OneLess ==
    ASSUME NEW S \in SUBSET Workers, NEW w \in S, NEW T \in SUBSET (S \ {w})
    PROVE  Cardinality(T) + 1 <= Cardinality(S)
<1>1. IsFiniteSet(S) /\ Cardinality(S) \in Nat
  BY WorkersAssumption, FS_Subset, FS_CardinalityType
<1>2. IsFiniteSet(S \ {w}) /\ Cardinality(S \ {w}) = Cardinality(S) - 1
  BY <1>1, FS_RemoveElement
<1>3. IsFiniteSet(T) /\ Cardinality(T) <= Cardinality(S \ {w})
  BY <1>2, FS_Subset
<1>4. QED
  BY <1>1, <1>2, <1>3, FS_CardinalityType

LEMMA SomeWorker == Cardinality(Workers) \in Nat /\ Cardinality(Workers) >= 1
<1>1. Cardinality(Workers) \in Nat
  BY WorkersAssumption, FS_CardinalityType
<1>2. Cardinality(Workers) # 0
  BY WorkersAssumption, FS_EmptySet
<1>3. QED
  BY <1>1, <1>2

LEMMA Limits == config \in Configurations => \A k : Limit(k) \in Nat
BY LimitsAssumption DEF Limit

LEMMA SameLimits == config' = config => \A k : Limit(k)' = Limit(k)
BY DEF Limit

LEMMA KeysOfDay == ASSUME NEW d \in Days PROVE KeysOf(d) \subseteq Keys
BY DEF KeysOf, Keys

-----------------------------------------------------------------------------
(* The invariant.                                                          *)

LEMMA BudgetInit == Init => BudgetInv
<1> SUFFICES ASSUME Init PROVE BudgetInv
  OBVIOUS
<1>1. BudgetTypes
  BY CalendarAssumption DEF Init, BudgetTypes
<1>2. Positions
  BY DEF Init, Positions, Idle
<1>3. \A k \in Keys : Owing(k) = {} /\ Settled(k) = {}
  BY DEF Init, Owing, Settled
<1>4. Counted
  <2> SUFFICES ASSUME NEW k \in Keys, Limit(k) > 0
               PROVE  count[k] + Cardinality(Owing(k)) <= Limit(k) + (Cardinality(Workers) - 1)
    BY DEF Counted
  <2>1. count[k] = 0 /\ Cardinality(Owing(k)) = 0
    BY <1>3, FS_EmptySet DEF Init
  <2>2. QED
    BY <2>1, <1>1, Limits, SomeWorker DEF BudgetTypes
<1>5. Paid
  <2> SUFFICES ASSUME NEW k \in Keys
               PROVE  asked[k] + Cardinality(Settled(k)) <= count[k] + faults
    BY DEF Paid
  <2>1. asked[k] = 0 /\ count[k] = 0 /\ faults = 0 /\ Cardinality(Settled(k)) = 0
    BY <1>3, FS_EmptySet DEF Init
  <2>2. QED
    BY <2>1
<1>6. QED
  BY <1>1, <1>2, <1>4, <1>5 DEF BudgetInv

\* A step that leaves the budget alone and moves a worker only between places
\* where it holds nothing.
LEMMA Elsewhere ==
    ASSUME BudgetInv, config' = config, today' \in Days,
           UNCHANGED <<count, asked, faults, held, due>>,
           DOMAIN work' = Workers,
           \A w \in Workers : work'[w] = work[w] \/ held[w] = {}
    PROVE  BudgetInv'
<1>1. BudgetTypes'
  BY DEF BudgetInv, BudgetTypes
<1>2. Positions'
  BY DEF BudgetInv, BudgetTypes, Positions
<1>3. \A k : Owing(k)' = Owing(k) /\ Settled(k)' = Settled(k)
  BY DEF Owing, Settled
<1>4. Counted' /\ Paid'
  BY <1>3, SameLimits DEF BudgetInv, Counted, Paid
<1>5. QED
  BY <1>1, <1>2, <1>4 DEF BudgetInv

\* Moving one worker.
LEMMA Moved ==
    ASSUME Positions, NEW w \in Workers, NEW next, Goto(w, next)
    PROVE  /\ DOMAIN work' = Workers
           /\ work'[w] = next
           /\ \A v \in Workers \ {w} : work'[v] = work[v]
BY DEF Positions, Goto

-----------------------------------------------------------------------------
(* The steps of a worker on the budget.                                    *)

LEMMA CheckKeepsBudget ==
    ASSUME BudgetInv, NEW w \in Workers, CheckBudget(w)
    PROVE  BudgetInv'
<1> USE DEF BudgetInv
<1>1. held[w] = {} /\ due[w] = {}
  BY DEF CheckBudget, Reviewable, Positions
<1>2. /\ DOMAIN work' = Workers /\ work'[w].at = "count"
      /\ \A v \in Workers \ {w} : work'[v] = work[v]
  BY Moved DEF CheckBudget, Now
<1>3. BudgetTypes'
  BY KeysOfDay DEF CheckBudget, BudgetTypes
<1>4. Positions'
  BY <1>2 DEF CheckBudget, BudgetTypes, Positions
<1>5. Counted'
  <2> SUFFICES ASSUME NEW k \in Keys, Limit(k)' > 0
               PROVE  (count[k] + Cardinality(Owing(k)) <= Limit(k) + (Cardinality(Workers) - 1))'
    BY DEF Counted
  <2>1. Limit(k)' = Limit(k) /\ Limit(k) \in Nat /\ count'[k] = count[k] /\ count[k] \in Nat
    BY SameLimits, Limits DEF CheckBudget, BudgetTypes
  <2>2. CASE k \in KeysOf(today)
    <3>1. count[k] < Limit(k)
      BY <2>1, <2>2 DEF CheckBudget, SpentToday, Exhausted
    <3>2. Cardinality(Owing(k)') \in Nat /\ Cardinality(Owing(k)') <= Cardinality(Workers)
      BY Sizes DEF Owing
    <3>3. QED
      BY <2>1, <3>1, <3>2, SomeWorker
  <2>3. CASE k \notin KeysOf(today)
    <3>1. Owing(k)' = Owing(k)
      BY <1>1, <2>3 DEF CheckBudget, BudgetTypes, Owing
    <3>2. QED
      BY <2>1, <3>1 DEF Counted
  <2>4. QED
    BY <2>2, <2>3
<1>6. \A k : Settled(k)' = Settled(k)
  BY <1>1 DEF CheckBudget, BudgetTypes, Settled
<1>7. Paid'
  BY <1>6 DEF CheckBudget, Paid
<1>8. QED
  BY <1>3, <1>4, <1>5, <1>7

\* One increment: w owes it no more, and it pays for the request of w.
LEMMA CountKeepsBudget ==
    ASSUME BudgetInv, NEW w \in Workers, Count(w)
    PROVE  BudgetInv'
<1> USE DEF BudgetInv
<1>1. PICK one \in NextDue(w) :
         /\ count' = [count EXCEPT ![one] = @ + 1]
         /\ due' = [due EXCEPT ![w] = @ \ {one}]
         /\ Goto(w, Now(w, IF due[w] = {one} THEN "ask" ELSE "count"))
  BY DEF Count
<1>2. one \in due[w] /\ one \in Keys /\ due[w] \subseteq held[w]
  BY DEF NextDue, BudgetTypes, Positions
<1>3. UNCHANGED <<config, today, asked, faults, held>>
  BY DEF Count
<1>4. /\ DOMAIN work' = Workers
      /\ work'[w].at = (IF due[w] = {one} THEN "ask" ELSE "count")
      /\ \A v \in Workers \ {w} : work'[v] = work[v]
  BY <1>1, Moved DEF Now
<1>5. BudgetTypes'
  BY <1>1, <1>2, <1>3 DEF BudgetTypes
<1>6. Positions'
  BY <1>1, <1>2, <1>3, <1>4 DEF BudgetTypes, Positions
<1>7. ASSUME NEW k \in Keys
      PROVE  /\ count[k] \in Nat /\ asked[k] \in Nat /\ Limit(k)' = Limit(k)
             /\ Cardinality(Owing(k)) \in Nat /\ Cardinality(Owing(k)') \in Nat
             /\ Cardinality(Settled(k)) \in Nat /\ Cardinality(Settled(k)') \in Nat
             /\ k = one => /\ count'[k] = count[k] + 1
                           /\ Cardinality(Owing(k)') + 1 <= Cardinality(Owing(k))
                           /\ Cardinality(Settled(k)') <= Cardinality(Settled(k)) + 1
             /\ k # one => /\ count'[k] = count[k]
                           /\ Owing(k)' = Owing(k) /\ Settled(k)' = Settled(k)
  <2>1. count[k] \in Nat /\ asked[k] \in Nat /\ Limit(k)' = Limit(k)
    BY <1>3, SameLimits DEF BudgetTypes
  <2>2. /\ Cardinality(Owing(k)) \in Nat /\ Cardinality(Owing(k)') \in Nat
        /\ Cardinality(Settled(k)) \in Nat /\ Cardinality(Settled(k)') \in Nat
    BY Sizes DEF Owing, Settled
  <2>3. ASSUME k = one
        PROVE  /\ count'[k] = count[k] + 1
               /\ Cardinality(Owing(k)') + 1 <= Cardinality(Owing(k))
               /\ Cardinality(Settled(k)') <= Cardinality(Settled(k)) + 1
    <3>1. w \in Owing(k) /\ Owing(k) \in SUBSET Workers /\ Owing(k)' \in SUBSET (Owing(k) \ {w})
      BY <1>1, <1>2, <2>3 DEF BudgetTypes, Owing
    <3>2. Settled(k) \in SUBSET Workers /\ Settled(k)' \in SUBSET (Settled(k) \cup {w})
      BY <1>1, <1>3 DEF BudgetTypes, Settled
    <3>3. count'[k] = count[k] + 1
      BY <1>1, <2>3 DEF BudgetTypes
    <3>4. QED
      BY <3>1, <3>2, <3>3, OneLess, OneMore
  <2>4. k # one => count'[k] = count[k] /\ Owing(k)' = Owing(k) /\ Settled(k)' = Settled(k)
    BY <1>1, <1>3 DEF BudgetTypes, Owing, Settled
  <2>5. QED
    BY <2>1, <2>2, <2>3, <2>4
<1>8. Counted'
  BY <1>7, Limits, SomeWorker DEF BudgetTypes, Counted
<1>9. Paid'
  BY <1>3, <1>7 DEF BudgetTypes, Paid
<1>10. QED
  BY <1>5, <1>6, <1>8, <1>9

\* A failure of Redis: it pays for the request of w, which owes nothing more.
LEMMA FaultKeepsBudget ==
    ASSUME BudgetInv, NEW w \in Workers, RedisFails(w),
           NEW made \in SUBSET due[w],
           count' = [k \in Keys |-> IF k \in made THEN count[k] + 1 ELSE count[k]],
           held' \in [Workers -> SUBSET Keys],
           \A v \in Workers \ {w} : held'[v] = held[v]
    PROVE  BudgetInv'
<1> USE DEF BudgetInv
<1>1. /\ DOMAIN work' = Workers /\ work'[w].at = "ask"
      /\ \A v \in Workers \ {w} : work'[v] = work[v]
  <2>1. Positions /\ Goto(w, Now(w, "ask")) /\ Now(w, "ask").at = "ask"
    BY DEF RedisFails, Now
  <2>2. QED
    BY <2>1, Moved
<1>2. BudgetTypes'
  <2>1. count' \in [Keys -> Nat]
    BY DEF BudgetTypes
  <2>2. due' \in [Workers -> SUBSET Keys]
    BY DEF RedisFails, BudgetTypes
  <2>3. faults' \in Nat /\ UNCHANGED <<config, today, asked>>
    BY DEF RedisFails, BudgetTypes
  <2>4. QED
    BY <2>1, <2>2, <2>3 DEF BudgetTypes
<1>3. Positions'
  BY <1>1 DEF RedisFails, BudgetTypes, Positions
<1>4. ASSUME NEW k \in Keys
      PROVE  /\ count[k] \in Nat /\ count'[k] \in Nat /\ asked[k] \in Nat
             /\ Limit(k)' = Limit(k)
             /\ Cardinality(Owing(k)) \in Nat /\ Cardinality(Owing(k)') \in Nat
             /\ Cardinality(Settled(k)) \in Nat /\ Cardinality(Settled(k)') \in Nat
             /\ count'[k] >= count[k]
             /\ count'[k] + Cardinality(Owing(k)') <= count[k] + Cardinality(Owing(k))
             /\ Cardinality(Settled(k)') <= Cardinality(Settled(k)) + 1
  <2>1. count[k] \in Nat /\ asked[k] \in Nat /\ Limit(k)' = Limit(k)
    BY SameLimits DEF RedisFails, BudgetTypes
  <2>2. /\ Cardinality(Owing(k)) \in Nat /\ Cardinality(Owing(k)') \in Nat
        /\ Cardinality(Settled(k)) \in Nat /\ Cardinality(Settled(k)') \in Nat
    BY Sizes DEF Owing, Settled
  <2>3. Owing(k) \in SUBSET Workers /\ Owing(k)' \in SUBSET Owing(k)
    BY DEF RedisFails, BudgetTypes, Owing
  <2>4. k \in made => w \in Owing(k) /\ Owing(k)' \in SUBSET (Owing(k) \ {w})
    BY DEF RedisFails, BudgetTypes, Owing
  <2>5. Settled(k) \in SUBSET Workers /\ Settled(k)' \in SUBSET (Settled(k) \cup {w})
    BY DEF RedisFails, BudgetTypes, Settled
  <2>6. count'[k] = IF k \in made THEN count[k] + 1 ELSE count[k]
    OBVIOUS
  <2>7. count'[k] + Cardinality(Owing(k)') <= count[k] + Cardinality(Owing(k))
    <3>1. CASE k \in made
      BY <2>1, <2>2, <2>3, <2>4, <2>6, <3>1, OneLess
    <3>2. CASE k \notin made
      BY <2>1, <2>2, <2>3, <2>6, <3>2, Fewer
    <3>3. QED
      BY <3>1, <3>2
  <2>8. Cardinality(Settled(k)') <= Cardinality(Settled(k)) + 1
    BY <2>5, OneMore
  <2>9. QED
    BY <2>1, <2>2, <2>6, <2>7, <2>8
<1>5. Counted'
  BY <1>4, Limits, SomeWorker DEF RedisFails, BudgetTypes, Counted
<1>6. Paid'
  BY <1>4 DEF RedisFails, BudgetTypes, Paid
<1>7. QED
  BY <1>2, <1>3, <1>5, <1>6
\* A request is asked: w gives up the keys that let it pass.
LEMMA AskKeepsBudget ==
    ASSUME BudgetInv, NEW w \in Workers, Ask(w)
    PROVE  BudgetInv'
<1> USE DEF BudgetInv
<1>1. due[w] = {} /\ UNCHANGED <<config, today, count, faults, due>>
  BY DEF Ask, Positions
<1>2. PICK review : Goto(w, Reviewed(w, review))
  BY DEF Ask
<1>3. /\ DOMAIN work' = Workers /\ work'[w].at = "company"
      /\ \A v \in Workers \ {w} : work'[v] = work[v]
  <2>1. Positions /\ Goto(w, Reviewed(w, review)) /\ Reviewed(w, review).at = "company"
    BY <1>2 DEF Reviewed
  <2>2. QED
    BY <2>1, Moved
<1>4. BudgetTypes'
  <2>1. asked' \in [Keys -> Nat] /\ held' \in [Workers -> SUBSET Keys]
    BY DEF Ask, BudgetTypes
  <2>2. QED
    BY <1>1, <2>1 DEF BudgetTypes
<1>5. Positions'
  BY <1>1, <1>3 DEF Ask, BudgetTypes, Positions
<1>6. \A k : Owing(k)' = Owing(k)
  BY <1>1 DEF Owing
<1>7. Counted'
  BY <1>1, <1>6, SameLimits DEF Counted
<1>8. Paid'
  <2> SUFFICES ASSUME NEW k \in Keys
               PROVE  (asked[k] + Cardinality(Settled(k)) <= count[k] + faults)'
    BY DEF Paid
  <2>1. /\ asked[k] \in Nat /\ count[k] \in Nat /\ faults \in Nat
        /\ Cardinality(Settled(k)) \in Nat /\ Cardinality(Settled(k)') \in Nat
    BY Sizes DEF BudgetTypes, Settled
  <2>2. asked[k] + Cardinality(Settled(k)) <= count[k] + faults
    BY DEF Paid
  <2>3. CASE k \in held[w]
    <3>1. Settled(k) \in SUBSET Workers /\ w \in Settled(k)
      BY <1>1, <2>3 DEF Settled
    <3>2. Settled(k)' \in SUBSET (Settled(k) \ {w})
      BY <1>1 DEF Ask, BudgetTypes, Settled
    <3>3. asked'[k] = asked[k] + 1
      BY <2>3 DEF Ask
    <3>4. Cardinality(Settled(k)') + 1 <= Cardinality(Settled(k))
      BY <3>1, <3>2, OneLess
    <3>5. QED
      BY <1>1, <2>1, <2>2, <3>3, <3>4
  <2>4. CASE k \notin held[w]
    <3>1. Settled(k)' = Settled(k) /\ asked'[k] = asked[k]
      BY <1>1, <2>4 DEF Ask, BudgetTypes, Settled
    <3>2. QED
      BY <1>1, <2>2, <3>1
  <2>5. QED
    BY <2>3, <2>4
<1>9. QED
  BY <1>4, <1>5, <1>7, <1>8

\* A read of the budget that fails: w held nothing, and counts nothing.
LEMMA ReadFaultKeepsBudget ==
    ASSUME BudgetInv, NEW w \in Workers, ReadFails(w)
    PROVE  BudgetInv'
<1>1. RedisFails(w)
  BY DEF ReadFails
<1>2. count' = [k \in Keys |-> IF k \in {} THEN count[k] + 1 ELSE count[k]]
  BY DEF ReadFails, BudgetInv, BudgetTypes
<1>3. held' \in [Workers -> SUBSET Keys] /\ \A v \in Workers \ {w} : held'[v] = held[v]
  BY KeysOfDay DEF ReadFails, BudgetInv, BudgetTypes
<1>4. {} \in SUBSET due[w]
  OBVIOUS
<1>5. QED
  BY <1>1, <1>2, <1>3, <1>4, FaultKeepsBudget

\* An increment that fails, before it is made or after.
LEMMA CountFaultKeepsBudget ==
    ASSUME BudgetInv, NEW w \in Workers, CountFails(w)
    PROVE  BudgetInv'
<1>1. RedisFails(w) /\ held' = held
  BY DEF CountFails
<1>2. held' \in [Workers -> SUBSET Keys] /\ \A v \in Workers \ {w} : held'[v] = held[v]
  BY <1>1 DEF BudgetInv, BudgetTypes
<1>3. \E made \in SUBSET due[w] :
         count' = [k \in Keys |-> IF k \in made THEN count[k] + 1 ELSE count[k]]
  <2>1. CASE count' = count
    <3>1. count' = [k \in Keys |-> IF k \in {} THEN count[k] + 1 ELSE count[k]]
      BY <2>1 DEF BudgetInv, BudgetTypes
    <3>2. {} \in SUBSET due[w]
      OBVIOUS
    <3>3. QED
      BY <3>1, <3>2
  <2>2. ASSUME NEW one \in NextDue(w), count' = [count EXCEPT ![one] = @ + 1]
        PROVE  \E made \in SUBSET due[w] :
                  count' = [k \in Keys |-> IF k \in made THEN count[k] + 1 ELSE count[k]]
    <3>1. {one} \in SUBSET due[w]
      BY DEF NextDue
    <3>2. count' = [k \in Keys |-> IF k \in {one} THEN count[k] + 1 ELSE count[k]]
      BY <2>2 DEF BudgetInv, BudgetTypes
    <3>3. QED
      BY <3>1, <3>2
  <2>3. QED
    BY <2>1, <2>2 DEF CountFails
<1>4. QED
  BY <1>1, <1>2, <1>3, FaultKeepsBudget

-----------------------------------------------------------------------------
(* The steps that leave the budget alone.                                  *)

LEMMA OthersKeepBudget ==
    ASSUME BudgetInv,
           \/ \E w \in Workers :
                 \/ SkipReview(w) \/ Unlimited(w) \/ RefuseReview(w) \/ CheckCompanyRules(w)
                 \/ RuleRaises(w) \/ Publish(w) \/ \E s \in Scans : Take(w, s)
           \/ \E s \in Scans : NeverStarts(s) \/ \E w \in Workers : SemgrepRaises(w, s)
           \/ CreateCompanyRule \/ UpdateCompanyRule
           \/ CreateArchitectureRule \/ UpdateArchitectureRule
           \/ Midnight
           \/ UNCHANGED vars
    PROVE  BudgetInv'
<1>1. /\ config' = config /\ today' \in Days
      /\ UNCHANGED <<count, asked, faults, held, due>>
  BY DEF BudgetInv, BudgetTypes, vars, budget, SkipReview, Unlimited, RefuseReview,
         CheckCompanyRules, RuleRaises, Publish, Take, SemgrepRaises, NeverStarts, Save, CreateCompanyRule,
         UpdateCompanyRule, CreateArchitectureRule, UpdateArchitectureRule, Midnight
<1>2. CASE \E w \in Workers :
              \/ SkipReview(w) \/ Unlimited(w) \/ RefuseReview(w) \/ CheckCompanyRules(w)
              \/ RuleRaises(w) \/ Publish(w) \/ \E s \in Scans : Take(w, s)
  <2>1. PICK w \in Workers :
            /\ \E next : Goto(w, next)
            /\ work[w].at \in {"idle", "budget", "company", "architecture"}
    BY <1>2 DEF SkipReview, Unlimited, RefuseReview, Reviewable, CheckCompanyRules, RuleRaises,
                Publish, Take
  <2>2. held[w] = {}
    BY <2>1 DEF BudgetInv, Positions
  <2>3. DOMAIN work' = Workers /\ \A v \in Workers \ {w} : work'[v] = work[v]
    BY <2>1, Moved DEF BudgetInv
  <2>4. QED
    BY <1>1, <2>2, <2>3, Elsewhere
<1>3. CASE work' = work
  BY <1>1, <1>3, Elsewhere DEF BudgetInv, Positions
<1>4. QED
  BY <1>2, <1>3 DEF vars, SemgrepRaises, NeverStarts, Save, CreateCompanyRule, UpdateCompanyRule,
         CreateArchitectureRule, UpdateArchitectureRule, Midnight

-----------------------------------------------------------------------------
(* The theorems.                                                           *)

\* Every step of an analysis, of an administrator and of the calendar keeps the
\* account of the requests that were checked, counted and asked (limits.py:41-75).
LEMMA BudgetNext == BudgetInv /\ [Next]_vars => BudgetInv'
<1> SUFFICES ASSUME BudgetInv, [Next]_vars PROVE BudgetInv'
  OBVIOUS
<1>1. ASSUME NEW w \in Workers, Proceed(w) PROVE BudgetInv'
  BY <1>1, CheckKeepsBudget, CountKeepsBudget, ReadFaultKeepsBudget, CountFaultKeepsBudget,
     AskKeepsBudget, OthersKeepBudget DEF Proceed
<1>2. QED
  BY <1>1, OthersKeepBudget DEF Next

\* In every state a day or a month has seen at most its limit of requests to the
\* provider, one more for each other worker and one more for each failure of
\* Redis (limits.py:58-75).
THEOREM BudgetAlwaysHolds == Analysis => []BudgetHolds
<1>1. BudgetInv => BudgetHolds
  <2> SUFFICES ASSUME BudgetInv, NEW k \in Keys, Limit(k) > 0
               PROVE  asked[k] <= Limit(k) + (Cardinality(Workers) - 1) + faults
    BY DEF BudgetHolds
  <2>1. /\ count[k] \in Nat /\ asked[k] \in Nat /\ faults \in Nat /\ Limit(k) \in Nat
        /\ Cardinality(Owing(k)) \in Nat /\ Cardinality(Settled(k)) \in Nat
    BY Sizes, Limits DEF BudgetInv, BudgetTypes, Owing, Settled
  <2>2. /\ count[k] + Cardinality(Owing(k)) <= Limit(k) + (Cardinality(Workers) - 1)
        /\ asked[k] + Cardinality(Settled(k)) <= count[k] + faults
    BY DEF BudgetInv, Counted, Paid
  <2>3. QED
    BY <2>1, <2>2, SomeWorker
<1>2. QED
  BY BudgetInit, BudgetNext, <1>1, PTL DEF Analysis

-----------------------------------------------------------------------------
(* The conclusion.  It is a function of the rules that the report was made with. *)

Blocked(company, architecture, s) ==
    CompanyViolations(company, Files(s)) \cup ArchitectureViolations(architecture, Files(s)) # {}

Grounded ==
    \A r \in reports :
        r.conclusion = "failure" <=> Blocked(r.company, r.architecture, r.scan)

LEMMA ConclusionBlocks ==
    ASSUME NEW company, NEW architecture, NEW findings, NEW reviewed, NEW level
    PROVE  Conclusion(company, architecture, findings, reviewed, level) = "failure"
               <=> company \cup architecture # {}
<1>1. CASE company \cup architecture # {}
  BY <1>1 DEF Conclusion
<1>2. CASE company \cup architecture = {}
  <2>1. Conclusion(company, architecture, findings, reviewed, level) \in {"neutral", "success"}
    BY <1>2 DEF Conclusion
  <2> QED
    BY <1>2, <2>1
<1> QED
  BY <1>1, <1>2

\* A rule that is off violates nothing, so the active rules are all that counts.
LEMMA ActiveTwice ==
    ASSUME NEW R, NEW files
    PROVE  ArchitectureViolations(Active(R), files) = ArchitectureViolations(R, files)
<1>1. Active(Active(R)) = Active(R)
  BY DEF Active
<1> QED
  BY <1>1 DEF ArchitectureViolations

LEMMA PublishGrounded ==
    ASSUME Grounded, NEW w \in Workers, Publish(w)
    PROVE  Grounded'
<1> DEFINE s == work[w].scan
           company == CompanyViolations(work[w].company, Files(s))
           architecture == ArchitectureViolations(rules.architecture, Files(s))
           result == Report(Files(s), Lines[s], work[w].semgrep, work[w].ai, company, architecture)
           new == [scan |-> s, company |-> work[w].company,
                   architecture |-> Active(rules.architecture), conclusion |-> result.conclusion]
<1>1. reports' = reports \cup {new}
  BY DEF Publish
<1>2. result.conclusion = "failure" <=> company \cup architecture # {}
  <2>1. result.conclusion =
           Conclusion(company, architecture,
                      FindingsCount(work[w].semgrep, work[w].ai.findings, company, architecture),
                      work[w].ai.enabled, result.level)
    BY DEF Report
  <2> HIDE DEF company, architecture, result
  <2> QED
    BY <2>1, ConclusionBlocks
<1>3. /\ new.conclusion = result.conclusion /\ new.company = work[w].company /\ new.scan = s
      /\ new.architecture = Active(rules.architecture)
  OBVIOUS
<1>4. Blocked(new.company, new.architecture, new.scan) <=> company \cup architecture # {}
  <2>1. ArchitectureViolations(Active(rules.architecture), Files(s)) = architecture
    BY ActiveTwice
  <2> QED
    BY <2>1 DEF Blocked
<1> HIDE DEF new, result, company, architecture, s
<1>5. ASSUME NEW r \in reports'
      PROVE  r.conclusion = "failure" <=> Blocked(r.company, r.architecture, r.scan)
  <2>1. CASE r = new
    BY <1>2, <1>3, <1>4, <2>1
  <2>2. CASE r \in reports
    BY <2>2 DEF Grounded
  <2> QED
    BY <1>1, <2>1, <2>2
<1> QED
  BY <1>5 DEF Grounded, Blocked, Files

LEMMA GroundedNext == Grounded /\ [Next]_vars => Grounded'
<1> SUFFICES ASSUME Grounded, [Next]_vars PROVE Grounded'
  OBVIOUS
<1>1. CASE UNCHANGED reports
  BY <1>1 DEF Grounded, Blocked, Files
<1>2. UNCHANGED reports \/ \E w \in Workers : Publish(w)
  BY DEF Next, Proceed, vars, Take, SemgrepRaises, NeverStarts, SkipReview, Unlimited, RefuseReview, CheckBudget,
         ReadFails, RedisFails, Count, CountFails, Ask, CheckCompanyRules, RuleRaises,
         CreateCompanyRule, UpdateCompanyRule, CreateArchitectureRule, UpdateArchitectureRule,
         Save, Midnight
<1> QED
  BY <1>1, <1>2, PublishGrounded

\* A merge is blocked by the rules that the report was made with and by nothing else:
\* conclusion_for_report looks at the two lists of violations before anything else.
THEOREM BlockingAlwaysStable == Analysis => []BlockingIsStable
<1>1. Init => Grounded
  BY DEF Init, Grounded
<1>2. Grounded => BlockingIsStable
  BY DEF Grounded, BlockingIsStable
<1> QED
  BY <1>1, <1>2, GroundedNext, PTL DEF Analysis

-----------------------------------------------------------------------------
(* Every scan reports, unless some update left a rule that does not compile *)
(* or Semgrep raised at each of its attempts.                               *)

JobRecord ==
    [state : {"waiting", "running", "completed", "dead", "lost"}, tries : Nat, raised : Nat]

JobTypes == job \in [Scans -> JobRecord]

RuleTypes == DOMAIN rules = {"company", "architecture"} /\ rules.company \subseteq CompanyRule

\* The company rules can be evaluated, as long as no update spoilt one.
Evaluable == ~spoilt => \A r \in rules.company : r.kind = "regex" => r.pattern # Unclosed

Reported(s) == \E r \in reports : r.scan = s

\* A scan without a report has lost each attempt that is over to Semgrep.
LostToSemgrep(j) ==
    /\ j.state # "completed"
    /\ j.state \in {"waiting", "dead"} => j.raised = j.tries
    /\ j.state = "dead" => j.tries >= MaxTries
Attempts == ~spoilt => \A s \in Scans : Reported(s) \/ LostToSemgrep(job[s])

ReportInv == JobTypes /\ RuleTypes /\ spoilt \in BOOLEAN /\ Evaluable /\ Attempts

LEMMA ReportInit == Init => ReportInv
<1> SUFFICES ASSUME Init PROVE ReportInv
  OBVIOUS
<1>1. JobTypes
  BY DEF Init, JobTypes, JobRecord
<1>2. RuleTypes
  BY RulesAssumption DEF Init, RuleTypes, CompanyRule
<1>3. spoilt \in BOOLEAN /\ Evaluable
  BY RulesAssumption DEF Init, Evaluable
<1>4. Attempts
  BY DEF Init, Attempts, LostToSemgrep
<1> QED
  BY <1>1, <1>2, <1>3, <1>4 DEF ReportInv

\* A step that leaves jobs and reports to themselves.
LEMMA RulesKeepReports ==
    ASSUME ReportInv, UNCHANGED <<job, reports>>, RuleTypes', spoilt' \in BOOLEAN, Evaluable',
           spoilt => spoilt'
    PROVE  ReportInv'
<1>1. JobTypes'
  BY DEF ReportInv, JobTypes
<1>2. Attempts'
  BY DEF ReportInv, Attempts, Reported
<1> QED
  BY <1>1, <1>2 DEF ReportInv

LEMMA CreateCompanyRuleReports == ReportInv /\ CreateCompanyRule => ReportInv'
<1> SUFFICES ASSUME ReportInv, CreateCompanyRule PROVE ReportInv'
  OBVIOUS
<1>1. PICK kind \in RuleKinds, p \in Patterns :
         /\ kind = "regex" => Compiles(p)
         /\ Save([rules EXCEPT !.company =
                    @ \cup {[kind |-> kind, pattern |-> p, severity |-> "medium", active |-> TRUE]}])
  BY DEF CreateCompanyRule
<1> DEFINE new == [kind |-> kind, pattern |-> p, severity |-> "medium", active |-> TRUE]
<1>2. UNCHANGED <<job, reports, spoilt>> /\ rules' = [rules EXCEPT !.company = @ \cup {new}]
  BY <1>1 DEF CreateCompanyRule, Save
<1>3. new \in CompanyRule
  <2>1. p \in STRING
    BY RulesAssumption
  <2> QED
    BY <2>1 DEF CompanyRule, Severities
<1>4. new.kind = "regex" => new.pattern # Unclosed
  BY <1>1 DEF Compiles
<1> HIDE DEF new
<1>5. rules'.company = rules.company \cup {new} /\ DOMAIN rules' = DOMAIN rules
  BY <1>2 DEF ReportInv, RuleTypes
<1>6. RuleTypes'
  BY <1>3, <1>5 DEF ReportInv, RuleTypes
<1>7. Evaluable'
  BY <1>2, <1>4, <1>5 DEF ReportInv, Evaluable
<1> QED
  BY <1>2, <1>6, <1>7, RulesKeepReports DEF ReportInv

\* Unlike the creation, the update lets a pattern in that does not compile: spoilt says so.
LEMMA UpdateCompanyRuleReports == ReportInv /\ UpdateCompanyRule => ReportInv'
<1> SUFFICES ASSUME ReportInv, UpdateCompanyRule PROVE ReportInv'
  OBVIOUS
<1>1. PICK r \in rules.company, p \in Patterns :
         /\ Save([rules EXCEPT !.company = (@ \ {r}) \cup {[r EXCEPT !.pattern = p]}])
         /\ spoilt' = (spoilt \/ (r.kind = "regex" /\ ~Compiles(p)))
  BY DEF UpdateCompanyRule
<1> DEFINE new == [r EXCEPT !.pattern = p]
<1>2. UNCHANGED <<job, reports>> /\ rules' = [rules EXCEPT !.company = (@ \ {r}) \cup {new}]
  BY <1>1 DEF Save
<1>3. r \in CompanyRule
  BY DEF ReportInv, RuleTypes
<1>4. new \in CompanyRule /\ new.kind = r.kind /\ new.pattern = p
  BY <1>3, RulesAssumption DEF CompanyRule
<1> HIDE DEF new
<1>5. rules'.company = (rules.company \ {r}) \cup {new} /\ DOMAIN rules' = DOMAIN rules
  BY <1>2 DEF ReportInv, RuleTypes
<1>6. RuleTypes'
  BY <1>4, <1>5 DEF ReportInv, RuleTypes
<1>7. spoilt' \in BOOLEAN /\ (spoilt => spoilt')
  BY <1>1 DEF ReportInv
<1>8. ~spoilt' => ~spoilt /\ (new.kind = "regex" => new.pattern # Unclosed)
  BY <1>1, <1>4 DEF Compiles, ReportInv
<1>9. Evaluable'
  BY <1>5, <1>8 DEF ReportInv, Evaluable
<1> QED
  BY <1>2, <1>6, <1>7, <1>9, RulesKeepReports

LEMMA ArchitectureRulesReport ==
    ASSUME ReportInv, CreateArchitectureRule \/ UpdateArchitectureRule
    PROVE  ReportInv'
<1>1. PICK table : Save([rules EXCEPT !.architecture = table])
  BY DEF CreateArchitectureRule, UpdateArchitectureRule
<1>2. UNCHANGED <<job, reports, spoilt>> /\ rules' = [rules EXCEPT !.architecture = table]
  BY <1>1 DEF CreateArchitectureRule, UpdateArchitectureRule, Save
<1>3. rules'.company = rules.company /\ DOMAIN rules' = DOMAIN rules
  BY <1>2 DEF ReportInv, RuleTypes
<1>4. RuleTypes' /\ Evaluable'
  BY <1>2, <1>3 DEF ReportInv, RuleTypes, Evaluable
<1> QED
  BY <1>2, <1>4, RulesKeepReports DEF ReportInv

\* A step on one job that keeps the rules: it leaves the job accounted for.
LEMMA JobReports ==
    ASSUME ReportInv, UNCHANGED <<rules, spoilt>>, reports \subseteq reports', JobTypes',
           NEW s, \A t \in Scans \ {s} : job'[t] = job[t],
           ~spoilt => (\E r \in reports' : r.scan = s) \/ (s \in Scans => LostToSemgrep(job'[s]))
    PROVE  ReportInv'
<1>1. RuleTypes' /\ spoilt' \in BOOLEAN /\ Evaluable'
  BY DEF ReportInv, RuleTypes, Evaluable
<1>2. ASSUME ~spoilt', NEW t \in Scans
      PROVE  Reported(t)' \/ LostToSemgrep(job'[t])
  <2>1. CASE t = s
    BY <1>2, <2>1 DEF Reported
  <2>2. CASE t # s
    BY <1>2, <2>2 DEF ReportInv, Attempts, Reported
  <2> QED
    BY <2>1, <2>2
<1>3. Attempts'
  BY <1>2 DEF Attempts, LostToSemgrep
<1> QED
  BY <1>1, <1>3 DEF ReportInv

\* A new state, and nothing else, for one job.
LEMMA NewState ==
    ASSUME JobTypes, NEW s, NEW state \in {"waiting", "running", "completed", "dead", "lost"},
           job' = [job EXCEPT ![s].state = state]
    PROVE  /\ JobTypes' /\ \A t \in Scans \ {s} : job'[t] = job[t]
           /\ s \in Scans => job'[s].state = state
BY DEF JobTypes, JobRecord

LEMMA AgainState ==
    ASSUME NEW s
    PROVE  \E state \in {"waiting", "dead"} : Again(s) = [job EXCEPT ![s].state = state]
BY DEF Again

\* Only a rule that an update spoilt can raise.
LEMMA RuleRaisesReports ==
    ASSUME ReportInv, NEW w \in Workers, RuleRaises(w)
    PROVE  ReportInv'
<1>1. spoilt
  BY DEF RuleRaises, CannotCheck, Active, ReportInv, Evaluable
<1>2. UNCHANGED <<rules, spoilt, reports>> /\ job' = Again(work[w].scan)
  BY DEF RuleRaises, admin
<1>3. PICK state \in {"waiting", "dead"} : job' = [job EXCEPT ![work[w].scan].state = state]
  BY <1>2, AgainState
<1>4. JobTypes' /\ \A t \in Scans \ {work[w].scan} : job'[t] = job[t]
  BY <1>3, NewState DEF ReportInv
<1> QED
  BY <1>1, <1>2, <1>4, JobReports

LEMMA PublishReports ==
    ASSUME ReportInv, NEW w \in Workers, Publish(w)
    PROVE  ReportInv'
<1> DEFINE s == work[w].scan
<1>1. UNCHANGED <<rules, spoilt>> /\ job' \in {[job EXCEPT ![s].state = "completed"], Again(s)}
  BY DEF Publish, admin
<1>2. PICK conclusion : reports' = reports \cup
             {[scan |-> s, company |-> work[w].company,
               architecture |-> Active(rules.architecture), conclusion |-> conclusion]}
  BY DEF Publish
<1> DEFINE new == [scan |-> s, company |-> work[w].company,
                   architecture |-> Active(rules.architecture), conclusion |-> conclusion]
<1> HIDE DEF s
<1>3. new.scan = s
  OBVIOUS
<1>4. reports \subseteq reports' /\ new \in reports'
  BY <1>2
<1> HIDE DEF new
<1>5. \E r \in reports' : r.scan = s
  BY <1>3, <1>4
<1>6. PICK state \in {"waiting", "dead", "completed"} : job' = [job EXCEPT ![s].state = state]
  BY <1>1, AgainState
<1>7. JobTypes' /\ \A t \in Scans \ {s} : job'[t] = job[t]
  BY <1>6, NewState DEF ReportInv
<1> QED
  BY <1>1, <1>4, <1>5, <1>7, JobReports

\* An attempt begins, or never will.
LEMMA BeginsReports ==
    ASSUME ReportInv, NEW s \in Scans, NeverStarts(s) \/ \E w \in Workers : Take(w, s)
    PROVE  ReportInv'
<1>1. UNCHANGED <<rules, spoilt, reports>>
  BY DEF NeverStarts, Take, admin
<1>2. /\ JobTypes' /\ \A t \in Scans \ {s} : job'[t] = job[t]
      /\ job'[s].state \in {"lost", "running"}
  <2>1. CASE NeverStarts(s)
    BY <2>1, NewState DEF NeverStarts, ReportInv
  <2>2. CASE \E w \in Workers : Take(w, s)
    <3> DEFINE new == [state |-> "running", tries |-> job[s].tries + 1, raised |-> job[s].raised]
    <3>1. job' = [job EXCEPT ![s] = new]
      BY <2>2 DEF Take
    <3>2. job[s].tries \in Nat /\ job[s].raised \in Nat
      BY DEF ReportInv, JobTypes, JobRecord
    <3>3. new \in JobRecord /\ new.state = "running"
      BY <3>2 DEF JobRecord
    <3> HIDE DEF new
    <3> QED
      BY <3>1, <3>3 DEF ReportInv, JobTypes
  <2> QED
    BY <2>1, <2>2
<1>3. LostToSemgrep(job'[s])
  BY <1>2 DEF LostToSemgrep
<1> QED
  BY <1>1, <1>2, <1>3, JobReports

\* One attempt more, and one more that Semgrep cost; the scan without a report had lost
\* those before it in the same way.
LEMMA SemgrepRaisesReports ==
    ASSUME ReportInv, NEW s \in Scans, NEW w \in Workers, SemgrepRaises(w, s)
    PROVE  ReportInv'
<1> DEFINE new == [state |-> IF job[s].tries + 1 < MaxTries THEN "waiting" ELSE "dead",
                   tries |-> job[s].tries + 1, raised |-> job[s].raised + 1]
<1>1. UNCHANGED <<rules, spoilt, reports>> /\ job' = [job EXCEPT ![s] = new]
  BY DEF SemgrepRaises, admin
<1>2. job[s].state = "waiting" /\ job[s].tries \in Nat /\ job[s].raised \in Nat
  BY DEF SemgrepRaises, ReportInv, JobTypes, JobRecord
<1>3. new \in JobRecord
  BY <1>2 DEF JobRecord
<1>4. ~spoilt /\ ~Reported(s) => LostToSemgrep(new)
  <2> SUFFICES ASSUME ~spoilt, ~Reported(s) PROVE LostToSemgrep(new)
    OBVIOUS
  <2>1. job[s].raised = job[s].tries
    BY <1>2 DEF ReportInv, Attempts, LostToSemgrep
  <2>2. new.state = "dead" => new.tries >= MaxTries
    BY <1>2, BoundsAssumption
  <2> QED
    BY <2>1, <2>2 DEF LostToSemgrep
<1> HIDE DEF new
<1>5. JobTypes' /\ job'[s] = new /\ \A t \in Scans \ {s} : job'[t] = job[t]
  BY <1>1, <1>3 DEF ReportInv, JobTypes
<1>6. Reported(s) <=> \E r \in reports' : r.scan = s
  BY <1>1 DEF Reported
<1> QED
  BY <1>1, <1>4, <1>5, <1>6, JobReports

LEMMA ReportNext == ReportInv /\ [Next]_vars => ReportInv'
<1> SUFFICES ASSUME ReportInv, [Next]_vars PROVE ReportInv'
  OBVIOUS
<1>1. CASE UNCHANGED <<job, rules, spoilt, reports>>
  <2>1. RuleTypes' /\ Evaluable'
    BY <1>1 DEF ReportInv, RuleTypes, Evaluable
  <2> QED
    BY <1>1, <2>1, RulesKeepReports DEF ReportInv
<1>2. \/ UNCHANGED <<job, rules, spoilt, reports>>
      \/ \E w \in Workers : RuleRaises(w) \/ Publish(w)
      \/ \E s \in Scans : NeverStarts(s) \/ \E w \in Workers : Take(w, s)
      \/ \E s \in Scans, w \in Workers : SemgrepRaises(w, s)
      \/ CreateCompanyRule \/ UpdateCompanyRule
      \/ CreateArchitectureRule \/ UpdateArchitectureRule
  BY DEF Next, Proceed, vars, admin, SkipReview, Unlimited, RefuseReview, CheckBudget,
         ReadFails, RedisFails, Count, CountFails, Ask, CheckCompanyRules, Midnight
<1> QED
  BY <1>1, <1>2, RuleRaisesReports, PublishReports, BeginsReports, SemgrepRaisesReports,
     CreateCompanyRuleReports, UpdateCompanyRuleReports, ArchitectureRulesReport

\* A scan that is over without a report had a rule that did not compile, or lost every
\* attempt to an exception out of Semgrep: no answer of the provider or of Redis, no
\* budget, and no failure of Semgrep that scan_files makes a finding of, ends an attempt
\* before Publish.
THEOREM ScansAlwaysReport == Analysis => []ScansReport
<1>1. ReportInv => ScansReport
  BY DEF ReportInv, Attempts, Reported, LostToSemgrep, ScansReport
<1> QED
  BY <1>1, ReportInit, ReportNext, PTL DEF Analysis
=============================================================================
