-------------------------- MODULE Remediation_proofs --------------------------
(***************************************************************************)
(* The remediation walk, for any number of failing results, retries and    *)
(* session attempts and any cost limit and breaker: the spend stays within *)
(* the retries' smallest budgets of the limit, an open breaker is loaded   *)
(* only by the request that opened it, costs add up, and only verified     *)
(* edits land.                                                             *)
(***************************************************************************)
EXTENDS Remediation, WellFoundedInduction, TLAPS

States == {"closed", "open", "half_open"}
Breakers == [state : States, failures : 0..FailureThreshold,
             successes : 0..SuccessThreshold, age : 0..BreakerTimeout]
Limiters == [tokens : 0..MaxTokens, age : 0..MaxTokens]
Trees == [worktree : BOOLEAN, branch : BOOLEAN, stuck : BOOLEAN, pushed : BOOLEAN]

(* A counter that has reached its threshold is not a counter any more.     *)
BreakerOK(b) ==
    /\ b \in Breakers
    /\ b.state = "closed" => b.failures < FailureThreshold
    /\ b.state = "half_open" => b.successes < SuccessThreshold

ClientType ==
    /\ BreakerOK(breaker) /\ limiter \in Limiters
    /\ total \in Nat /\ whileOpen \in Nat

InSession == pc \in {"session", "scan", "policy", "verify", "commit", "push", "pr"}

(* Where the walk can be, with which result, mode and attempt.             *)
WalkType ==
    /\ mode \in Modes /\ pc \in WalkPc /\ cur \in 0..NumResults
    /\ before \in Nat /\ reported \in Nat
    /\ attempt \in 0..Greater(MaxRetries, Greater(MaxAttempts, 1))
    /\ edits \in Sessions /\ landed \in Sessions /\ tree \in Trees
    /\ outcome \in [Results -> Kinds]
    /\ pc = "advise" => attempt <= MaxRetries /\ mode = "advisory"
    /\ pc = "open" \/ InSession => mode # "advisory"
    /\ InSession => attempt \in 1..Greater(MaxAttempts, 1)
    /\ pc = "drift" => cur = 0
    /\ pc = "advise" \/ pc = "open" \/ InSession => cur \in Results

(* What is on the outcomes, and what is still to be reported of cur.       *)
CostsFollow ==
    /\ pc \in {"drift", "next", "done"} =>
         reported <= total /\ (mode # "advisory" => reported = total)
    /\ pc = "advise" \/ pc = "open" \/ InSession =>
         reported <= before /\ before <= total /\ (mode # "advisory" => reported = before)
    /\ pc = "open" => total = before

(* The attempt the retry loop is at bounds what the earlier ones added.    *)
SpendFollows ==
    /\ SpendStaysNearLimit
    /\ pc = "advise" /\ attempt >= 1 => total < CostLimit + 2 * (attempt - 1)

(* An open breaker is met in the retry loop only by later attempts than    *)
(* the one that opened it.                                                 *)
LoadFollows ==
    /\ BreakerShedsLoad
    /\ pc = "advise" /\ attempt >= 1 /\ breaker.state = "open" =>
         attempt >= 2 /\ whileOpen <= attempt - 2

(* The gates the edits have passed by now.                                 *)
GatesPassed ==
    /\ pc \in {"policy", "verify", "commit", "push", "pr"} => ~edits.risky
    /\ pc \in {"verify", "commit", "push", "pr"} =>
         edits.touched # {} /\ edits.touched \subseteq AllowedAreas
    /\ pc \in {"commit", "push", "pr"} => edits.works
    /\ OnlyVerifiedLands

RemediationInv ==
    /\ ClientType /\ WalkType
    /\ CostsFollow /\ SpendFollows /\ LoadFollows /\ GatesPassed
    /\ RejectedLeavesNothing

-----------------------------------------------------------------------------
(* ClaudeClient: the breaker, the bucket and the budgets.                  *)
LEMMA ThresholdsPositive ==
    /\ CostLimit \in Nat /\ CostLimit >= 1
    /\ MaxRetries \in Nat /\ MaxRetries >= 1
    /\ FailureThreshold \in Nat /\ FailureThreshold >= 1
    /\ SuccessThreshold \in Nat /\ SuccessThreshold >= 1
    /\ BreakerTimeout \in Nat /\ BreakerTimeout >= 1
    /\ MaxTokens \in Nat /\ MaxTokens >= 1
<1>1. ASSUME NEW x \in {CostLimit, MaxRetries, FailureThreshold, SuccessThreshold,
                        BreakerTimeout, MaxTokens}
      PROVE  x \in Nat /\ x >= 1
  BY <1>1, ClientAssumption
<1> QED
  BY <1>1

LEMMA BreakerFields ==
    ASSUME NEW b \in Breakers
    PROVE  /\ b.state \in States /\ b.age \in 0..BreakerTimeout
           /\ b.failures \in Nat /\ b.failures <= FailureThreshold
           /\ b.successes \in Nat /\ b.successes <= SuccessThreshold
BY ThresholdsPositive DEF Breakers

(* should_allow lets a request through a breaker that is then not open.    *)
LEMMA AllowedIsNotOpen ==
    ASSUME NEW b, BreakerOK(b)
    PROVE  /\ BreakerOK(AfterAllow(b))
           /\ should_allow(b) => AfterAllow(b).state # "open"
<1> USE ThresholdsPositive
<1>0. b \in Breakers /\ 0 \in 0..SuccessThreshold
  BY DEF BreakerOK
<1>1. CASE b.state = "open" /\ b.age >= BreakerTimeout
  <2> DEFINE c == [b EXCEPT !.state = "half_open", !.successes = 0]
  <2>1. c \in Breakers /\ c.state = "half_open" /\ c.successes = 0
    BY <1>0, Zenon DEF Breakers, States
  <2>2. AfterAllow(b) = c
    BY <1>1 DEF AfterAllow
  <2> HIDE DEF c
  <2> QED
    BY <2>1, <2>2 DEF BreakerOK
<1>2. CASE ~(b.state = "open" /\ b.age >= BreakerTimeout)
  BY <1>2 DEF AfterAllow, should_allow
<1> QED
  BY <1>1, <1>2

(* Time does not change what a breaker does next, but for its timeout.     *)
LEMMA AgedKeepsBreaker ==
    ASSUME NEW b, BreakerOK(b), NEW d \in Nat
    PROVE  BreakerOK(Aged(b, d)) /\ Aged(b, d).state = b.state
<1> USE ThresholdsPositive
<1>1. b \in Breakers /\ b.age \in 0..BreakerTimeout
  BY BreakerFields DEF BreakerOK
<1>2. Lesser(b.age + d, BreakerTimeout) \in 0..BreakerTimeout /\ 0 \in 0..BreakerTimeout
  BY <1>1 DEF Lesser
<1>3. PICK a \in 0..BreakerTimeout : Aged(b, d) = [b EXCEPT !.age = a]
  BY <1>2 DEF Aged
<1> DEFINE c == [b EXCEPT !.age = a]
<1>4. /\ c \in Breakers /\ c.state = b.state
      /\ c.failures = b.failures /\ c.successes = b.successes
  BY <1>1, Zenon DEF Breakers
<1> HIDE DEF c
<1> QED
  BY <1>3, <1>4 DEF BreakerOK, c

(* record_success and record_failure reset a counter that gets there.      *)
LEMMA SuccessKeepsBreaker ==
    ASSUME NEW b, BreakerOK(b)
    PROVE  BreakerOK(record_success(b))
<1> USE ThresholdsPositive
<1>0. /\ b \in Breakers /\ b.state \in States
      /\ b.successes \in Nat /\ b.successes <= SuccessThreshold
      /\ 0 \in 0..FailureThreshold /\ 0 \in 0..SuccessThreshold /\ 0 \in 0..BreakerTimeout
  BY BreakerFields DEF BreakerOK
<1>1. CASE b.state = "closed"
  <2> DEFINE c == [b EXCEPT !.failures = 0]
  <2>1. record_success(b) = c
    BY <1>1, Zenon DEF record_success
  <2>2. c \in Breakers /\ c.state = "closed" /\ c.failures = 0
    BY <1>0, <1>1, Zenon DEF Breakers
  <2> HIDE DEF c
  <2> QED
    BY <2>1, <2>2 DEF BreakerOK
<1>2. CASE b.state = "half_open"
  <2> DEFINE n == b.successes + 1
             c == [b EXCEPT !.state = "closed", !.failures = 0, !.successes = n]
             e == [b EXCEPT !.successes = n]
  <2>1. record_success(b) = IF n >= SuccessThreshold THEN c ELSE e
    BY <1>2, Zenon DEF record_success
  <2>2. n \in 0..SuccessThreshold
    BY <1>0, <1>2 DEF BreakerOK
  <2>3. c \in Breakers /\ c.state = "closed" /\ c.failures = 0
    BY <1>0, <2>2, Zenon DEF Breakers, States
  <2>4. e \in Breakers /\ e.state = "half_open" /\ e.successes = n
    BY <1>0, <1>2, <2>2, Zenon DEF Breakers
  <2> HIDE DEF c, e
  <2> QED
    BY <2>1, <2>2, <2>3, <2>4 DEF BreakerOK
<1>3. CASE b.state = "open"
  <2>1. record_success(b) = b
    BY <1>3, Zenon DEF record_success
  <2> QED
    BY <2>1
<1> QED
  BY <1>0, <1>1, <1>2, <1>3 DEF States

LEMMA FailureKeepsBreaker ==
    ASSUME NEW b, BreakerOK(b)
    PROVE  BreakerOK(record_failure(b))
<1> USE ThresholdsPositive
<1>0. /\ b \in Breakers /\ b.state \in States
      /\ b.failures \in Nat /\ b.failures <= FailureThreshold
      /\ 0 \in 0..FailureThreshold /\ 0 \in 0..SuccessThreshold /\ 0 \in 0..BreakerTimeout
  BY BreakerFields DEF BreakerOK
<1>1. CASE b.state = "closed"
  <2> DEFINE n == b.failures + 1
             c == [b EXCEPT !.state = "open", !.failures = n, !.age = 0]
             e == [b EXCEPT !.failures = n]
  <2>1. record_failure(b) = IF n >= FailureThreshold THEN c ELSE e
    BY <1>1, Zenon DEF record_failure
  <2>2. n \in 0..FailureThreshold
    BY <1>0, <1>1 DEF BreakerOK
  <2>3. c \in Breakers /\ c.state = "open"
    BY <1>0, <2>2, Zenon DEF Breakers, States
  <2>4. e \in Breakers /\ e.state = "closed" /\ e.failures = n
    BY <1>0, <1>1, <2>2, Zenon DEF Breakers
  <2> HIDE DEF c, e
  <2> QED
    BY <2>1, <2>2, <2>3, <2>4 DEF BreakerOK
<1>2. CASE b.state = "half_open"
  <2> DEFINE c == [b EXCEPT !.state = "open", !.age = 0]
  <2>1. record_failure(b) = c
    BY <1>2, Zenon DEF record_failure
  <2>2. c \in Breakers /\ c.state = "open"
    BY <1>0, Zenon DEF Breakers, States
  <2> HIDE DEF c
  <2> QED
    BY <2>1, <2>2 DEF BreakerOK
<1>3. CASE b.state = "open"
  <2>1. record_failure(b) = b
    BY <1>3, Zenon DEF record_failure
  <2> QED
    BY <2>1
<1> QED
  BY <1>0, <1>1, <1>2, <1>3 DEF States

LEMMA BucketType ==
    ASSUME NEW l \in Limiters
    PROVE  /\ Acquired(l) \in Limiters /\ AcquireWait(l) \in Nat
           /\ \A d \in Nat : Rested(l, d) \in Limiters
BY ThresholdsPositive
   DEF Limiters, Acquired, AcquireWait, Rested, Lesser, Greater

(* An invocation spends at most what was left of the limit, or a cent.     *)
LEMMA CostsBounded ==
    ASSUME total \in Nat, NEW v, NEW cost \in Costs(v)
    PROVE  /\ cost \in Nat
           /\ cost <= 2 \/ total + cost <= CostLimit + 1
           /\ Accounted(v, cost) \in 0..cost
<1> USE ThresholdsPositive
<1>1. cost \in {0, 1} \cup Budgets
  BY DEF Costs
<1>2. cost \in Nat /\ (cost <= 2 \/ total + cost <= CostLimit + 1)
  BY <1>1 DEF Budgets, Greater, MinBudget
<1> QED
  BY <1>2 DEF Accounted

LEMMA DurationsNat == Durations \subseteq Nat
BY ThresholdsPositive DEF Durations

(* A success and a reached cap are exits, so their cost is accounted.      *)
LEMMA FinalIsAccounted ==
    ASSUME NEW v, v \in FinalVerdicts, NEW cost
    PROVE  Accounted(v, cost) = cost
<1>1. PICK e \in Exits : ~e.is_error /\ e.status_ok
  <2> DEFINE x == [is_error |-> FALSE, cap |-> FALSE, status_ok |-> TRUE, stderr |-> "other"]
  <2> x \in Exits /\ ~x.is_error /\ x.status_ok
    BY DEF Exits
  <2> QED
    OBVIOUS
<1>2. PICK f \in Exits : f.is_error /\ f.cap
  <2> DEFINE x == [is_error |-> TRUE, cap |-> TRUE, status_ok |-> TRUE, stderr |-> "other"]
  <2> x \in Exits /\ x.is_error /\ x.cap
    BY DEF Exits
  <2> QED
    OBVIOUS
<1>3. interpret_run(e) = "Ok"
  BY <1>1, Zenon DEF interpret_run
<1>4. interpret_run(f) = "CapReached"
  BY <1>2, Zenon DEF interpret_run
<1>5. "Ok" \in Interpreted /\ "CapReached" \in Interpreted
  BY <1>3, <1>4, Zenon DEF Interpreted
<1> QED
  BY <1>5 DEF Accounted, FinalVerdicts

-----------------------------------------------------------------------------
(* The two kinds of invocation, and the requests before them.              *)
LEMMA AdmitFacts ==
    ASSUME ClientType, Admit, should_allow(breaker)
    PROVE  /\ ClientType' /\ breaker'.state # "open"
           /\ total' = total /\ whileOpen' = whileOpen
<1>1. BreakerOK(AfterAllow(breaker)) /\ AfterAllow(breaker).state # "open"
  BY AllowedIsNotOpen DEF ClientType
<1>2. AcquireWait(limiter) \in Nat /\ limiter' \in Limiters
  BY BucketType DEF ClientType, Admit
<1>3. BreakerOK(breaker') /\ breaker'.state = AfterAllow(breaker).state
  BY <1>1, <1>2, AgedKeepsBreaker DEF Admit
<1> QED
  BY <1>1, <1>2, <1>3 DEF ClientType, Admit

LEMMA BreakerStep ==
    ASSUME NEW b, BreakerOK(b), NEW d \in Nat, whileOpen \in Nat,
           \/ BreakerAfter(b, record_success(b), d)
           \/ BreakerAfter(b, record_failure(b), d)
           \/ BreakerAfter(b, b, d)
    PROVE  /\ BreakerOK(breaker')
           /\ b.state = "open" => whileOpen' = whileOpen + 1
           /\ b.state # "open" => whileOpen' = 0
           /\ whileOpen' \in Nat
<1>1. BreakerOK(breaker')
  BY SuccessKeepsBreaker, FailureKeepsBreaker, AgedKeepsBreaker DEF BreakerAfter
<1> QED
  BY <1>1 DEF BreakerAfter

(* What one invocation does to the client, started under breaker b.        *)
Invoked(b, v, cost) ==
    /\ ClientType'
    /\ b.state = "open" => whileOpen' = whileOpen + 1
    /\ b.state # "open" => whileOpen' = 0
    /\ total' = total + Accounted(v, cost)
    /\ total' \in Nat /\ total <= total' /\ total' <= total + cost
    /\ cost \in Nat /\ (cost <= 2 \/ total + cost <= CostLimit + 1)

LEMMA AdviceFacts ==
    ASSUME ClientType, NEW v, NEW cost \in Costs(v), NEW d \in Durations,
           AdviceInvocation(v, cost, d)
    PROVE  Invoked(breaker, v, cost)
<1>1. d \in Nat
  BY DurationsNat
<1>2. \/ BreakerAfter(breaker, record_success(breaker), d)
      \/ BreakerAfter(breaker, record_failure(breaker), d)
      \/ BreakerAfter(breaker, breaker, d)
  <2>1. CASE v = "Ok"
    BY <2>1, Zenon DEF AdviceInvocation
  <2>2. CASE v # "Ok" /\ v \in BreakerVerdicts
    BY <2>2, Zenon DEF AdviceInvocation
  <2>3. CASE v # "Ok" /\ v \notin BreakerVerdicts
    BY <2>3, Zenon DEF AdviceInvocation
  <2> QED
    BY <2>1, <2>2, <2>3
<1>3. Invoke(v, cost, limiter, d)
  BY Zenon DEF AdviceInvocation
<1>4. total' = total + Accounted(v, cost) /\ limiter' \in Limiters
  BY <1>1, <1>3, BucketType DEF Invoke, ClientType
<1>5. /\ cost \in Nat /\ (cost <= 2 \/ total + cost <= CostLimit + 1)
      /\ Accounted(v, cost) \in 0..cost /\ total \in Nat
  BY CostsBounded DEF ClientType
<1>6. /\ BreakerOK(breaker') /\ whileOpen' \in Nat
      /\ breaker.state = "open" => whileOpen' = whileOpen + 1
      /\ breaker.state # "open" => whileOpen' = 0
  BY <1>1, <1>2, BreakerStep DEF ClientType
<1> QED
  BY <1>4, <1>5, <1>6 DEF Invoked, ClientType

LEMMA EditFacts ==
    ASSUME ClientType, NEW v, NEW cost \in Costs(v), NEW d \in Durations,
           EditInvocation(v, cost, d)
    PROVE  Invoked(AfterAllow(breaker), v, cost) /\ whileOpen' = 0
<1> DEFINE b == AfterAllow(breaker)
<1>0. BreakerOK(b) /\ b.state # "open"
  <2>1. should_allow(breaker)
    BY Zenon DEF EditInvocation, Admitted
  <2> QED
    BY <2>1, AllowedIsNotOpen DEF ClientType
<1>1. d \in Nat
  BY DurationsNat
<1>2. \/ BreakerAfter(b, record_success(b), d)
      \/ BreakerAfter(b, record_failure(b), d)
      \/ BreakerAfter(b, b, d)
  <2> DEFINE F == {"ClaudeUnavailable", "ApiError"}
  <2>1. CASE v = "Ok"
    BY <2>1, Zenon DEF EditInvocation
  <2>2. CASE v # "Ok" /\ v \in F
    BY <2>2, Zenon DEF EditInvocation
  <2>3. CASE v # "Ok" /\ v \notin F
    BY <2>3, Zenon DEF EditInvocation
  <2> QED
    BY <2>1, <2>2, <2>3
<1>3. Invoke(v, cost, Acquired(limiter), d)
  BY Zenon DEF EditInvocation
<1>4. total' = total + Accounted(v, cost) /\ limiter' \in Limiters
  <2>1. Acquired(limiter) \in Limiters
    BY BucketType DEF ClientType
  <2> QED
    BY <1>1, <1>3, <2>1, BucketType DEF Invoke
<1>5. /\ cost \in Nat /\ (cost <= 2 \/ total + cost <= CostLimit + 1)
      /\ Accounted(v, cost) \in 0..cost /\ total \in Nat
  BY CostsBounded DEF ClientType
<1> HIDE DEF b
<1>6. BreakerOK(breaker') /\ whileOpen' \in Nat /\ whileOpen' = 0
  BY <1>0, <1>1, <1>2, BreakerStep DEF ClientType
<1>7. Invoked(b, v, cost)
  BY <1>0, <1>4, <1>5, <1>6 DEF Invoked, ClientType
<1> QED
  BY <1>6, <1>7 DEF b

(* The four ways an invocation for advice ends.                            *)
LEMMA AdviceEnds ==
    ASSUME NEW v, NEW cost, NEW d, AdviceInvocation(v, cost, d)
    PROVE  /\ pc = "advise" /\ attempt > 0
           /\ UNCHANGED <<mode, cur, before, edits, tree, landed>>
           /\ \/ v = "Ok" /\ Settle("advised", cost) /\ UNCHANGED attempt
              \/ v = "CapReached" /\ Settle("failed", total' - before) /\ UNCHANGED attempt
              \/ Settle("advised", 0) /\ UNCHANGED attempt
              \/ /\ attempt # MaxRetries /\ attempt' = attempt + 1
                 /\ UNCHANGED <<pc, outcome, reported>>
<1>1. CASE v = "Ok"
  BY <1>1, Zenon DEF AdviceInvocation
<1>2. CASE v # "Ok" /\ v \in FinalVerdicts
  <2>1. v = "CapReached"
    BY <1>2 DEF FinalVerdicts
  <2> QED
    BY <1>2, <2>1, Zenon DEF AdviceInvocation
<1>3. CASE v \notin FinalVerdicts
  <2>1. v # "Ok"
    BY <1>3 DEF FinalVerdicts
  <2>2. CASE LastAttempt
    BY <1>3, <2>1, <2>2, Zenon DEF AdviceInvocation
  <2>3. CASE ~LastAttempt
    BY <1>3, <2>1, <2>3, Zenon DEF AdviceInvocation, LastAttempt
  <2> QED
    BY <2>2, <2>3
<1> QED
  BY <1>1, <1>2, <1>3

-----------------------------------------------------------------------------
(* The walk keeps its types.                                               *)
LEMMA FirstUnsettled ==
    ASSUME WalkType, Unsettled # {}
    PROVE  Min(Unsettled) \in Results
<1> DEFINE R == {ss \in Nat \X Nat : ss[1] < ss[2]}
<1>0. Unsettled \subseteq Nat /\ Unsettled \subseteq Results
  BY RemediationAssumption DEF Unsettled, Results
<1>1. IsWellFoundedOn(R, Nat)
  BY NatLessThanWellFounded DEF OpToRel
<1>2. PICK x \in Unsettled : \A y \in Unsettled : ~ (<<y, x>> \in R)
  <2> HIDE DEF R
  <2> QED
    BY <1>0, <1>1, WFMin
<1>3. ASSUME NEW y \in Unsettled PROVE x =< y
  <2>1. x \in Nat /\ y \in Nat /\ <<y, x>> \in Nat \X Nat
    BY <1>0
  <2>2. y < x => <<y, x>> \in R
    BY <2>1
  <2> QED
    BY <1>2, <2>1, <2>2
<1>4. Min(Unsettled) \in Unsettled
  BY <1>2, <1>3 DEF Min
<1> QED
  BY <1>0, <1>4

LEMMA AttemptBounds ==
    /\ NumResults \in Nat /\ MaxAttempts \in Nat
    /\ Greater(MaxAttempts, 1) \in Nat /\ Greater(MaxAttempts, 1) >= 1
    /\ Greater(MaxRetries, Greater(MaxAttempts, 1)) \in Nat
    /\ MaxRetries <= Greater(MaxRetries, Greater(MaxAttempts, 1))
    /\ Greater(MaxAttempts, 1) <= Greater(MaxRetries, Greater(MaxAttempts, 1))
BY ThresholdsPositive, RemediationAssumption DEF Greater

(* An outcome is attached to the result the walk is at.                    *)
LEMMA SettleFacts ==
    ASSUME WalkType, cur \in Results, NEW kind \in Kinds, NEW cost \in Nat,
           Settle(kind, cost)
    PROVE  /\ outcome' \in [Results -> Kinds] /\ outcome'[cur] = kind
           /\ reported' \in Nat /\ reported' = reported + cost
           /\ pc' = "next"
BY DEF WalkType, Settle

LEMMA DiscardFacts ==
    ASSUME tree \in Trees, discard_worktree
    PROVE  tree' \in Trees /\ (tree'.stuck \/ (~tree'.worktree /\ ~tree'.branch))
<1>1. PICK removed \in BOOLEAN, deleted \in BOOLEAN :
        tree' = [tree EXCEPT !.worktree = ~removed,
                             !.branch = ~(removed /\ deleted),
                             !.stuck = ~(removed /\ deleted)]
  BY Zenon DEF discard_worktree
<1>2. CASE removed = TRUE /\ deleted = TRUE
  BY <1>1, <1>2 DEF Trees
<1>3. CASE removed = TRUE /\ deleted = FALSE
  BY <1>1, <1>3 DEF Trees
<1>4. CASE removed = FALSE
  BY <1>1, <1>4 DEF Trees
<1> QED
  BY <1>2, <1>3, <1>4

(* A rejected session: what fail does, when the rest stays.                *)
LEMMA FailFacts ==
    ASSUME WalkType, cur \in Results, NEW spent \in Nat, Fail(spent)
    PROVE  /\ outcome' \in [Results -> Kinds] /\ outcome'[cur] = "failed"
           /\ reported' \in Nat /\ reported' = reported + spent
           /\ pc' = "next" /\ tree' \in Trees
           /\ tree'.stuck \/ (~tree'.worktree /\ ~tree'.branch)
<1>1. Settle("failed", spent) /\ "failed" \in Kinds
  BY DEF Fail, Kinds
<1>2. discard_worktree /\ tree \in Trees
  BY DEF Fail, WalkType
<1> QED
  BY <1>1, <1>2, SettleFacts, DiscardFacts

(* What the session has spent so far.                                      *)
LEMMA SpentSoFar ==
    ASSUME ClientType, WalkType, CostsFollow,
           pc = "advise" \/ pc = "open" \/ InSession
    PROVE  /\ cur \in Results /\ before \in Nat /\ before <= total
           /\ total - before \in Nat
BY DEF ClientType, WalkType, CostsFollow

(* Back at "next" with an outcome, whichever action got there: what is     *)
(* left to show of it.                                                     *)
LEMMA SettledKeepsInv ==
    ASSUME RemediationInv, pc = "advise" \/ pc = "open" \/ InSession,
           ClientType', SpendStaysNearLimit', BreakerShedsLoad',
           pc' = "next", UNCHANGED <<mode, cur, before, attempt, landed>>,
           edits' \in Sessions, tree' \in Trees,
           outcome' \in [Results -> Kinds], reported' \in Nat,
           reported' <= total', mode # "advisory" => reported' = total',
           mode # "advisory" /\ outcome'[cur] = "failed" =>
             tree'.stuck \/ (~tree'.worktree /\ ~tree'.branch)
    PROVE  RemediationInv'
<1>1. WalkType'
  BY DEF RemediationInv, WalkType, WalkPc, InSession
<1>2. CostsFollow' /\ SpendFollows' /\ LoadFollows'
  BY DEF CostsFollow, SpendFollows, LoadFollows, InSession
<1>3. GatesPassed'
  BY DEF RemediationInv, GatesPassed, OnlyVerifiedLands
<1>4. RejectedLeavesNothing'
  BY DEF RejectedLeavesNothing
<1> QED
  BY <1>1, <1>2, <1>3, <1>4 DEF RemediationInv

(* A step of the walk that leaves the client alone and stays at its        *)
(* result: what is left to show.                                           *)
LEMMA ControlKeepsInv ==
    ASSUME RemediationInv, UNCHANGED <<clientVars, mode, cur, before, reported, outcome>>,
           pc = "open" \/ InSession, InSession', attempt' \in 1..Greater(MaxAttempts, 1),
           pc' \in WalkPc, edits' \in Sessions, landed' \in Sessions, tree' \in Trees,
           GatesPassed'
    PROVE  RemediationInv'
<1>1. ClientType' /\ SpendStaysNearLimit' /\ BreakerShedsLoad'
  BY DEF RemediationInv, ClientType, SpendFollows, LoadFollows, SpendStaysNearLimit,
         BreakerShedsLoad, clientVars
<1>2. pc' # "advise" /\ pc' # "next" /\ pc' # "done" /\ pc' # "drift" /\ pc' # "open"
  BY DEF InSession
<1>3. WalkType'
  BY <1>2, AttemptBounds DEF RemediationInv, WalkType
<1>4. CostsFollow' /\ SpendFollows' /\ LoadFollows'
  BY <1>1, <1>2 DEF RemediationInv, CostsFollow, SpendFollows, LoadFollows, clientVars
<1>5. RejectedLeavesNothing'
  BY <1>2 DEF RejectedLeavesNothing
<1> QED
  BY <1>1, <1>3, <1>4, <1>5 DEF RemediationInv

LEMMA InitKeeps == Init => RemediationInv
<1> SUFFICES ASSUME Init PROVE RemediationInv
  OBVIOUS
<1> USE ThresholdsPositive, AttemptBounds
<1>1. BreakerOK(breaker)
  BY DEF Init, ClientInit, BreakerOK, Breakers, States
<1>2. ClientType
  BY <1>1 DEF Init, ClientInit, ClientType, Limiters
<1>3. WalkType
  <2>1. edits \in Sessions /\ landed \in Sessions /\ tree \in Trees
    BY Zenon DEF Init, NoEdits, Sessions, NoTree, Trees
  <2>2. outcome \in [Results -> Kinds]
    BY DEF Init, Kinds
  <2> QED
    BY <2>1, <2>2 DEF Init, WalkType, WalkPc, InSession
<1>4. CostsFollow /\ SpendFollows /\ LoadFollows
  BY DEF Init, ClientInit, CostsFollow, SpendFollows, LoadFollows, SpendStaysNearLimit,
         SpendBound, MinBudget, BreakerShedsLoad, InSession
<1>5. GatesPassed /\ RejectedLeavesNothing
  BY DEF Init, GatesPassed, OnlyVerifiedLands, RejectedLeavesNothing
<1> QED
  BY <1>2, <1>3, <1>4, <1>5 DEF RemediationInv

-----------------------------------------------------------------------------
(* The walk itself.                                                        *)
LEMMA DriftKeepsInv ==
    ASSUME RemediationInv, SettleDrift
    PROVE  RemediationInv'
<1>1. ClientType' /\ SpendFollows' /\ LoadFollows'
  BY DEF RemediationInv, SettleDrift, ClientType, SpendFollows, LoadFollows,
         SpendStaysNearLimit, BreakerShedsLoad, clientVars
<1>2. WalkType'
  <2>1. outcome' \in [Results -> Kinds]
    BY DEF SettleDrift, Kinds
  <2> QED
    BY <2>1 DEF RemediationInv, WalkType, SettleDrift, WalkPc, InSession
<1>3. CostsFollow'
  BY DEF RemediationInv, CostsFollow, SettleDrift, InSession, clientVars
<1>4. GatesPassed'
  BY DEF RemediationInv, GatesPassed, OnlyVerifiedLands, SettleDrift
<1>5. RejectedLeavesNothing'
  BY DEF RemediationInv, WalkType, RejectedLeavesNothing, SettleDrift
<1> QED
  BY <1>1, <1>2, <1>3, <1>4, <1>5 DEF RemediationInv

LEMMA NextResultKeepsInv ==
    ASSUME RemediationInv, NextResult
    PROVE  RemediationInv'
<1>1. ClientType' /\ SpendStaysNearLimit' /\ BreakerShedsLoad'
  BY DEF RemediationInv, NextResult, ClientType, SpendFollows, LoadFollows,
         SpendStaysNearLimit, BreakerShedsLoad, clientVars
<1>2. SpendFollows' /\ LoadFollows'
  BY <1>1 DEF NextResult, SpendFollows, LoadFollows
<1>3. NoEdits \in Sessions
  BY Zenon DEF NoEdits, Sessions
<1>4. \/ pc' = "done" /\ cur' = 0
      \/ pc' = "advise" /\ mode = "advisory" /\ cur' \in Results
      \/ pc' = "open" /\ mode # "advisory" /\ cur' \in Results
  BY FirstUnsettled DEF RemediationInv, NextResult
<1>5. WalkType'
  BY <1>3, <1>4, AttemptBounds, ThresholdsPositive
     DEF RemediationInv, ClientType, WalkType, NextResult, WalkPc, InSession, Results
<1>6. CostsFollow'
  BY <1>4 DEF RemediationInv, ClientType, WalkType, CostsFollow, NextResult, InSession, clientVars
<1>7. GatesPassed' /\ RejectedLeavesNothing'
  BY <1>4 DEF RemediationInv, GatesPassed, OnlyVerifiedLands, NextResult, RejectedLeavesNothing
<1> QED
  BY <1>1, <1>2, <1>5, <1>6, <1>7 DEF RemediationInv

-----------------------------------------------------------------------------
(* Advice.                                                                 *)
LEMMA AdviceRequestKeepsInv ==
    ASSUME RemediationInv, AdviceRefused \/ AdviceOverLimit
    PROVE  RemediationInv'
<1>1. /\ pc = "advise" /\ mode = "advisory" /\ cur \in Results
      /\ total \in Nat /\ reported \in Nat /\ reported <= total
  BY DEF RemediationInv, ClientType, WalkType, CostsFollow, AdviceRefused, AdviceOverLimit
<1>2. PICK k \in Kinds : Settle(k, 0)
  BY DEF AdviceRefused, AdviceOverLimit, Kinds
<1>3. /\ outcome' \in [Results -> Kinds] /\ reported' = reported /\ pc' = "next"
  BY <1>1, <1>2, SettleFacts DEF RemediationInv
<1>4. ClientType' /\ total' = total /\ whileOpen' = whileOpen
  BY AdmitFacts DEF RemediationInv, AdviceRefused, AdviceOverLimit, ClientType, clientVars
<1>5. SpendStaysNearLimit' /\ BreakerShedsLoad'
  BY <1>4 DEF RemediationInv, SpendFollows, LoadFollows, SpendStaysNearLimit, BreakerShedsLoad
<1>6. /\ UNCHANGED <<mode, cur, before, attempt, landed>>
      /\ edits' \in Sessions /\ tree' \in Trees
  BY DEF RemediationInv, WalkType, AdviceRefused, AdviceOverLimit
<1> QED
  BY <1>1, <1>3, <1>4, <1>5, <1>6, SettledKeepsInv

LEMMA AdviceAdmittedKeepsInv ==
    ASSUME RemediationInv, AdviceAdmitted
    PROVE  RemediationInv'
<1>1. /\ ClientType' /\ breaker'.state # "open"
      /\ total' = total /\ whileOpen' = whileOpen
  BY AdmitFacts DEF RemediationInv, AdviceAdmitted, Admitted
<1>2. total < CostLimit /\ pc = "advise" /\ pc' = "advise" /\ attempt' = 1
  BY DEF AdviceAdmitted, Admitted
<1>3. SpendFollows'
  BY <1>1, <1>2, ThresholdsPositive
     DEF RemediationInv, ClientType, SpendFollows, SpendStaysNearLimit
<1>4. LoadFollows'
  BY <1>1, <1>2 DEF RemediationInv, LoadFollows, BreakerShedsLoad
<1>5. WalkType'
  BY <1>2, AttemptBounds, ThresholdsPositive
     DEF RemediationInv, WalkType, AdviceAdmitted, InSession
<1>6. CostsFollow'
  BY <1>1, <1>2 DEF RemediationInv, CostsFollow, AdviceAdmitted, InSession
<1>7. GatesPassed' /\ RejectedLeavesNothing'
  BY <1>2 DEF RemediationInv, GatesPassed, OnlyVerifiedLands, AdviceAdmitted,
              RejectedLeavesNothing
<1> QED
  BY <1>1, <1>3, <1>4, <1>5, <1>6, <1>7 DEF RemediationInv

LEMMA Reporting ==
    ASSUME NEW r \in Nat, NEW b \in Nat, NEW t \in Nat, r <= b, b <= t
    PROVE  /\ t - b \in Nat /\ r + (t - b) <= t
           /\ r = b => r + (t - b) = t
OBVIOUS

(* An invocation of attempt n adds at most a cent to what n - 1 could have *)
(* added to the limit, or stays within the limit's rounding.               *)
LEMMA AdviceInvocationKeepsInv ==
    ASSUME RemediationInv, NEW v, NEW cost \in Costs(v), NEW d \in Durations,
           AdviceInvocation(v, cost, d)
    PROVE  RemediationInv'
<1> USE ThresholdsPositive
<1>1. Invoked(breaker, v, cost)
  BY AdviceFacts DEF RemediationInv
<1>2. /\ pc = "advise" /\ attempt > 0
      /\ UNCHANGED <<mode, cur, before, edits, tree, landed>>
      /\ \/ v = "Ok" /\ Settle("advised", cost) /\ UNCHANGED attempt
         \/ v = "CapReached" /\ Settle("failed", total' - before) /\ UNCHANGED attempt
         \/ Settle("advised", 0) /\ UNCHANGED attempt
         \/ /\ attempt # MaxRetries /\ attempt' = attempt + 1
            /\ UNCHANGED <<pc, outcome, reported>>
  BY AdviceEnds
<1>3. /\ mode = "advisory" /\ cur \in Results /\ attempt \in Nat /\ attempt <= MaxRetries
      /\ reported \in Nat /\ before \in Nat /\ total \in Nat
      /\ reported <= before /\ before <= total
      /\ total < CostLimit + 2 * (attempt - 1)
      /\ breaker.state = "open" => attempt >= 2 /\ whileOpen <= attempt - 2
      /\ whileOpen \in Nat
  BY <1>2, AttemptBounds DEF RemediationInv, ClientType, WalkType, CostsFollow, SpendFollows,
                             LoadFollows
<1>4. total' \in Nat /\ total <= total' /\ total' < CostLimit + 2 * attempt
  BY <1>1, <1>2, <1>3 DEF Invoked
<1>5. SpendStaysNearLimit'
  BY <1>3, <1>4 DEF SpendStaysNearLimit, SpendBound, MinBudget
<1>6. /\ whileOpen' \in Nat /\ whileOpen' <= attempt - 1
      /\ BreakerShedsLoad'
  BY <1>1, <1>2, <1>3 DEF Invoked, BreakerShedsLoad
<1>7. ClientType'
  BY <1>1 DEF Invoked
<1>8. CASE attempt # MaxRetries /\ attempt' = attempt + 1 /\ UNCHANGED <<pc, outcome, reported>>
  <2>1. WalkType'
    BY <1>2, <1>3, <1>8, AttemptBounds DEF RemediationInv, WalkType, InSession
  <2>2. CostsFollow'
    BY <1>2, <1>3, <1>4, <1>8 DEF CostsFollow, InSession
  <2>3. SpendFollows' /\ LoadFollows'
    BY <1>2, <1>3, <1>4, <1>5, <1>6, <1>8 DEF SpendFollows, LoadFollows
  <2>4. GatesPassed' /\ RejectedLeavesNothing'
    BY <1>2, <1>8 DEF RemediationInv, GatesPassed, OnlyVerifiedLands, RejectedLeavesNothing
  <2> QED
    BY <1>7, <2>1, <2>2, <2>3, <2>4 DEF RemediationInv
<1>9. CASE \/ v = "Ok" /\ Settle("advised", cost) /\ UNCHANGED attempt
           \/ v = "CapReached" /\ Settle("failed", total' - before) /\ UNCHANGED attempt
           \/ Settle("advised", 0) /\ UNCHANGED attempt
  <2>1. PICK k \in Kinds, c \in Nat :
          Settle(k, c) /\ UNCHANGED attempt /\ reported + c <= total'
    <3>1. CASE v = "Ok" /\ Settle("advised", cost) /\ UNCHANGED attempt
      <4>1. total' = total + cost /\ cost \in Nat
        BY <1>1, <3>1, FinalIsAccounted DEF Invoked, FinalVerdicts
      <4> QED
        BY <1>3, <3>1, <4>1 DEF Kinds
    <3>2. CASE v = "CapReached" /\ Settle("failed", total' - before) /\ UNCHANGED attempt
      <4>1. total' - before \in Nat /\ reported + (total' - before) <= total'
        <5>1. before <= total'
          BY <1>3, <1>4
        <5> QED
          BY <1>3, <1>4, <5>1, Reporting
      <4> QED
        BY <3>2, <4>1 DEF Kinds
    <3>3. CASE Settle("advised", 0) /\ UNCHANGED attempt
      BY <1>3, <1>4, <3>3 DEF Kinds
    <3> QED
      BY <1>9, <3>1, <3>2, <3>3
  <2>2. /\ outcome' \in [Results -> Kinds] /\ pc' = "next"
        /\ reported' \in Nat /\ reported' = reported + c
    BY <1>3, <2>1, SettleFacts DEF RemediationInv
  <2>3. edits' \in Sessions /\ tree' \in Trees
    BY <1>2 DEF RemediationInv, WalkType
  <2> QED
    BY <1>2, <1>3, <1>5, <1>6, <1>7, <2>1, <2>2, <2>3, SettledKeepsInv
<1> QED
  BY <1>2, <1>8, <1>9

-----------------------------------------------------------------------------
(* Edit sessions.                                                          *)

(* A session that fails, whatever it was at: its whole cost is reported.   *)
LEMMA FailKeepsInv ==
    ASSUME RemediationInv, pc = "open" \/ InSession,
           ClientType', SpendStaysNearLimit', BreakerShedsLoad', before <= total',
           Fail(total' - before), UNCHANGED <<mode, cur, before, attempt, landed>>,
           edits' \in Sessions
    PROVE  RemediationInv'
<1>1. /\ cur \in Results /\ before \in Nat
      /\ mode # "advisory" /\ reported = before /\ reported <= before /\ reported \in Nat
  BY DEF RemediationInv, WalkType, CostsFollow
<1>2. total' \in Nat
  BY DEF ClientType
<1>3. total' - before \in Nat /\ reported + (total' - before) = total'
  <2>1. PICK t : t = total'
    OBVIOUS
  <2>2. PICK b : b = before
    OBVIOUS
  <2>3. t \in Nat /\ b \in Nat /\ b <= t
    BY <1>1, <1>2, <2>1, <2>2
  <2>4. t - b \in Nat /\ b + (t - b) = t
    BY <2>3
  <2> QED
    BY <1>1, <2>1, <2>2, <2>4
<1>4. /\ outcome' \in [Results -> Kinds] /\ pc' = "next" /\ tree' \in Trees
      /\ reported' = reported + (total' - before)
      /\ tree'.stuck \/ (~tree'.worktree /\ ~tree'.branch)
  BY <1>1, <1>3, FailFacts DEF RemediationInv
<1>5. reported' = total' /\ reported' <= total'
  BY <1>2, <1>3, <1>4
<1> QED
  BY <1>1, <1>2, <1>4, <1>5, SettledKeepsInv

(* The same where the client is left alone.                                *)
LEMMA PlainFailKeepsInv ==
    ASSUME RemediationInv, InSession, Fail(total - before),
           UNCHANGED <<clientVars, mode, cur, before, attempt, landed, edits>>
    PROVE  RemediationInv'
<1>1. ClientType' /\ SpendStaysNearLimit' /\ BreakerShedsLoad'
  BY DEF RemediationInv, ClientType, SpendFollows, LoadFollows, SpendStaysNearLimit,
         BreakerShedsLoad, clientVars
<1>2. total' = total /\ before <= total /\ edits' \in Sessions
  BY SpentSoFar DEF RemediationInv, clientVars, WalkType, ClientType
<1> QED
  BY <1>1, <1>2, FailKeepsInv

LEMMA OpenKeepsInv ==
    ASSUME RemediationInv, OpenWorktree
    PROVE  RemediationInv'
<1>1. /\ pc = "open" /\ UNCHANGED <<clientVars, mode, cur, before, edits, landed>>
      /\ cur \in Results /\ mode # "advisory" /\ total = before /\ reported = before
      /\ total \in Nat /\ edits \in Sessions /\ landed \in Sessions
  BY DEF RemediationInv, ClientType, WalkType, CostsFollow, OpenWorktree
<1>2. CASE /\ tree' = [NoTree EXCEPT !.worktree = TRUE, !.branch = TRUE]
           /\ pc' = "session" /\ attempt' = 1
           /\ UNCHANGED <<outcome, reported>>
  <2>1. tree' \in Trees
    BY <1>2 DEF NoTree, Trees
  <2>2. GatesPassed'
    BY <1>1, <1>2 DEF RemediationInv, GatesPassed, OnlyVerifiedLands
  <2>3. pc' \in WalkPc /\ InSession' /\ attempt' \in 1..Greater(MaxAttempts, 1)
    BY <1>2, AttemptBounds DEF WalkPc, InSession
  <2> QED
    BY <1>1, <1>2, <2>1, <2>2, <2>3, ControlKeepsInv
<1>3. CASE tree' = NoTree /\ Settle("failed", 0) /\ UNCHANGED attempt
  <2>1. ClientType' /\ SpendStaysNearLimit' /\ BreakerShedsLoad' /\ total' = total
    BY <1>1 DEF RemediationInv, ClientType, SpendFollows, LoadFollows, SpendStaysNearLimit,
                BreakerShedsLoad, clientVars
  <2>2. outcome' \in [Results -> Kinds] /\ pc' = "next" /\ reported' = reported
    BY <1>1, <1>3, SettleFacts DEF RemediationInv, Kinds, WalkType
  <2>3. tree' \in Trees /\ ~tree'.worktree /\ ~tree'.branch
    BY <1>3 DEF NoTree, Trees
  <2> QED
    BY <1>1, <1>3, <2>1, <2>2, <2>3, SettledKeepsInv
<1> QED
  BY <1>2, <1>3 DEF OpenWorktree

LEMMA RefusedKeepsInv ==
    ASSUME RemediationInv, SessionRefused
    PROVE  RemediationInv'
<1>1. InSession /\ UNCHANGED <<mode, cur, attempt, before, edits, landed>>
      /\ Fail(total - before)
  BY DEF SessionRefused, InSession
<1>2. ClientType' /\ total' = total /\ whileOpen' = whileOpen
  <2>1. CASE should_allow(breaker)
    BY <2>1, AdmitFacts DEF RemediationInv, SessionRefused
  <2>2. CASE ~should_allow(breaker)
    BY <2>2 DEF RemediationInv, SessionRefused, ClientType, clientVars
  <2> QED
    BY <2>1, <2>2
<1>3. SpendStaysNearLimit' /\ BreakerShedsLoad'
  BY <1>2 DEF RemediationInv, SpendFollows, LoadFollows, SpendStaysNearLimit, BreakerShedsLoad
<1>4. before <= total /\ edits' \in Sessions
  BY <1>1, SpentSoFar DEF RemediationInv, WalkType, ClientType
<1> QED
  BY <1>1, <1>2, <1>3, <1>4, FailKeepsInv

LEMMA EditKeepsInv ==
    ASSUME RemediationInv, NEW v, NEW cost \in Costs(v), NEW d \in Durations,
           EditInvocation(v, cost, d)
    PROVE  RemediationInv'
<1> USE ThresholdsPositive
<1>1. Invoked(AfterAllow(breaker), v, cost) /\ whileOpen' = 0
  BY EditFacts DEF RemediationInv
<1>2. /\ pc = "session" /\ total < CostLimit
      /\ UNCHANGED <<mode, cur, attempt, before, landed>>
      /\ \/ pc' = "scan" /\ edits' \in Sessions /\ UNCHANGED <<tree, outcome, reported>>
         \/ Fail(total' - before) /\ UNCHANGED edits
  BY Zenon DEF EditInvocation, Admitted
<1>3. /\ InSession /\ cur \in Results /\ mode # "advisory" /\ before \in Nat /\ total \in Nat
      /\ before <= total /\ reported = before
  BY <1>2 DEF RemediationInv, ClientType, WalkType, CostsFollow, InSession
<1>4. ClientType' /\ total' \in Nat /\ total <= total' /\ total' <= CostLimit + 1
  BY <1>1, <1>2, <1>3 DEF Invoked
<1>5. SpendStaysNearLimit' /\ BreakerShedsLoad'
  BY <1>1, <1>4 DEF SpendStaysNearLimit, SpendBound, MinBudget, BreakerShedsLoad
<1>6. CASE Fail(total' - before) /\ UNCHANGED edits
  <2>1. edits' \in Sessions /\ before <= total'
    BY <1>3, <1>4, <1>6 DEF RemediationInv, WalkType
  <2> QED
    BY <1>2, <1>3, <1>4, <1>5, <1>6, <2>1, FailKeepsInv
<1>7. CASE pc' = "scan" /\ edits' \in Sessions /\ UNCHANGED <<tree, outcome, reported>>
  <2>1. WalkType'
    BY <1>2, <1>3, <1>7 DEF RemediationInv, WalkType, WalkPc, InSession
  <2>2. CostsFollow' /\ SpendFollows' /\ LoadFollows'
    BY <1>2, <1>3, <1>4, <1>5, <1>7 DEF CostsFollow, SpendFollows, LoadFollows, InSession
  <2>3. GatesPassed' /\ RejectedLeavesNothing'
    BY <1>2, <1>7 DEF RemediationInv, GatesPassed, OnlyVerifiedLands, RejectedLeavesNothing
  <2> QED
    BY <1>4, <2>1, <2>2, <2>3 DEF RemediationInv
<1> QED
  BY <1>2, <1>6, <1>7

(* A gate: on to the next one with the same edits, or the end of the       *)
(* session.                                                                *)
LEMMA GateKeepsInv ==
    ASSUME RemediationInv, NEW from, NEW passes, NEW to, Gate(from, passes, to),
           InSession, to \in {"policy", "verify"},
           passes /\ pc' = to /\ UNCHANGED <<edits, landed>> => GatesPassed'
    PROVE  RemediationInv'
<1>1. UNCHANGED <<clientVars, mode, cur, attempt, before, edits, landed>>
  BY DEF Gate
<1>2. CASE ~passes
  BY <1>1, <1>2, PlainFailKeepsInv DEF Gate
<1>3. CASE passes
  <2>1. pc' = to /\ UNCHANGED <<tree, outcome, reported>>
    BY <1>3 DEF Gate
  <2>2. /\ InSession' /\ pc' \in WalkPc /\ attempt' \in 1..Greater(MaxAttempts, 1)
        /\ edits' \in Sessions /\ landed' \in Sessions /\ tree' \in Trees
    BY <1>1, <2>1 DEF RemediationInv, WalkType, WalkPc, InSession
  <2> QED
    BY <1>1, <1>3, <2>1, <2>2, ControlKeepsInv
<1> QED
  BY <1>2, <1>3

LEMMA ScanKeepsInv ==
    ASSUME RemediationInv, ScanTranscript
    PROVE  RemediationInv'
<1> DEFINE risky == edits.risky
<1>1. InSession /\ Gate("scan", ~risky, "policy") /\ pc = "scan"
  BY DEF ScanTranscript, Gate, InSession
<1>2. ~risky /\ pc' = "policy" /\ UNCHANGED <<edits, landed>> => GatesPassed'
  BY <1>1 DEF RemediationInv, GatesPassed, OnlyVerifiedLands
<1> HIDE DEF risky
<1> QED
  BY <1>1, <1>2, GateKeepsInv

LEMMA PolicyKeepsInv ==
    ASSUME RemediationInv, CheckPolicy
    PROVE  RemediationInv'
<1>1. PICK git_ok \in BOOLEAN :
        Gate("policy", git_ok /\ edits.touched # {} /\ edits.touched \subseteq AllowedAreas,
             "verify")
  BY Zenon DEF CheckPolicy
<1> DEFINE passes == git_ok /\ edits.touched # {} /\ edits.touched \subseteq AllowedAreas
<1>2. InSession /\ pc = "policy"
  BY <1>1 DEF Gate, InSession
<1>3. passes /\ pc' = "verify" /\ UNCHANGED <<edits, landed>> => GatesPassed'
  BY <1>2 DEF RemediationInv, GatesPassed, OnlyVerifiedLands
<1> HIDE DEF passes
<1>4. Gate("policy", passes, "verify")
  BY <1>1, Zenon DEF passes
<1> QED
  BY <1>2, <1>3, <1>4, GateKeepsInv

LEMMA VerifyKeepsInv ==
    ASSUME RemediationInv, VerifyInWorktree
    PROVE  RemediationInv'
<1>1. /\ InSession /\ pc = "verify"
      /\ UNCHANGED <<clientVars, mode, cur, before, edits, landed>>
      /\ attempt \in 1..Greater(MaxAttempts, 1)
      /\ edits \in Sessions /\ landed \in Sessions /\ tree \in Trees
  BY DEF RemediationInv, WalkType, VerifyInWorktree, InSession
<1>2. CASE edits.works /\ pc' = "commit" /\ UNCHANGED <<attempt, tree, outcome, reported>>
  <2>1. GatesPassed'
    BY <1>1, <1>2 DEF RemediationInv, GatesPassed, OnlyVerifiedLands
  <2>2. InSession' /\ pc' \in WalkPc
    BY <1>2 DEF InSession, WalkPc
  <2> QED
    BY <1>1, <1>2, <2>1, <2>2, ControlKeepsInv
<1>3. CASE /\ attempt < Greater(MaxAttempts, 1)
           /\ pc' = "session" /\ attempt' = attempt + 1 /\ UNCHANGED <<tree, outcome, reported>>
  <2>1. GatesPassed'
    BY <1>1, <1>3 DEF RemediationInv, GatesPassed, OnlyVerifiedLands
  <2>2. InSession' /\ pc' \in WalkPc
    BY <1>3 DEF InSession, WalkPc
  <2>3. attempt' \in 1..Greater(MaxAttempts, 1)
    BY <1>1, <1>3, AttemptBounds
  <2> QED
    BY <1>1, <1>3, <2>1, <2>2, <2>3, ControlKeepsInv
<1>4. CASE Fail(total - before) /\ UNCHANGED attempt
  BY <1>1, <1>4, PlainFailKeepsInv
<1> QED
  BY <1>2, <1>3, <1>4 DEF VerifyInWorktree

(* Only here do edits land: they have passed every gate since the last     *)
(* session.                                                                *)
LEMMA CommitKeepsInv ==
    ASSUME RemediationInv, CommitWorktree
    PROVE  RemediationInv'
<1>1. /\ InSession /\ pc = "commit"
      /\ UNCHANGED <<clientVars, mode, cur, attempt, before, edits>>
      /\ attempt \in 1..Greater(MaxAttempts, 1)
      /\ edits \in Sessions /\ landed \in Sessions /\ tree \in Trees
  BY DEF RemediationInv, WalkType, CommitWorktree, InSession
<1>2. CASE /\ pc' = IF mode = "apply" THEN "push" ELSE "pr"
           /\ landed' = edits
           /\ UNCHANGED <<tree, outcome, reported>>
  <2>1. pc' \in {"push", "pr"}
    BY <1>2
  <2>2. GatesPassed'
    BY <1>1, <1>2, <2>1 DEF RemediationInv, GatesPassed, OnlyVerifiedLands
  <2>3. InSession' /\ pc' \in WalkPc
    BY <2>1 DEF InSession, WalkPc
  <2> QED
    BY <1>1, <1>2, <2>2, <2>3, ControlKeepsInv
<1>3. CASE Fail(total - before) /\ UNCHANGED landed
  BY <1>1, <1>3, PlainFailKeepsInv
<1> QED
  BY <1>2, <1>3 DEF CommitWorktree

LEMMA PushKeepsInv ==
    ASSUME RemediationInv, PushBranch \/ OpenPr
    PROVE  RemediationInv'
<1>1. /\ InSession /\ pc \in {"push", "pr"}
      /\ UNCHANGED <<clientVars, mode, cur, attempt, before, edits, landed>>
      /\ attempt \in 1..Greater(MaxAttempts, 1) /\ cur \in Results
      /\ edits \in Sessions /\ landed \in Sessions /\ tree \in Trees
      /\ mode # "advisory" /\ reported = before /\ reported <= before /\ before <= total
      /\ reported \in Nat /\ before \in Nat /\ total \in Nat
  BY DEF RemediationInv, ClientType, WalkType, CostsFollow, PushBranch, OpenPr, InSession
<1>2. CASE /\ tree' = [tree EXCEPT !.pushed = TRUE] /\ pc' = "pr"
           /\ UNCHANGED <<outcome, reported>>
  <2>1. GatesPassed'
    BY <1>1, <1>2 DEF RemediationInv, GatesPassed, OnlyVerifiedLands
  <2>2. InSession' /\ pc' \in WalkPc
    BY <1>2 DEF InSession, WalkPc
  <2>3. tree' \in Trees
    BY <1>1, <1>2 DEF Trees
  <2> QED
    BY <1>1, <1>2, <2>1, <2>2, <2>3, ControlKeepsInv
<1>3. ASSUME NEW k \in Kinds, Settle(k, total - before), tree' \in Trees,
             k = "failed" => tree'.stuck
      PROVE  RemediationInv'
  <2>1. ClientType' /\ SpendStaysNearLimit' /\ BreakerShedsLoad' /\ total' = total
    BY <1>1 DEF RemediationInv, ClientType, SpendFollows, LoadFollows, SpendStaysNearLimit,
                BreakerShedsLoad, clientVars
  <2>2. total - before \in Nat /\ reported + (total - before) = total
    BY <1>1, Reporting
  <2>3. /\ outcome' \in [Results -> Kinds] /\ outcome'[cur] = k /\ pc' = "next"
        /\ reported' = reported + (total - before)
    BY <1>1, <1>3, <2>2, SettleFacts DEF RemediationInv
  <2>4. reported' = total' /\ reported' <= total' /\ reported' \in Nat
    BY <1>1, <2>1, <2>2, <2>3
  <2> QED
    BY <1>1, <1>3, <2>1, <2>3, <2>4, SettledKeepsInv
<1>4. CASE tree' = [tree EXCEPT !.stuck = TRUE] /\ Settle("failed", total - before)
  <2>1. tree' \in Trees /\ tree'.stuck
    BY <1>1, <1>4 DEF Trees
  <2> QED
    BY <1>3, <1>4, <2>1 DEF Kinds
<1>5. CASE OpenPr
  <2>1. tree' \in Trees
    BY <1>1, <1>5 DEF OpenPr
  <2>2. PICK k \in Kinds : k # "failed" /\ Settle(k, total - before)
    BY <1>5 DEF OpenPr, Kinds
  <2> QED
    BY <1>3, <2>1, <2>2
<1> QED
  BY <1>2, <1>4, <1>5 DEF PushBranch

-----------------------------------------------------------------------------
LEMMA StepKeepsInv == RemediationInv /\ [Next]_vars => RemediationInv'
<1> SUFFICES ASSUME RemediationInv, [Next]_vars PROVE RemediationInv'
  OBVIOUS
<1>1. CASE UNCHANGED vars
  <2> USE <1>1 DEF vars, clientVars, walkVars
  <2>1. ClientType' /\ WalkType'
    BY DEF RemediationInv, ClientType, WalkType, InSession
  <2>2. CostsFollow' /\ SpendFollows' /\ LoadFollows'
    BY DEF RemediationInv, CostsFollow, SpendFollows, LoadFollows, SpendStaysNearLimit,
           BreakerShedsLoad, InSession
  <2>3. GatesPassed' /\ RejectedLeavesNothing'
    BY DEF RemediationInv, GatesPassed, OnlyVerifiedLands, RejectedLeavesNothing
  <2> QED
    BY <2>1, <2>2, <2>3 DEF RemediationInv
<1>2. CASE \E v \in Verdicts : \E cost \in Costs(v), d \in Durations :
             AdviceInvocation(v, cost, d)
  BY <1>2, AdviceInvocationKeepsInv
<1>3. CASE \E v \in Verdicts : \E cost \in Costs(v), d \in Durations :
             EditInvocation(v, cost, d)
  BY <1>3, EditKeepsInv
<1>4. CASE SettleDrift \/ NextResult
  BY <1>4, DriftKeepsInv, NextResultKeepsInv
<1>5. CASE AdviceRefused \/ AdviceOverLimit \/ AdviceAdmitted
  BY <1>5, AdviceRequestKeepsInv, AdviceAdmittedKeepsInv
<1>6. CASE OpenWorktree \/ SessionRefused
  BY <1>6, OpenKeepsInv, RefusedKeepsInv
<1>7. CASE ScanTranscript \/ CheckPolicy \/ VerifyInWorktree \/ CommitWorktree
  BY <1>7, ScanKeepsInv, PolicyKeepsInv, VerifyKeepsInv, CommitKeepsInv
<1>8. CASE PushBranch \/ OpenPr
  BY <1>8, PushKeepsInv
<1> QED
  BY <1>1, <1>2, <1>3, <1>4, <1>5, <1>6, <1>7, <1>8 DEF Next, Done

(* The invariant of the remediation walk (remediate_results and            *)
(* remediate_with_claude), from which the next theorems follow.            *)
THEOREM RemediationInvariant == Spec => []RemediationInv
<1>1. Init => RemediationInv
  BY InitKeeps
<1>2. RemediationInv /\ [Next]_vars => RemediationInv'
  BY StepKeepsInv
<1> QED
  BY <1>1, <1>2, PTL DEF Spec

(* Type correctness of the walk and the client it uses.                    *)
THEOREM RemediationTypeCorrect == Spec => []RemediationTypeOK
<1>1. ASSUME RemediationInv PROVE RemediationTypeOK
  <2> USE <1>1 DEF RemediationInv
  <2>1. /\ breaker.state \in {"closed", "open", "half_open"}
        /\ breaker.failures \in 0..FailureThreshold
        /\ breaker.successes \in 0..SuccessThreshold
        /\ breaker.age \in 0..BreakerTimeout
    BY DEF ClientType, BreakerOK, Breakers, States
  <2>2. limiter \in [tokens : 0..MaxTokens, age : 0..MaxTokens]
    BY DEF ClientType, Limiters
  <2>3. {total, before, reported, whileOpen} \subseteq Nat
    BY DEF ClientType, WalkType
  <2>4. DOMAIN tree = DOMAIN NoTree /\ \A f \in DOMAIN tree : tree[f] \in BOOLEAN
    BY DEF WalkType, Trees, NoTree
  <2> QED
    BY <2>1, <2>2, <2>3, <2>4 DEF WalkType, RemediationTypeOK
<1> QED
  BY <1>1, RemediationInvariant, PTL

(* execute_with_resilience and execute_edit_session: however many results  *)
(* are remediated, the accounted spend stays below the limit plus a cent   *)
(* per retry of one request.                                               *)
THEOREM SpendBounded == Spec => []SpendStaysNearLimit
<1>1. RemediationInv => SpendStaysNearLimit
  BY DEF RemediationInv, SpendFollows
<1> QED
  BY <1>1, RemediationInvariant, PTL

(* CircuitBreaker: after it has opened, fewer invocations than one         *)
(* request's retries are started before it half-opens.                     *)
THEOREM OpenBreakerShedsLoad == Spec => []BreakerShedsLoad
<1>1. RemediationInv => BreakerShedsLoad
  BY DEF RemediationInv, LoadFollows
<1> QED
  BY <1>1, RemediationInvariant, PTL

(* remediate_with_claude: a branch kept for review holds edits of the last *)
(* session that passed the scan, the policy and the verification.          *)
THEOREM LandedIsVerified == Spec => []OnlyVerifiedLands
<1>1. RemediationInv => OnlyVerifiedLands
  BY DEF RemediationInv, GatesPassed
<1> QED
  BY <1>1, RemediationInvariant, PTL

(* The fail closure: a rejected session leaves neither worktree nor branch *)
(* unless git refused or a verified commit could not be pushed.            *)
THEOREM RejectedIsDiscarded == Spec => []RejectedLeavesNothing
<1>1. RemediationInv => RejectedLeavesNothing
  BY DEF RemediationInv
<1> QED
  BY <1>1, RemediationInvariant, PTL

(* spent_before and cost_usd: the outcomes of edit sessions report exactly *)
(* what the client accounted, those of advice never more.                  *)
THEOREM CostsAreReported == Spec => []CostsAddUp
<1>1. RemediationInv => CostsAddUp
  BY DEF RemediationInv, CostsFollow, CostsAddUp
<1> QED
  BY <1>1, RemediationInvariant, PTL

=============================================================================
