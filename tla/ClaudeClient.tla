----------------------------- MODULE ClaudeClient -----------------------------
(***************************************************************************)
(* The resilience around one Claude CLI invocation (remediation/claude.rs):*)
(* the circuit breaker, the token bucket, the interpretation of an exit,   *)
(* and the accounting of cost against the run's limit.                     *)
(*                                                                         *)
(* Money is counted in half cents: a budget is printed with two decimals,  *)
(* so an odd remainder rounds to either neighbouring cent.  Time is kept   *)
(* as ages, in the bucket's refill period, that stop growing once they no  *)
(* longer matter.  The CLI (external) never spends more than its           *)
(* --max-budget-usd, but one that times out is not killed (output() is     *)
(* dropped without kill_on_drop): what it spends is billed, and accounted  *)
(* nowhere.                                                                *)
(***************************************************************************)
EXTENDS Integers, FiniteSets, FiniteSetsExt

CONSTANTS CostLimit,         \* remediation.cost_limit_usd, in half cents
          MaxRetries,        \* RetryConfig::max_retries
          FailureThreshold,  \* of the breaker
          SuccessThreshold,
          BreakerTimeout,
          MaxTokens          \* of the rate limiter

ASSUME ClientAssumption ==
    {CostLimit, MaxRetries, FailureThreshold, SuccessThreshold, BreakerTimeout,
     MaxTokens} \subseteq Nat \ {0}

VARIABLES breaker, limiter,
          total,     \* total_cost_usd
          whileOpen  \* ghost: invocations since the breaker last opened

clientVars == <<breaker, limiter, total, whileOpen>>

MinBudget == 2   \* 0.01 USD

(* What MaxRetries invocations can add to a limit that was not yet reached. *)
SpendBound == CostLimit + MaxRetries * MinBudget
Lesser(a, b) == IF a < b THEN a ELSE b
Greater(a, b) == IF a < b THEN b ELSE a

ClientInit ==
    /\ breaker = [state |-> "closed", failures |-> 0, successes |-> 0,
                  age |-> 0]
    /\ limiter = [tokens |-> MaxTokens, age |-> 0]
    /\ total = 0 /\ whileOpen = 0

-----------------------------------------------------------------------------
(* Mutant: an open breaker lets requests through.                          *)
should_allow_always(b) == TRUE

should_allow(b) == b.state # "open" \/ b.age >= BreakerTimeout

(* The side effect of should_allow: an expired open breaker goes half-open.*)
AfterAllow(b) ==
    IF b.state = "open" /\ b.age >= BreakerTimeout
    THEN [b EXCEPT !.state = "half_open", !.successes = 0]
    ELSE b

record_success(b) ==
    CASE b.state = "closed" -> [b EXCEPT !.failures = 0]
      [] b.state = "half_open" ->
           LET n == b.successes + 1 IN
           IF n >= SuccessThreshold
           THEN [b EXCEPT !.state = "closed", !.failures = 0, !.successes = n]
           ELSE [b EXCEPT !.successes = n]
      [] b.state = "open" -> b

record_failure(b) ==
    CASE b.state = "closed" ->
           LET n == b.failures + 1 IN
           IF n >= FailureThreshold
           THEN [b EXCEPT !.state = "open", !.failures = n, !.age = 0]
           ELSE [b EXCEPT !.failures = n]
      [] b.state = "half_open" -> [b EXCEPT !.state = "open", !.age = 0]
      [] b.state = "open" -> b

(* Time passes: only the age of an open breaker is ever looked at.         *)
Aged(b, d) ==
    IF b.state = "open" THEN [b EXCEPT !.age = Lesser(@ + d, BreakerTimeout)]
    ELSE [b EXCEPT !.age = 0]

(* try_acquire: refill for the time that passed, then take one token.  A   *)
(* bucket that is empty after the refill is full enough one period later,  *)
(* long before acquire's 30 s are over, so acquire waits at most that.     *)
Acquired(l) ==
    LET refilled == Lesser(l.tokens + l.age, MaxTokens)
    IN  [tokens |-> Greater(refilled, 1) - 1, age |-> 0]
AcquireWait(l) == IF l.tokens + l.age >= 1 THEN 0 ELSE 1

Rested(l, d) == [l EXCEPT !.age = Lesser(@ + d, MaxTokens)]

(* remaining_budget, as it is printed for --max-budget-usd.                *)
Budgets ==
    LET left == Greater(CostLimit - total, MinBudget)
    IN  {2 * (left \div 2), 2 * ((left + 1) \div 2)}

-----------------------------------------------------------------------------
(* What an invocation that exited left: the envelope's is_error and its    *)
(* cap subtype, the exit status, and what stderr looks like.               *)
Exits == [is_error : BOOLEAN, cap : BOOLEAN, status_ok : BOOLEAN,
          stderr : {"rate_limit", "auth", "other"}]

interpret_run(e) ==
    CASE e.is_error -> IF e.cap THEN "CapReached" ELSE "ClaudeError"
      [] ~e.is_error /\ e.status_ok -> "Ok"
      [] OTHER -> CASE e.stderr = "rate_limit" -> "ApiError"
                    [] e.stderr = "auth" -> "ClaudeUnavailable"
                    [] e.stderr = "other" -> "ClaudeError"

(* Everything one invocation can come to.                                  *)
Interpreted == {interpret_run(e) : e \in Exits}
Verdicts == Interpreted \cup {"Timeout", "SpawnError"}

(* add_cost: every exit is accounted, a timeout or a failed spawn is not.  *)
Accounted(verdict, cost) == IF verdict \in Interpreted THEN cost ELSE 0

(* What it can have spent: nothing, a little, or its whole budget.         *)
Costs(verdict) == IF verdict = "SpawnError" THEN {0} ELSE {0, 1} \cup Budgets

(* One invocation, from bucket l, that spends cost and takes d.            *)
Invoke(verdict, cost, l, d) ==
    /\ total' = total + Accounted(verdict, cost)
    /\ limiter' = Rested(l, d)

(* An invocation started under breaker b leaves it as after, d later; an   *)
(* open b is counted.                                                      *)
BreakerAfter(b, after, d) ==
    /\ breaker' = Aged(after, d)
    /\ whileOpen' = IF b.state = "open" THEN whileOpen + 1 ELSE 0

-----------------------------------------------------------------------------
(* The spend a run accounts never passes the limit by more than one        *)
(* smallest budget per retry: the limit is checked before the first of     *)
(* MaxRetries invocations only, and every one of them is given at least    *)
(* a cent (claude.rs:567, 639).                                            *)
SpendStaysNearLimit == total < SpendBound

(* Once the breaker has opened, only the retries of the request that       *)
(* opened it are still started until its timeout has passed                *)
(* (claude.rs:47-68, 584-620).                                             *)
BreakerShedsLoad == whileOpen < MaxRetries
=============================================================================
