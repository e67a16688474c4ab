--------------------------- MODULE MCRetryBudget ---------------------------
EXTENDS RetryBudget

OneBackend ==
  {[lb_policy |-> "RoundRobin", lb_retries |-> 2, lb_interval |-> 1, long_urls |-> {},
    callers |-> {[lb_retries |-> 2, lb_timeout |-> 0]}]}
=============================================================================
