--------------------------- MODULE MCLoadBalancer ---------------------------
(***************************************************************************)
(* Instances of LoadBalancer for TLC.  A behavior is about one state,      *)
(* chosen from Configs when it starts.                                     *)
(***************************************************************************)
EXTENDS LoadBalancer, TLC

Directive(policy, retry, interval, patience, long) ==
  [lb_policy |-> policy, lb_retries |-> retry, lb_interval |-> interval, long_urls |-> long,
   callers |-> {[lb_retries |-> retry, lb_timeout |-> patience]}]

\* Another directive hands its requests to this one's state too.
Crossed(d, retry) ==
  [d EXCEPT !.callers = @ \cup {[lb_retries |-> retry, lb_timeout |-> 0]}]

\* Both policies, no retries and one, an expired interval within reach, a crossing
\* directive without retries, and a destination whose url does not fit.
SafetyConfigs ==
  {Directive(p, n, 1, 1, {}) : p \in {"RoundRobin", "IPHash"}, n \in {0, 1}}
    \cup {Crossed(Directive("RoundRobin", 1, 0, 0, {}), 0)}
    \cup {Directive(p, 1, 0, 0, {1}) : p \in {"RoundRobin", "IPHash"}}

\* The interval covers the time a request needs for the other backend, which
\* fails after a second (round robin) or at once (ip_hash, and the requests of a
\* crossing directive).
PatientConfigs ==
  {Crossed(Directive("RoundRobin", 1, 1, 1, {}), 1), Directive("IPHash", 1, 0, 0, {})}

Symmetry == Permutations(Requests)
=============================================================================
