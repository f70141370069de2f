---------------------------- MODULE AuditTrailMC ----------------------------
(* Instances of AuditTrail for TLC. *)
EXTENDS AuditTrail, TLC

CONSTANTS pool1, pool2, proxy, event, reactiveTrail, proxyTrail, eventTrail

\* The reactive manager's two pool threads share one instance; the proxy and
\* an `audit event` process have their own.
MCHome == [t \in Thread |-> CASE t \in {pool1, pool2} -> reactiveTrail
                              [] t = proxy -> proxyTrail
                              [] t = event -> eventTrail]

\* The pool threads are interchangeable.
PoolSymmetry == Permutations({pool1, pool2})
=============================================================================
