-------------------------------- MODULE Chaos ---------------------------------
(***************************************************************************)
(* The fault injection engine (ChaosEngine): a list of rules and the       *)
(* counter of injections that its pseudo-random decision is taken from.    *)
(* Probabilities are in units of 1/10000.                                  *)
(***************************************************************************)
EXTENDS Naturals, Sequences

\* count.wrapping_mul(6364136223846793005) % 10000, for the first counts.
Hash == <<0, 3005, 6010, 7399, 404, 3409, 4798, 7803, 808, 2197, 5202, 8207>>

add_rule(rules, rule) ==
    LET Other(r) == r.id # rule.id IN Append(SelectSeq(rules, Other), rule)

ShouldFail(rule, injected) ==
    /\ rule.error_probability > 0
    /\ rule.error_probability >= 10000 \/ Hash[injected + 1] < rule.error_probability

\* The first rule of the target that fails or delays decides; either counts
\* as an injection.  A probability that does not fail falls through to the
\* latency of the same rule, and a rule without one to the next rule.
check_fault(rules, injected, target) ==
    LET check[i \in 1 .. Len(rules) + 1] ==
            IF i > Len(rules) THEN [fault |-> FALSE, injected |-> injected]
            ELSE IF rules[i].target # target THEN check[i + 1]
            ELSE IF ShouldFail(rules[i], injected)
                 THEN [fault |-> TRUE, injected |-> injected + 1]
            ELSE IF rules[i].latency_ms > 0
                 THEN [fault |-> FALSE, injected |-> injected + 1]
            ELSE check[i + 1]
    IN check[1]
==============================================================================
