------------------------------- MODULE Sampler -------------------------------
(***************************************************************************)
(* Sampler::sample (src/runtime/sampler.cpp) as the set of tokens that it  *)
(* may return.  Tokens are 0..n-1 and logits integers, so always finite:   *)
(* the uniform fallback for a maximum or a sum that is not is left out.    *)
(* The penalty is 2 and the temperature 1, so logits are multiples of a    *)
(* power of two.  exp(x - max) is any mass that grows with x, is largest   *)
(* at the maximum and vanishes far below it; top_p is a fraction p/q.      *)
(***************************************************************************)
EXTENDS Integers, Sequences, FiniteSets, FiniteSetsExt

CONSTANT MassRange    \* bound: exp is 0 at and below max - MassRange

\* One occurrence of a token in the input divides or multiplies its logit.
\* Mutant: a logit that is not positive is divided as well.
penalised_once_divides(x) == x \div 2

penalised_once(x) == IF x > 0 THEN x \div 2 ELSE x * 2

Penalised(logits, input_ids) ==
    LET l[i \in 0..Len(input_ids)] ==
            IF i = 0 THEN logits
            ELSE [l[i - 1] EXCEPT ![input_ids[i]] = penalised_once(@)]
    IN l[Len(input_ids)]

Largest(f) == Max({f[t] : t \in DOMAIN f})

Mass(f) == LET m == Largest(f)
           IN [t \in DOMAIN f |-> IF m - f[t] >= MassRange THEN 0 ELSE MassRange - (m - f[t])]

Total(f) == MapThenSumSet(LAMBDA t : f[t], DOMAIN f)

\* The orders that a sort by probability may give: equals in any order.
Orders(f) == LET n == Cardinality(DOMAIN f)
             IN {o \in [1..n -> DOMAIN f] :
                    /\ \A i, j \in 1..n : o[i] = o[j] => i = j
                    /\ \A i \in 1..(n - 1) : f[o[i]] >= f[o[i + 1]]}

top_k(cfg, o) == IF cfg.top_k > 0 /\ cfg.top_k < Len(o) THEN SubSeq(o, 1, cfg.top_k) ELSE o

Cumsum(f, o, i) == LET c[j \in 0..i] == IF j = 0 THEN 0 ELSE c[j - 1] + f[o[j]] IN c[i]

\* The candidates up to the first at which the sum reaches top_p, which is
\* looked at only when it lies between 0 and 1.
nucleus(cfg, f, o) ==
    LET bound   == cfg.p * Total(f)
        reached == {i \in DOMAIN o : Cumsum(f, o, i) * cfg.q >= bound}
    IN IF cfg.p > 0 /\ cfg.p < cfg.q /\ reached # {} THEN SubSeq(o, 1, Min(reached)) ELSE o

\* Greedy takes the first.  The draw takes a candidate whose share is not
\* empty, or the last when rounding leaves the sum short.
Drawn(cfg, f, c) == IF cfg.greedy THEN {c[1]}
                    ELSE {c[i] : i \in {i \in DOMAIN c : f[c[i]] > 0}} \cup {c[Len(c)]}

sample(cfg, logits, input_ids) ==
    LET f == Mass(IF cfg.penalty THEN Penalised(logits, input_ids) ELSE logits)
    IN UNION {Drawn(cfg, f, nucleus(cfg, f, top_k(cfg, o))) : o \in Orders(f)}

-----------------------------------------------------------------------------
(* The filters by their meaning. *)

PowerOfTwo(c) == LET p[i \in 0..c] == IF i = 0 THEN 1 ELSE 2 * p[i - 1] IN p[c]

SeenTimes(t, input_ids) == Cardinality({i \in DOMAIN input_ids : input_ids[i] = t})

\* A token seen c times has its logit divided or multiplied by 2^c.
Expected(cfg, logits, input_ids) ==
    [t \in DOMAIN logits |->
        LET c == IF cfg.penalty THEN PowerOfTwo(SeenTimes(t, input_ids)) ELSE 1
        IN IF logits[t] > 0 THEN logits[t] \div c ELSE logits[t] * c]

\* A token may be returned when fewer than top_k tokens are likelier, and
\* the likelier ones do not make up top_p by themselves; greedily, when none is.
Eligible(cfg, logits, input_ids) ==
    LET f == Mass(Expected(cfg, logits, input_ids))
        likelier(t) == {u \in DOMAIN f : f[u] > f[t]}
    IN {t \in DOMAIN f :
          /\ cfg.top_k > 0 => Cardinality(likelier(t)) < cfg.top_k
          /\ cfg.p > 0 /\ cfg.p < cfg.q =>
                MapThenSumSet(LAMBDA u : f[u], likelier(t)) * cfg.q < cfg.p * Total(f)
          /\ cfg.greedy => likelier(t) = {}}
=============================================================================
