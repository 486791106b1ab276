------------------------------ MODULE Fractions ------------------------------
(***************************************************************************)
(* Fractions <<n, d>> in lowest terms, for code whose doubles are modelled *)
(* by the exact values they round.  d > 0, but for the two infinities.     *)
(***************************************************************************)
EXTENDS Integers

Gcd[a \in Nat, b \in Nat] == IF b = 0 THEN a ELSE Gcd[b, a % b]

Frac(n, d) == LET g == Gcd[IF n < 0 THEN -n ELSE n, d] IN <<n \div g, d \div g>>

Zero == <<0, 1>>
One == <<1, 1>>
Infinity == <<1, 0>>
MinusInfinity == <<-1, 0>>

Plus(p, q) == Frac(p[1] * q[2] + q[1] * p[2], p[2] * q[2])
Minus(p, q) == Frac(p[1] * q[2] - q[1] * p[2], p[2] * q[2])
Times(p, q) == Frac(p[1] * q[1], p[2] * q[2])
Over(p, q) == Frac(p[1] * q[2], p[2] * q[1])
Less(p, q) == p[1] * q[2] < q[1] * p[2]
Lesser(p, q) == IF Less(p, q) THEN p ELSE q
Greater(p, q) == IF Less(p, q) THEN q ELSE p

(* the two results of std::modf of a value that is not negative            *)
Floor(p) == p[1] \div p[2]
Part(p) == Frac(p[1] % p[2], p[2])
=============================================================================
