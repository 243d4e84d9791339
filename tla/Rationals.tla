------------------------------- MODULE Rationals -------------------------------
(***************************************************************************)
(* Exact rationals: pairs <<n, d>> in lowest terms, with d > 0.            *)
(***************************************************************************)
EXTENDS Integers

Gcd[p \in Nat \X Nat] == IF p[2] = 0 THEN p[1] ELSE Gcd[<<p[2], p[1] % p[2]>>]

Size(n) == IF n < 0 THEN -n ELSE n

Rational == {q \in Int \X (Nat \ {0}) : Gcd[<<Size(q[1]), q[2]>>] = 1}

(* n / d, for d # 0.                                                       *)
Rat(n, d) ==
  LET g == Gcd[<<Size(n), Size(d)>>]
  IN  IF d < 0 THEN <<(-n) \div g, (-d) \div g>> ELSE <<n \div g, d \div g>>

Negate(a)   == <<-a[1], a[2]>>
Plus(a, b)  == Rat(a[1] * b[2] + b[1] * a[2], a[2] * b[2])
Minus(a, b) == Plus(a, Negate(b))
Times(a, b) == Rat(a[1] * b[1], a[2] * b[2])
Over(a, b)  == Rat(a[1] * b[2], a[2] * b[1])
Absolute(a) == <<Size(a[1]), a[2]>>
Less(a, b)   == a[1] * b[2] < b[1] * a[2]
AtMost(a, b) == ~Less(b, a)
Lesser(a, b)  == IF Less(a, b) THEN a ELSE b
Greater(a, b) == IF Less(b, a) THEN a ELSE b
==============================================================================
