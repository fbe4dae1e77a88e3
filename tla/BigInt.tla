------------------------------- MODULE BigInt -------------------------------
(***************************************************************************)
(* The numbers of srp.go: how they travel as byte strings, least           *)
(* significant digit first (the model's digits are bits), and the modular  *)
(* power of math/big.                                                      *)
(***************************************************************************)
EXTENDS Integers, Sequences

\* itoa: reversed and padded to length l.
Itoa(i, l) == [j \in 1..l |-> (i \div 2^(j - 1)) % 2]

Atoi(b) ==
  LET sum[j \in 0..Len(b)] == IF j = 0 THEN 0 ELSE sum[j - 1] + b[j] * 2^(j - 1)
  IN sum[Len(b)]

\* big.Int.Exp
Exp(x, y, m) ==
  LET power[i \in 0..y] == IF i = 0 THEN 1 % m ELSE (power[i - 1] * x) % m
  IN power[y]
=============================================================================
