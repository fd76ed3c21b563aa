-------------------------------- MODULE GF256 --------------------------------
(***************************************************************************)
(* The field GF(2^8) as crypto/src/snapshot_defense.rs computes in it.     *)
(***************************************************************************)
EXTENDS Naturals, Bitwise

gf_add(a, b) == a ^^ b

GF_POLY == 29

\* A byte shifted left, reduced when a bit falls out.
Shifted(a) == IF a >= 128 THEN ((2 * a) % 256) ^^ GF_POLY ELSE 2 * a

\* The loop's variables p, a and b after i rounds, and p at its end.
gf_mul(a, b) ==
    LET round[i \in 0..8] ==
            IF i = 0 THEN [p |-> 0, a |-> a, b |-> b]
            ELSE LET s == round[i - 1] IN
                 [p |-> IF s.b % 2 = 1 THEN s.p ^^ s.a ELSE s.p,
                  a |-> Shifted(s.a), b |-> s.b \div 2]
    IN  round[8].p

\* What the search of gf_inv finds for each byte: 0 has no inverse.
Inverses ==
    [a \in 0..255 |->
        IF \E i \in 1..255 : gf_mul(a, i) = 1
        THEN CHOOSE i \in 1..255 : gf_mul(a, i) = 1
        ELSE 0]

gf_inv(a) == Inverses[a]

gf_div(a, b) == gf_mul(a, gf_inv(b))
=============================================================================
