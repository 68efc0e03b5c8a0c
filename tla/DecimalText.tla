---------------------------- MODULE DecimalText ----------------------------
(***************************************************************************)
(* How JavaScript compares two DECIMAL(10, 2) columns that PostgreSQL's    *)
(* driver returned.  node-postgres hands a NUMERIC value over as its text  *)
(* (no type parser is registered anywhere in src/), so a comparison of two *)
(* columns is the comparison of two strings, code unit by code unit, while *)
(* a number compared with a column converts the column back to a number.   *)
(* Amounts are whole roubles: "105.00" is the digits of 105, a dot and two *)
(* zeros, and the zeros never decide a comparison.                         *)
(***************************************************************************)
EXTENDS Integers, Sequences

\* The decimal digits of n, most significant first.
Digits[n \in Nat] ==
    IF n < 10 THEN <<n>> ELSE Append(Digits[n \div 10], n % 10)

\* '.' (0x2E) sorts below every digit (0x30..0x39).
Dot == -1

\* The part of the text of an amount that can decide a comparison.
Text(n) == Append(Digits[n], Dot)

\* `a <= b` on two columns: at the first place where the texts differ, a's
\* character is the smaller one.
TextLeq(a, b) ==
    LET s == Text(a)
        t == Text(b)
    IN  \/ a = b
        \/ \E i \in DOMAIN s \cap DOMAIN t :
              /\ \A j \in 1..(i - 1) : s[j] = t[j]
              /\ s[i] < t[i]
=============================================================================
