------------------------------- MODULE AirText -------------------------------
(***************************************************************************)
(* The characters of scripts, and the numbers written with them, for the    *)
(* lexers of scripts and of lambdas.                                       *)
(***************************************************************************)
EXTENDS Naturals, Sequences

Digits == {"0", "1", "2", "3", "4", "5", "6", "7", "8", "9"}
Letters == {"a", "b", "c", "d", "e", "f", "g", "h", "i", "j", "k", "l", "m", "n", "o", "p", "q",
            "r", "s", "t", "u", "v", "w", "x", "y", "z",
            "A", "B", "C", "D", "E", "F", "G", "H", "I", "J", "K", "L", "M", "N", "O", "P", "Q",
            "R", "S", "T", "U", "V", "W", "X", "Y", "Z"}
is_air_alphanumeric == Letters \cup Digits \cup {"_", "-"}

------------------------------------------------------------------------------
(* Numbers, as texts: TLC's integers are too narrow for them. *)

U32Max == <<"4", "2", "9", "4", "9", "6", "7", "2", "9", "5">>

DigitValue(d) == CASE d = "0" -> 0 [] d = "1" -> 1 [] d = "2" -> 2 [] d = "3" -> 3 [] d = "4" -> 4
                   [] d = "5" -> 5 [] d = "6" -> 6 [] d = "7" -> 7 [] d = "8" -> 8 [] d = "9" -> 9

NoLeadingZeros(n) ==
    IF \A i \in DOMAIN n : n[i] = "0" THEN <<"0">>
    ELSE SubSeq(n, CHOOSE i \in DOMAIN n : n[i] # "0" /\ \A j \in 1..(i - 1) : n[j] = "0", Len(n))

\* parse::<u32> and parse::<i64> refuse what is above the largest value of the type.
AtMost(n, max) ==
    LET m == NoLeadingZeros(n)
        differ == {i \in DOMAIN m : m[i] # max[i]}
    IN  \/ Len(m) < Len(max)
        \/ /\ Len(m) = Len(max)
           /\ \/ m = max
              \/ LET i == CHOOSE j \in differ : \A k \in differ : j <= k
                 IN  DigitValue(m[i]) < DigitValue(max[i])
=============================================================================
