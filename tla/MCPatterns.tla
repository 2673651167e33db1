------------------------------ MODULE MCPatterns ------------------------------
(* Small instances of PatternText and, below it, PatternScan for TLC. *)
EXTENDS PatternText

MCLengths == 1 .. 4
MCSizes == 1 .. 7

\* Two bytes made of a digit and a letter, one of them with its digits reversed.
MCDigits == [c \in {"4", "C"} |-> IF c = "4" THEN 4 ELSE 12]
MCWritten == {<<"4", "C">>, <<"C", "4">>}
MCBytes == {4 * 16 + 12, 12 * 16 + 4}
==============================================================================
