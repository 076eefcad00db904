------------------------------ MODULE MC_Project ------------------------------
(***************************************************************************)
(* Project over a two-column source schema.  The projection lists are     *)
(* every single string of up to four characters and every list of two     *)
(* strings of up to two characters, over '$', a sign, a blank, a letter   *)
(* and the digits 0 and 1.  INT_MAX is 10, so "$11" overflows and "$-11"  *)
(* is INT_MIN.                                                             *)
(***************************************************************************)
EXTENDS Project

CONSTANTS int, str, v1, v2

MCChars == {"$", "-", "+", " ", "x", "0", "1"}

MCSrcSchema == [c \in 0..1 |-> IF c = 0 THEN int ELSE str]

MCProjections ==
    {<<s>> : s \in SeqOf(MCChars, 4)} \cup SeqOf(SeqOf(MCChars, 2), 2)

=============================================================================
