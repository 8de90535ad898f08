---------------------------- MODULE MCDigestTally ----------------------------
(***************************************************************************)
(* An instance of DigestTally for TLC: the program is installed on an ordinary *)
(* day and on the last days of a month, of a year and of a century.           *)
(***************************************************************************)
EXTENDS DigestTally

MCStarts ==
    {[y |-> y, m |-> 2, d |-> 28] : y \in {1970, 2000, 2024, 2100}} \cup
    {[y |-> y, m |-> 12, d |-> 31] : y \in {1999, 2023, 2399}}
=============================================================================
