--------------------------- MODULE MCAvailability ---------------------------
(* Small instances of Availability for TLC. *)
EXTENDS Availability

\* One region is nearest to the last warehouse, the other in between two.
MCDistances == [TX |-> <<2, 1, 0>>, CO |-> <<3, 1, 1>>]

\* A client may write it in small letters.
MCUpper(region) == IF region = "co" THEN "CO" ELSE region
=============================================================================
