--------------------------- MODULE MCPlaybackClock ---------------------------
(* A device at 18 against codecs at 2, 3, 6, 12, 16 and 18: up by 9, 6, 3, *)
(* 3/2 and 9/8, the last beyond what the filter is made for, and by none.  *)
EXTENDS PlaybackClock

(* gcd(), which the constructor divides both rates by.                     *)
gcd[a \in 0 .. 18, b \in 0 .. 18] == IF b = 0 THEN a ELSE gcd[b, a % b]

Rates == {2, 3, 6, 12, 16, 18}
MCRatioOf == [r \in Rates |-> <<18 \div gcd[r, 18], r \div gcd[r, 18]>>]
=============================================================================
