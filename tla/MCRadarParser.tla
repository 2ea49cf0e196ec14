--------------------------- MODULE MCRadarParser ---------------------------
(* Instances of RadarParser for TLC: the two low bits of each byte.        *)
EXTENDS RadarParser, Bitwise, Folds

XorOfBytes == [p \in [1 .. PayloadLength -> Bytes] |->
          MapThenFoldSet(^^, 0, LAMBDA i : p[i],
                         LAMBDA S : CHOOSE i \in S : TRUE, 1 .. PayloadLength)]
=============================================================================
