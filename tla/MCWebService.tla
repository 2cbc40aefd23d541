----------------------------- MODULE MCWebService -----------------------------
(* Small instances of the web service.                                     *)
EXTENDS WebService

CONSTANTS r1, r2, r3, r4, example, source, huge, ann

Keys == {example, source, huge}
OneExample == {example}
OneHuge == {huge}

(* Ann alone, asking three times for one uncached source.                  *)
Three == {r1, r2, r3}
ThreeKeys == [r \in Three |-> source]
ThreeUsers == [r \in Three |-> ann]

(* A source and its repetition, one too large, and an example.             *)
Four == {r1, r2, r3, r4}
FourKeys == [r \in Four |-> IF r = r3 THEN huge ELSE IF r = r4 THEN example ELSE source]
FourUsers == [r \in Four |-> ann]
JustAnn == {ann}
=============================================================================
