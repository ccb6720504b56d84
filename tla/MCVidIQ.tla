------------------------------- MODULE MCVidIQ -------------------------------
(* Two fetches for VidIQ, about one subject.                                    *)
EXTENDS VidIQ
CONSTANTS d1, d2, s, k1, k2, v1

MCReports == {d1, d2}
MCSeeds   == {s}
MCRelated == [x \in MCSeeds |-> <<k1, k2>>]
MCGeneric == {k1}
MCAdds    == {k2}
MCFound   == [c \in {"long", "medium"} \X {s, k1, k2} |-> IF c = <<"long", s>> THEN {v1} ELSE {}]
================================================================================
