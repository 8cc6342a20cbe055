------------------------------ MODULE MCExplorer ------------------------------
(* Instances of Explorer for TLC. *)
EXTENDS Explorer

\* One company has three areas, on two pages, which are others in the second
\* snapshot; the other company has one.
CompanyAreasIn(c, s) ==
    IF c = "anglian" THEN IF s = 1 THEN <<1, 2, 3>> ELSE <<1, 3, 4>>
    ELSE <<5>>

\* Two pages of Water Bodies, one of which is another in the second snapshot.
BodiesIn(s) == IF s = 1 THEN <<1, 2, 4>> ELSE <<1, 3, 4>>
=============================================================================
