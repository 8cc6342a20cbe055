------------------------------- MODULE MCDatabase ----------------------------------
(* Instances of Database for TLC. *)
EXTENDS Database, TLC

CONSTANTS h1, h2, h3, y1, w1, w2, o1, k1, r1, t1,   \* contents
          ma, mb                                    \* a measure, a sampling point

ContentSet == {h1, h2, h3, y1, w1, w2, o1, k1, r1, t1}

SourceDef ==
    [c \in ContentSet |->
        CASE c \in {h1, h2, h3} -> "hydrology"
          [] c \in {w1, w2} -> "water-quality"
          [] c = y1 -> "hydrology-history"
          [] c = o1 -> "observations"
          [] c = k1 -> "catchments"
          [] c = r1 -> "stream-reservoir-levels"
          [] c = t1 -> "thames-discharge-status"]

\* A complete, a slightly and a much less complete hydrology content.
LocatedDef == [c \in ContentSet |-> CASE c = h2 -> 99 [] c \in {h3, w2} -> 98 [] OTHER -> 100]

\* Only h2 has the measure, and only w2 the sampling point.
MembersDef == [c \in ContentSet |-> CASE c = h2 -> {ma} [] c = w2 -> {mb} [] OTHER -> {}]

ParentDef == y1 :> ma @@ o1 :> mb

\* h2 wins over the others when the times are equal.
UuidDef ==
    [c \in ContentSet |->
        CASE c = h1 -> 4 [] c = h2 -> 9 [] c = h3 -> 2 [] c = y1 -> 1 [] c = w1 -> 3
          [] c = w2 -> 8 [] c = o1 -> 5 [] c = k1 -> 6 [] c = r1 -> 7 [] c = t1 -> 10]

LoadBundle(c, t) == [content |-> c, completed |-> t]

\* h1 and h3 were retrieved twice, h2 and h3 once at the same time.
BundleSet ==
    {LoadBundle(c, 1) : c \in ContentSet \ {h2, h3}}
      \cup {LoadBundle(h2, 2), LoadBundle(h3, 2), LoadBundle(h1, 3), LoadBundle(h3, 4)}

\* Each group permutes one constant; a state has only one family that uses any of them.
DatabaseSymmetry == UNION {Permutations(S) : S \in {Sources, Contents, Loaders}}
=============================================================================
