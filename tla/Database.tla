------------------------------- MODULE Database -------------------------------
(***************************************************************************)
(* The two families of loaders on one database: the national products and  *)
(* everything else.  They share neither tables nor lock keys, so a         *)
(* behaviour exercises one family, while the other's tables stay empty.    *)
(***************************************************************************)
EXTENDS NationalPublication, SnapshotLoads

VARIABLE part

databaseVars == <<part, vars, loadsVars>>

DatabaseInit ==
    /\ part \in {"national", "loads", "damaged"}
    \* What the jobs of a family that rests would load makes no difference.
    /\ part = "national" \/ bundle = [j \in Jobs |-> CHOOSE b \in Bundles : TRUE]
    /\ Init /\ LoadsInit

NationalPart == part = "national" /\ Next /\ UNCHANGED <<part, loadsVars>>

\* A report does not read what damage alters, so a behaviour has one or the other.
LoadsPart == part = "loads" /\ LoadsNext /\ UNCHANGED <<part, vars, altered>>

DamagedPart == part = "damaged" /\ LoadsNext /\ UNCHANGED <<part, vars, reportVars>>

DatabaseNext == NationalPart \/ LoadsPart \/ DamagedPart

DatabaseSpec == DatabaseInit /\ [][DatabaseNext]_databaseVars
=============================================================================
