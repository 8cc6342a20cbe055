----------------------------- MODULE ArtifactBuild -----------------------------
(***************************************************************************)
(* Builders of one output directory: build_export and build_thames_export  *)
(* (exports.py), which end with a rename, and build_publication            *)
(* (static_publication.py), which ends with shutil.move.  Each builder     *)
(* looks for the destination first, works for minutes in a temporary       *)
(* directory beside it, and publishes all files at once.  A builder may    *)
(* fail or be killed at any step.                                          *)
(***************************************************************************)
EXTENDS Integers, FiniteSets

CONSTANTS
    Builders,  \* processes that build the same destination
    PartCount, \* files of a bundle before its manifest
    Method     \* how a bundle is put into place

ASSUME PartAssumption == PartCount \in Nat

ASSUME MethodAssumption == Method \in {"rename", "move"}

\* The files of a bundle; the last one is the manifest.
Parts == 1 .. PartCount + 1

\* A file of a builder, at the top of the directory or in a bundle moved below it.
BuiltFiles == [builder : Builders, part : Parts, nested : BOOLEAN]

VARIABLES
    builderAt,  \* where each builder is
    built,      \* the parts in each builder's temporary directory
    destination \* the files at the destination, {} if it does not exist

buildVars == <<builderAt, built, destination>>

BuildTypeOK ==
    /\ builderAt \in [Builders -> {"starting", "building", "returned", "failed", "killed"}]
    /\ built \in [Builders -> SUBSET Parts]
    /\ destination \subseteq BuiltFiles

BuildInit ==
    /\ builderAt = [b \in Builders |-> "starting"]
    /\ built = [b \in Builders |-> {}]
    /\ destination = {}

BuilderMoves(b, from, to) ==
    /\ builderAt[b] = from
    /\ builderAt' = [builderAt EXCEPT ![b] = to]

\* destination.exists()
StartBuild(b) ==
    /\ BuilderMoves(b, "starting", IF destination = {} THEN "building" ELSE "failed")
    /\ UNCHANGED <<built, destination>>

\* The next file; the manifest when all others are there.
WriteFile(b) ==
    /\ builderAt[b] = "building"
    /\ \E part \in Parts \ built[b] :
         /\ part = PartCount + 1 => built[b] = 1 .. PartCount
         /\ built' = [built EXCEPT ![b] = @ \cup {part}]
    /\ UNCHANGED <<builderAt, destination>>

Bundle(b, nested) == [builder : {b}, part : built[b], nested : {nested}]

\* Fault: the bundle is published before its manifest is written.
PutInPlaceUnfinished(b) ==
    /\ built[b] # {}
    /\ BuilderMoves(b, "building", "returned")
    /\ destination = {}
    /\ destination' = Bundle(b, FALSE)
    /\ built' = [built EXCEPT ![b] = {}]

\* Path.rename fails on a directory that has entries; shutil.move puts the bundle
\* into a directory that has appeared in the meantime, unless one of its name is
\* there already.
PutInPlace(b) ==
    /\ built[b] = Parts
    /\ BuilderMoves(b, "building", "returned")
    /\ destination = {} \/ (Method = "move" /\ \A f \in destination : ~f.nested)
    /\ destination' = destination \cup Bundle(b, destination # {})
    /\ built' = [built EXCEPT ![b] = {}]

\* An error, also that of the rename; the temporary directory is removed.
FailBuild(b) ==
    /\ BuilderMoves(b, "building", "failed")
    /\ built' = [built EXCEPT ![b] = {}]
    /\ UNCHANGED destination

\* SIGKILL leaves the temporary directory behind.
KillBuild(b) ==
    /\ BuilderMoves(b, "building", "killed")
    /\ UNCHANGED <<built, destination>>

BuildersDone ==
    /\ \A b \in Builders : builderAt[b] \in {"returned", "failed", "killed"}
    /\ UNCHANGED buildVars

BuildNext ==
    \/ \E b \in Builders :
         StartBuild(b) \/ WriteFile(b) \/ PutInPlace(b) \/ FailBuild(b) \/ KillBuild(b)
    \/ BuildersDone

BuildSpec == BuildInit /\ [][BuildNext]_buildVars

-----------------------------------------------------------------------------
(* Safety. *)

\* Whoever finds the destination finds the whole bundle of one builder and nothing
\* else, and a builder that has returned is that builder ("Publish a new directory
\* only after all files succeed; never replace existing exports", exports.py,
\* build_export).
DestinationIsOneBundle ==
    \/ destination = {} /\ \A b \in Builders : builderAt[b] # "returned"
    \/ \E b \in Builders :
         /\ destination = [builder : {b}, part : Parts, nested : {FALSE}]
         /\ \A c \in Builders \ {b} : builderAt[c] # "returned"

\* "Static publication fails closed on missing provenance, snapshot changes or unsafe
\* overwrite" (docs/adr/0015-national-products-and-static-publication.md, line 9): a
\* publication that is there is never changed.
PublicationIsImmutable == [][destination # {} => destination' = destination]_buildVars
=============================================================================
