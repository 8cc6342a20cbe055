---------------------------- MODULE EvidencePackage ----------------------------
(***************************************************************************)
(* The hand-over of evidence to the static build: package                  *)
(* (operations/static_evidence_package.py) puts one evidence directory for *)
(* each required source into one archive, extract (static_evidence.py)     *)
(* unpacks it elsewhere, replay (static_replay.py) loads it source by      *)
(* source into an empty database.  Hours pass while a package is made, so  *)
(* the directories may change under it; several commands may name the same *)
(* output; each command may fail or be killed at any step.                 *)
(***************************************************************************)
EXTENDS Integers, Sequences

CONSTANTS
    Packagers,      \* package commands with the same output
    RequiredCount,  \* REQUIRED_SOURCES are 1 .. RequiredCount, in their order
    Evidence,       \* what a directory may hold
    Readable,       \* the evidence that the reader of its source accepts
    MaxEdits,       \* bound on changes of directories behind a command's back
    Nobody          \* no packager

ASSUME EvidenceAssumption == Readable \subseteq Evidence /\ Nobody \notin Packagers

ASSUME EditsAssumption == MaxEdits \in Nat /\ RequiredCount \in Nat \ {0}

Required == 1 .. RequiredCount

VARIABLES
    directory,   \* the evidence directory of each source
    edits,       \* how often one was changed
    packagerAt,  \* where package of each command is
    summary,     \* what it has summarised: the sources of its manifest
    archive,     \* the sources in the file it writes
    closed,      \* the commands that have ended their file
    output,      \* whose file lies at the output path, or Nobody
    consumerAt,  \* where the consumer of the output is
    origin,      \* whose package lies in the destination, Nobody if there is none
    extracted,   \* the sources in the destination
    loaded       \* the sources in the database

packVars    == <<packagerAt, summary, archive, closed, output>>
consumeVars == <<consumerAt, origin, extracted, loaded>>
packageVars == <<directory, edits, packVars, consumeVars>>

PackageTypeOK ==
    /\ directory \in [Required -> Evidence]
    /\ edits \in 0 .. MaxEdits
    /\ packagerAt \in [Packagers -> {"starting", "summing", "validating", "opening", "writing",
                                     "verifying", "returned", "failed", "killed"}]
    /\ summary \in [Packagers -> Seq(Evidence)]
    /\ archive \in [Packagers -> Seq(Evidence)]
    /\ closed \subseteq Packagers
    /\ output \in Packagers \cup {Nobody}
    /\ consumerAt \in {"idle", "extracting", "ready", "replaying", "done", "killed"}
    /\ origin \in Packagers \cup {Nobody}
    /\ extracted \in Seq(Evidence)
    /\ loaded \in Seq(Evidence)

PackageInit ==
    /\ directory \in [Required -> Readable]
    /\ edits = 0
    /\ packagerAt = [p \in Packagers |-> "starting"]
    /\ summary = [p \in Packagers |-> <<>>]
    /\ archive = [p \in Packagers |-> <<>>]
    /\ closed = {}
    /\ output = Nobody
    /\ consumerAt = "idle"
    /\ origin = Nobody
    /\ extracted = <<>>
    /\ loaded = <<>>

PackagerMoves(p, from, to) ==
    /\ packagerAt[p] = from
    /\ packagerAt' = [packagerAt EXCEPT ![p] = to]
    /\ UNCHANGED <<directory, edits, consumeVars>>

-----------------------------------------------------------------------------
(* package *)

\* output.exists()
StartPackage(p) ==
    /\ PackagerMoves(p, "starting", IF output = Nobody THEN "summing" ELSE "failed")
    /\ UNCHANGED <<summary, archive, closed, output>>

\* directory_summary of the next source: sizes and checksums of every file.
Summarise(p) ==
    /\ PackagerMoves(p, "summing", "validating")
    /\ summary' = [summary EXCEPT ![p] = Append(@, directory[Len(@) + 1])]
    /\ UNCHANGED <<archive, closed, output>>

\* validate_source: the reader of the source, on what the directory holds by now.
Validate(p) ==
    /\ PackagerMoves(p, "validating",
                     IF Len(summary[p]) = RequiredCount THEN "opening" ELSE "summing")
    /\ directory[Len(summary[p])] \in Readable
    /\ UNCHANGED <<summary, archive, closed, output>>

ValidateFails(p) ==
    /\ PackagerMoves(p, "validating", "failed")
    /\ UNCHANGED <<summary, archive, closed, output>>

\* output.open("xb")
OpenOutput(p) ==
    /\ output = Nobody
    /\ PackagerMoves(p, "opening", "writing")
    /\ output' = p
    /\ UNCHANGED <<summary, archive, closed>>

\* The next source goes into the archive as its directory is now.
AddSource(p) ==
    /\ PackagerMoves(p, "writing", "writing")
    /\ Len(archive[p]) < RequiredCount
    /\ archive' = [archive EXCEPT ![p] = Append(@, directory[Len(@) + 1])]
    /\ UNCHANGED <<summary, closed, output>>

CloseArchive(p) ==
    /\ PackagerMoves(p, "writing", "verifying")
    /\ Len(archive[p]) = RequiredCount
    /\ closed' = closed \cup {p}
    /\ UNCHANGED <<summary, archive, output>>

\* validate_package_directory: the sources are those of the manifest beside them.
Matches(sources, p) == sources = summary[p]

\* Whatever lies at the output path by now is extracted and validated.
VerifyArchive(p) ==
    /\ output \in closed
    /\ Matches(archive[output], output)
    /\ PackagerMoves(p, "verifying", "returned")
    /\ UNCHANGED <<summary, archive, closed, output>>

\* An exception after the output path was to be opened, also because it exists:
\* output.unlink(missing_ok=True).
PackageFails(p) ==
    /\ \E from \in {"opening", "writing", "verifying"} : PackagerMoves(p, from, "failed")
    /\ output' = Nobody
    /\ UNCHANGED <<summary, archive, closed>>

\* SIGKILL, or an interrupt, which is no Exception: the file stays as it is.
KillPackager(p) ==
    /\ \E from \in {"summing", "validating", "opening", "writing", "verifying"} :
         PackagerMoves(p, from, "killed")
    /\ UNCHANGED <<summary, archive, closed, output>>

-----------------------------------------------------------------------------
(* extract and replay *)

ConsumerMoves(from, to) ==
    /\ consumerAt = from
    /\ consumerAt' = to
    /\ UNCHANGED <<directory, edits, packVars>>

\* destination.exists(), then the whole archive is read before anything is written.
StartExtract ==
    /\ output \in closed
    /\ ConsumerMoves("idle", "extracting")
    /\ origin' = output
    /\ UNCHANGED <<extracted, loaded>>

\* extractall: the archive stays open, whatever becomes of its path.
ExtractSource ==
    /\ consumerAt = "extracting"
    /\ Len(extracted) < RequiredCount
    /\ extracted' = Append(extracted, archive[origin][Len(extracted) + 1])
    /\ UNCHANGED <<directory, edits, packVars, consumerAt>>
    /\ UNCHANGED <<origin, loaded>>

EndExtract ==
    /\ ConsumerMoves("extracting", "ready")
    /\ Matches(extracted, origin)
    /\ UNCHANGED <<origin, extracted, loaded>>

\* An error or a mismatch: rmtree of the destination.
ExtractFails ==
    /\ ConsumerMoves("extracting", "idle")
    /\ origin' = Nobody
    /\ extracted' = <<>>
    /\ UNCHANGED loaded

\* The next command finds what is left, be it half a package.
KillConsumer ==
    /\ \E from \in {"extracting", "replaying"} : ConsumerMoves(from, "killed")
    /\ UNCHANGED <<origin, extracted, loaded>>

\* Fault: the plan is replayed as it lies there.
ReplayUnvalidated ==
    /\ \E from \in {"ready", "killed"} : ConsumerMoves(from, "replaying")
    /\ UNCHANGED <<origin, extracted, loaded>>

\* replay validates the destination again, then begins with the first source.
StartReplay ==
    /\ \E from \in {"ready", "killed"} : ConsumerMoves(from, "replaying")
    /\ Matches(extracted, origin)
    /\ UNCHANGED <<origin, extracted, loaded>>

\* refresh: the reader of the source again, then its loader.
LoadSource ==
    /\ consumerAt = "replaying"
    /\ Len(loaded) < Len(extracted)
    /\ LET evidence == extracted[Len(loaded) + 1] IN
         /\ evidence \in Readable
         /\ loaded' = Append(loaded, evidence)
    /\ UNCHANGED <<directory, edits, packVars, consumerAt>>
    /\ UNCHANGED <<origin, extracted>>

EndReplay ==
    /\ ConsumerMoves("replaying", "done")
    /\ Len(loaded) = Len(extracted)
    /\ UNCHANGED <<origin, extracted, loaded>>

\* A source is refused, or its refresh fails: the replay stops there.
ReplayFails ==
    /\ ConsumerMoves("replaying", "ready")
    /\ UNCHANGED <<origin, extracted, loaded>>

-----------------------------------------------------------------------------
\* Somebody writes into an evidence directory, or into the destination as long as
\* nothing of it is loaded.
Edit ==
    /\ edits < MaxEdits
    /\ edits' = edits + 1
    /\ \E s \in Required, e \in Evidence :
         \/ /\ directory' = [directory EXCEPT ![s] = e]
            /\ UNCHANGED extracted
         \/ /\ consumerAt \in {"ready", "killed"} /\ s <= Len(extracted) /\ loaded = <<>>
            /\ extracted' = [extracted EXCEPT ![s] = e]
            /\ UNCHANGED directory
    /\ UNCHANGED <<packVars, consumerAt, origin, loaded>>

PackagerStep(p) ==
    \/ StartPackage(p) \/ Summarise(p) \/ Validate(p) \/ ValidateFails(p) \/ OpenOutput(p)
    \/ AddSource(p) \/ CloseArchive(p) \/ VerifyArchive(p) \/ PackageFails(p) \/ KillPackager(p)

ConsumerStep ==
    \/ StartExtract \/ ExtractSource \/ EndExtract \/ ExtractFails \/ KillConsumer
    \/ StartReplay \/ LoadSource \/ EndReplay \/ ReplayFails

PackageNext == (\E p \in Packagers : PackagerStep(p)) \/ ConsumerStep \/ Edit

PackageSpec == PackageInit /\ [][PackageNext]_packageVars

-----------------------------------------------------------------------------
(* Safety. *)

\* What the static build loads is what one packager has summarised, source by
\* source, each accepted by its reader; a replay that ends has loaded them all,
\* although the directories may change during packaging, the package may be
\* extracted by halves or edited, and a replay may be killed and run again.
ReplayIsPackaged ==
    /\ \A s \in 1 .. Len(loaded) : loaded[s] = summary[origin][s] /\ loaded[s] \in Readable
    /\ consumerAt = "done" => Len(loaded) = RequiredCount

\* "The command rejects missing, duplicate or unknown sources, symlinks, changed
\* checksums and unsafe output overwrite" (docs/deployment/zero-cost-static-preview.md,
\* lines 22-23): the archive of a command that has reported it stays where it is.
ReportedPackageStays == \A p \in Packagers : packagerAt[p] = "returned" => output # Nobody
=============================================================================
