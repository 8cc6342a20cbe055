------------------------------- MODULE Pipeline -------------------------------
(***************************************************************************)
(* Everything of the program that moves data between a publisher, an       *)
(* evidence directory, an archive, a reader and a published directory,     *)
(* side by side.  These parts meet only through finished directories and   *)
(* through the database, so a behaviour exercises one of them, while the   *)
(* others stay as they were.                                               *)
(***************************************************************************)
EXTENDS Retrieval, LocalArchive, S3Archive, EvidencePackage, PagedRead,
        StaticPublication, StaticSite, ArtifactBuild

VARIABLE part

pipelineVars ==
    <<part, retrievalVars, localVars, s3Vars, packageVars, readVars, publicationVars, siteVars,
      buildVars>>

PipelineInit ==
    /\ part \in {"retrieval", "local", "bucket", "package", "read", "publication", "site",
                 "build"}
    \* What the parts that rest are like makes no difference.
    /\ \/ part = "retrieval"
       \/ /\ source = CHOOSE s \in Sources : TRUE
          /\ version = CHOOSE v \in DOMAIN Worlds[source] : TRUE
    /\ part = "package" \/ directory = [s \in Required |-> CHOOSE e \in Readable : TRUE]
    /\ \/ part = "read"
       \/ /\ rows = [s \in 1 .. SnapshotCount |-> {}]
          /\ kind = CHOOSE k \in Consumers : TRUE
          /\ limit = 1
    /\ part = "site" \/ contents = CHOOSE d \in Databases : TRUE
    /\ part = "publication" \/ served = [product \in Products |-> 0]
    /\ RetrievalInit /\ LocalInit /\ S3Init /\ PackageInit
    /\ ReadInit /\ PublicationInit /\ SiteInit /\ BuildInit

RetrievalPart ==
    /\ part = "retrieval" /\ RetrievalNext
    /\ UNCHANGED <<part, localVars, s3Vars, packageVars, readVars, publicationVars, siteVars,
                   buildVars>>

RetrievalPartStep == RetrievalPart /\ RetrievalStep

LocalPart ==
    /\ part = "local" /\ LocalNext
    /\ UNCHANGED <<part, retrievalVars, s3Vars, packageVars, readVars, publicationVars,
                   siteVars, buildVars>>

BucketPart ==
    /\ part = "bucket" /\ S3Next
    /\ UNCHANGED <<part, retrievalVars, localVars, packageVars, readVars, publicationVars,
                   siteVars, buildVars>>

PackagePart ==
    /\ part = "package" /\ PackageNext
    /\ UNCHANGED <<part, retrievalVars, localVars, s3Vars, readVars, publicationVars,
                   siteVars, buildVars>>

ReadPart ==
    /\ part = "read" /\ ReadNext
    /\ UNCHANGED <<part, retrievalVars, localVars, s3Vars, packageVars, publicationVars,
                   siteVars, buildVars>>

PublicationPart ==
    /\ part = "publication" /\ PublicationNext
    /\ UNCHANGED <<part, retrievalVars, localVars, s3Vars, packageVars, readVars, siteVars,
                   buildVars>>

SitePart ==
    /\ part = "site" /\ SiteNext
    /\ UNCHANGED <<part, retrievalVars, localVars, s3Vars, packageVars, readVars,
                   publicationVars, buildVars>>

BuildPart ==
    /\ part = "build" /\ BuildNext
    /\ UNCHANGED <<part, retrievalVars, localVars, s3Vars, packageVars, readVars,
                   publicationVars, siteVars>>

PipelineNext ==
    \/ RetrievalPart \/ LocalPart \/ BucketPart \/ PackagePart
    \/ ReadPart \/ PublicationPart \/ SitePart \/ BuildPart

\* Every request of a retrieval has a time limit, and the rest of it is local work.
PipelineSpec ==
    PipelineInit /\ [][PipelineNext]_pipelineVars /\ WF_retrievalVars(RetrievalPartStep)

-----------------------------------------------------------------------------
\* A retrieval ends, whatever the publisher does: every list of pages has an end, and
\* a request that fails again and again is given up (ingestion/*_client.py).
RetrievalPartEnds == part = "retrieval" => RetrievalEnds
=============================================================================
