----------------------------- MODULE PipelineProofs -----------------------------
(***************************************************************************)
(* The pipeline as a whole (Pipeline): what is proved of each of its parts *)
(* by itself (RetrievalProofs, EvidenceProofs, PublishingProofs) is true   *)
(* of all of them side by side.  A step of the pipeline is a step of one   *)
(* part and leaves the others alone, so that for every part the pipeline   *)
(* behaves as the part's own specification says.                           *)
(***************************************************************************)
EXTENDS Pipeline, RetrievalProofs, EvidenceProofs, PublishingProofs

PipelineSafety == PipelineInit /\ [][PipelineNext]_pipelineVars

LEMMA PartsBegin ==
    PipelineInit => /\ RetrievalInit /\ LocalInit /\ S3Init /\ PackageInit
                    /\ ReadInit /\ PublicationInit /\ SiteInit /\ BuildInit
BY DEF PipelineInit

\* A step of the pipeline as each part sees it.
LEMMA PartsStep ==
    ASSUME [PipelineNext]_pipelineVars
    PROVE  /\ [RetrievalNext]_retrievalVars /\ [LocalNext]_localVars /\ [S3Next]_s3Vars
           /\ [PackageNext]_packageVars /\ [ReadNext]_readVars
           /\ [PublicationNext]_publicationVars /\ [SiteNext]_siteVars
           /\ [BuildNext]_buildVars
<1>1. CASE UNCHANGED pipelineVars
  BY <1>1 DEF pipelineVars
<1>2. CASE RetrievalPart
  BY <1>2 DEF RetrievalPart
<1>3. CASE LocalPart
  BY <1>3 DEF LocalPart
<1>4. CASE BucketPart
  BY <1>4 DEF BucketPart
<1>5. CASE PackagePart
  BY <1>5 DEF PackagePart
<1>6. CASE ReadPart
  BY <1>6 DEF ReadPart
<1>7. CASE PublicationPart
  BY <1>7 DEF PublicationPart
<1>8. CASE SitePart
  BY <1>8 DEF SitePart
<1>9. CASE BuildPart
  BY <1>9 DEF BuildPart
<1> QED
  BY <1>1, <1>2, <1>3, <1>4, <1>5, <1>6, <1>7, <1>8, <1>9 DEF PipelineNext

LEMMA PartsBehave ==
    PipelineSafety => /\ RetrievalSafety /\ LocalSpec /\ S3Spec /\ PackageSpec
                      /\ ReadSpec /\ PublicationSpec /\ SiteSpec /\ BuildSpec
<1>1. PipelineInit => /\ RetrievalInit /\ LocalInit /\ S3Init /\ PackageInit
                      /\ ReadInit /\ PublicationInit /\ SiteInit /\ BuildInit
  BY PartsBegin
<1>2. [PipelineNext]_pipelineVars
        => /\ [RetrievalNext]_retrievalVars /\ [LocalNext]_localVars /\ [S3Next]_s3Vars
           /\ [PackageNext]_packageVars /\ [ReadNext]_readVars
           /\ [PublicationNext]_publicationVars /\ [SiteNext]_siteVars
           /\ [BuildNext]_buildVars
  BY PartsStep
<1> QED
  BY <1>1, <1>2, PTL DEF PipelineSafety, RetrievalSafety, LocalSpec, S3Spec, PackageSpec, ReadSpec,
                         PublicationSpec, SiteSpec, BuildSpec

LEMMA PipelineIsSafe == PipelineSpec => PipelineSafety
BY PTL DEF PipelineSpec, PipelineSafety

\* From the publisher to the archive: every retrieval, however many changes, failures and
\* kills, leaves records that belong together, or none (ingestion/*_client.py).
THEOREM RetrievedAlwaysSound ==
    PipelineSpec => [](/\ QuietPublisherIsReadWhole /\ BundleBelongsTogether
                       /\ ReservoirsAreOneMoment /\ AcknowledgedReads /\ ManifestMeansReadable)
BY PipelineIsSafe, PartsBehave, QuietPublisherAlwaysReadWhole, BundleAlwaysBelongsTogether,
   ReservoirsAlwaysOneMoment, AcknowledgedAlwaysReads, ManifestAlwaysReadable, PTL

\* From the archive to what is published: what is stored stays, what is read is of one
\* snapshot, and what is published is what it names and answers as the API would
\* (evidence.py, s3_evidence.py, static_evidence.py, client.py, static_publication.py).
THEOREM KeptAlwaysSound ==
    PipelineSpec =>
        /\ [](TargetIsWhole /\ CreatorSurvives /\ UploadsAgree /\ ReplayIsPackaged)
        /\ [](ReadIsOneSnapshot /\ PinnedIsUndisturbed /\ PublishedIsWhatItNames)
        /\ [](SiteAnswersAsTheApi /\ SiteIsAccountedFor /\ NearestAreServed)
        /\ LocalImplementsArchive /\ BucketImplementsArchive
BY PipelineIsSafe, PartsBehave, TargetAlwaysWhole, AcknowledgedSurvives, UploadsAlwaysAgree,
   ReplayAlwaysPackaged, ReadAlwaysIsOneSnapshot, PinnedAlwaysUndisturbed, PublishedAlwaysNames,
   SiteAlwaysAnswersAsTheApi, SiteAlwaysAccountedFor, NearestAlwaysServed,
   WritersImplementArchive, UploadsImplementArchive, PTL

\* Builders that rename their bundle into place never mix two of them.
THEOREM BuiltAlwaysOneBundle == Method = "rename" /\ PipelineSpec => []DestinationIsOneBundle
<1> SUFFICES ASSUME Method = "rename" PROVE PipelineSpec => []DestinationIsOneBundle
  OBVIOUS
<1>1. BuildSpec => []DestinationIsOneBundle
  BY DestinationAlwaysOneBundle, PTL
<1> QED
  BY <1>1, PipelineIsSafe, PartsBehave, PTL
=============================================================================
