# Verification of WaterGeo-UK

WaterGeo-UK collects open water data (hydrology, water quality, catchments, supply
areas, reservoirs, storm discharges, national products), keeps the evidence of every
retrieval, publishes immutable snapshots in PostgreSQL and serves them over HTTP, as
exports, as a static site and in a web explorer. This directory holds TLA+ modules of
the parts in which several processes, failures or orders of events matter, the TLC
configurations that check small instances, and TLAPS proofs for every value of the
constants.

All paths below are relative to the repository.

## 1. Inventory

| component | state it keeps | operations | interacts with |
|---|---|---|---|
| refresh worker (`src/watergeo/operations/refresh.py`: `source_lock`, `assert_lock`, `refresh`, `_worker`) | session advisory lock of the source, evidence directory, exit code | take lock, fetch, validate, archive, assert lock, load, unlock, discard session | PostgreSQL (two connections), evidence store, publisher, supervisor's signals |
| refresh supervisor (`refresh.py`: `supervise`, `main`) | worker process, signal handlers, exit status | start, wait until the deadline, terminate, kill, reap | worker (signals, exit code), scheduler (exit status) |
| retrieval clients (`src/watergeo/ingestion/*_client.py`) | bodies on disk, requests answered so far, manifest written last | request with retries, page, walk a hierarchy, complete, read back | publisher, which may change between two answers |
| normalisers (`ingestion/*.py`) | none | accept or refuse the records of one bundle | retrieval clients, loaders |
| evidence stores (`evidence.py`) | content-addressed bundles on a file system or in a versioned bucket | persist, verify | refresh worker, operators' retries |
| snapshot loaders (`db/*_ingestion.py`) | snapshot and child rows, insert-only | look up, verify existing rows, compare with the newest, insert | one transaction lock per source; history and observations need rows of other sources |
| national loader (`db/phase15_ingestion.py`, `db/phase15.py`) | content rows and one retrieval row per accepted check | look up, insert, record retrieval, serve the newest | one transaction lock for all national sources |
| status report (`db/source_status.py`) | none | one REPEATABLE READ report over all sources | reads all tables while loads commit |
| paged reads (`client/client.py`, `exports.py`, `static_publication.py`: `pages`) | cursor, pinned snapshot, limits | first page, next page, verify | API routes, publications in between |
| static publication (`static_publication.py`: `build_publication`) | what has been collected, the snapshot of each product | ask for product after product, then for the source status, write one manifest | API, publications in between |
| contents of a static site (`static_publication.py`, `web/src/staticData.ts`) | the files, the report of their size | check the lists against each other, write, size the report; answer the explorer's requests from the files | the API's queries (`db/water_supply.py`, `db/phase15.py`), whose answers they stand for |
| artifact builders (`exports.py`, `static_publication.py`) | temporary directory, destination | write files, put in place, clean up | other builders of the same destination |
| evidence package (`operations/static_evidence_package.py`, `static_evidence.py`, `static_replay.py`) | archive under construction, output, extracted directory, loaded sources | package, extract, replay | evidence directories, other package commands, refresh jobs |
| web explorer (`web/src`) | place, layers, search, selected feature, company, Water Body, map canvas, pending requests | move, toggle, search, choose, open, page, restore a shared link | HTTP API or static files, publications in between, the basemap |
| Ofwat boundary pipeline (`ingestion/ofwat_*.py`), company performance, presentation assessment | none, or output files | pure conversion and validation | retrieval clients, loaders |
| operations scripts (demo, smoke test, production database, preflight, bucket, CA), migrations, CLI, HTTP routes | roles and grants, schema, none | run once, or one call each | everything above |

Behaviours that are hard to test:

- signals between any two steps of the worker, also between the server's grant of the
  lock and the assignment that records it, and during the clean-up;
- connections that break while the server goes on; a COMMIT whose answer is lost;
- a supervisor that was killed, whose worker goes on beside its successor;
- a publisher that changes between two requests of one retrieval; a process that dies,
  or a power failure, between a body and its manifest;
- several writers of one archive bundle, builders of one directory or package commands
  with one output, of which one fails half-way;
- bundles loaded out of order, or twice, or by two processes under different locks;
- a publication between two page requests, two products, or two queries of a report;
- answers in the explorer that arrive after a later request was made;
- two implementations of the same pages, joins and filters, in SQL and over files;
- a report that states the size of the bundle it belongs to, at a power of ten.

`PROJECT.json` lists each hazard with its line and the properties that catch it.

What makes the components correct, in a sentence each:

- worker: evidence is durable before anything is published, rejected evidence never
  gets in, and an exit code never claims more than is true;
- supervisor: a job always ends, and leaves neither a running worker nor a locked source;
- retrievals: they end; what can be read belongs together, and is all a quiet publisher has;
- stores: a bundle is there whole or not at all, and acknowledged only when it is there;
- loaders: one snapshot for a content, what was decided still holds at the insert, and
  no child without its parent;
- readers: everything comes from one snapshot, without gap or repetition, or the read
  is refused; a publication holds what its manifest names;
- static site: it answers as the API would, leaves out nothing, and states its own size;
- builders and packages: a destination is one builder's whole bundle, and a replay loads
  only what was summarised;
- explorer: what is shown belongs to the latest decision, and to one snapshot.

## 2. Modules

An `MC...` module holds what only TLC needs (symmetry, concrete functions). An operator
marked "Fault:" is not used by the specification: it is a plausible mistake in the
operation below it, with which the property aimed at it is seen to fail.

| module | models | state |
|---|---|---|
| `RefreshWorker` | `refresh.py` lines 79-340 and the transaction of a loader | `worker` (program counter), `code`, `acquired`, `bundle`; `lockHolder`, `dropped` (the server's view of the lock sessions); `tx`, `snapshots`; `accepted`, `rejected` (the archive) |
| `RefreshJob` (EXTENDS it) | `supervise`, `main` | `supervisor`, `status` |
| `SnapshotStore` | abstract: archive, then publish once, then report | `archived`, `published`, `reported` |
| `Retrieval` (EXTENDS `Normalisers`) | the fetch functions and readers of eleven sources, request by request | `source`, `version` (what the publisher serves), `retrievalAt`, `attempt`, `entries` (requests with their bodies), `manifest`, `lost` |
| `Normalisers` | what the normalisers accept, source by source | none: predicates on the records of a bundle |
| `LocalArchive` | `LocalEvidenceStore.persist` by several processes on a POSIX file system | `writerAt`, `pending` (a writer's staging directory), `target`, `unsynced` (entries not on disk), `creator`, `acks`, `losses` |
| `S3Archive` | `S3EvidenceStore.persist` with conditional puts and read-backs | `bucket`, `body`, `readBack`, `uploaderAt`, `item`, `restarts` |
| `EvidenceArchive` | abstract: whole or nothing, acknowledged only when stored | `stored`, `acknowledged` |
| `NationalPublication` | `phase15_ingestion.load_snapshot`, what `db/phase15.py` serves | `pc`, `lock`, `identity`, `draft` (uncommitted), `snapshots`, `retrievals`, `damaged`, `miscounted` |
| `LatestProduct` | abstract: the newest accepted check of each source is served | `served` |
| `SnapshotLoads` | the seven other loaders and `source_status.source_statuses` | `loaderAt`, `loading`, `compared` (statements behind a comparison), `found` (ghost: what was altered at the look-up), `stored`, `altered` (tables of contents); `view`, `report` |
| `OrderedRows` | ORDER BY and LIMIT over identifiers | none |
| `PagedRead` (EXTENDS it) | five consumers of keyset pages | `rows`, `latest`, `pinned`, `cursor`, `batch`, `collected`, ... |
| `StaticPublication` | the requests of `build_publication` in their order | `served`, `used` (what was collected, with its snapshot), `statuses`, `publisher` |
| `StaticSite` (EXTENDS `OrderedRows`) | what the API answers about pages, near points, companies, their areas and floods; the files `build_publication` makes of it and its checks; the size in the report; the same answers by `staticData.ts` | `contents` (the database), `siteAt`, `site` (the files), `report` |
| `ArtifactBuild` | the life of an output directory | `builderAt`, `built`, `destination` |
| `EvidencePackage` | `package`, `extract`, `replay` | `directory`, `packagerAt`, `summary`, `archive`, `closed`, `output`; `consumerAt`, `origin`, `loaded` |
| `ExplorerServer` | what the explorer asks: an API or static files whose snapshot moves on | `server`, `mode` |
| `NearbyLayers` | `useNearby.ts`, the restoration of a shared link in `App.tsx` | `flights` (generations under way), `shown`, `provenance`, `pin`, `restore`, ... |
| `Selection` | `SearchBox.tsx`, opening of results, areas at a point, `FeatureDrilldown.tsx` | `searching`, `choosing`, `looking`, `decided`, `selected` (with the snapshot of each part), `asking`, `detail`, ... |
| `CompanyAreas` | `CompanyExplorer.tsx` and what `App.tsx` shows of it | `boundary` (requests of a company), `companyAreas`, `performing`, `performance`, ... |
| `WaterBodies` | `WaterBodyBrowser.tsx`, over `api.ts` or `staticData.ts` | `generation`, `calls`, `items`, `more`, `body`, the static assets |
| `MapCanvas` | `MapView.tsx`, `OverviewControl.tsx` | `style`, `installed`, `revision`, `features`, `focus`, `geometry`, `drawn`, `focusMoves`, `moves`, ... |

Compositions:

- `RefreshJob`'s actions are the worker's actions with the supervisor unchanged, the
  supervisor's own, and the joint ones (starting the process, delivering a signal,
  SIGKILL).
- `Database` puts the two families of loaders side by side, `Pipeline` everything that
  moves data between a publisher, directories, archives and readers, and `Explorer` the
  parts of the web explorer over one source (`ExplorerServer`). The members of
  `Database` and `Pipeline` share neither tables and lock keys nor files while they are
  at work; the parts of `Explorer` share the source, which moves on under all of them.
  The variable `part` therefore picks one member of a composition for a behaviour, and
  the others stay as they were (in `Database` the loaders of `SnapshotLoads` once beside
  reports and once beside damage, which no report reads): this checks the members together without multiplying
  state spaces that do not interact. Those that do interact (workers on one lock, loaders
  of one source and of its parent, package commands on one output, a read and the
  publications in its midst) are interleaved inside one module.
- The loader in `RefreshWorker` is the general shape of all; `NationalPublication` and
  `SnapshotLoads` have the particular loaders in detail, with several jobs that hold no
  session lock at all, since the commands of `cli.py` call the loaders directly.

How the modules correspond to the code:

- **Steps.** What only computes is one step. Every statement that another process can
  observe, or can disturb, is a step of its own: `TryLock` is the server's grant and
  `EnterBody` the assignment `acquired = True`, because a signal fits in between;
  `InsertRows` sends COMMIT and `ServerCommits` executes it, because the connection may
  break in between. In the loaders of `SnapshotLoads` the look-up, the decision and the
  insert with its commit are three steps; what an open transaction has inserted is
  visible to nobody, so insert and commit need not be told apart there. The comparison
  with an existing content is one step for each statement, since every statement of a
  READ COMMITTED transaction sees what is committed when it starts. In `Retrieval`
  a step is one answer; in the explorer it is one event of the user, one timer or one
  promise that settles, with the React effects that run before the next one.
- **Data.** A bundle is the run that fetched it and the content it normalises to. Counts,
  hashes and columns of stored rows become a bit, whether they are still those that
  were loaded: one for a national snapshot (`damaged`), one for each table of the other
  contents, and one more for the columns that no comparison reads (`altered`). In `Retrieval` a record keeps what relates it to
  other records (identities, references, codes, windows, totals), and one flag,
  `reviewed`, for the checks of a record alone. In the explorer an answer is the snapshot
  it comes from, and an identity where lists are joined; what the browser takes an answer
  to be of is its `Label`, which two static files do not carry. Located features are a
  percentage. Names, wording, logging and timestamps other than the retrieval time are
  left out.
- **Next request.** In `Retrieval` the next request of a source is a function of the
  answers so far, as in its fetch function; the same function ends the retrieval or
  refuses it.
- **Answers.** In `StaticSite` a query is the set of rows it gives, a page is that set
  and the next cursor. A point has a distance for the database (on the spheroid) and one
  for `staticData.ts` (on a sphere): each list of near points is judged by its own.
- **Environment.** Signals, SIGKILL, broken sessions, statement failures, power failures,
  changes behind the program's back, publications by others and the publisher's changes
  are actions that may happen at any step. They are marked external in `PROJECT.json`.

## 3. Runs

| run | shows | bounds |
|---|---|---|
| `refresh_worker` | evidence before publication, rejected evidence stays out, exclusion up to a dropped session, lock freed on every exit, implements `SnapshotStore` | two jobs; two valid contents and an invalid one |
| `refresh_job` | documented exit statuses are truthful; a returned supervisor has reaped its worker | two jobs with supervisors, one content |
| `refresh_liveness` | `SourceFreed`: a job ends, and its lock and its transaction come free, although its worker may hang anywhere | one job |
| `second_interrupt` | *violation*: see the findings | one job |
| `database` | national products: `PublicationStands` (a published check or a newer one is served, snapshots and retrievals come in pairs, no content is inserted twice), implements `LatestProduct`. Other loaders: served completeness never drops by more than a point, children have parents, `existing` is answered only for tables that were intact when looked up, the report is one cut | three national loads of two sources, contents and times, one damage; two loaders, three loads out of a dozen bundles of seven sources, one damaged table |
| `national_existing` | *violation*: see the findings | two loads of one content |
| `pipeline` | retrievals: a quiet publisher is read whole, bundles belong together, reservoirs are one moment, acknowledged bundles can be read, a manifest of Thames Water means a readable bundle, every retrieval ends. Archives: the target is whole, what survives a power failure, uploads agree, both implement `EvidenceArchive`. Replays load what was packaged. Reads: one snapshot, complete when they return, a list that just fits is read. A publication is what it names. A static site answers as the API, accounts for everything it publishes and states its own size; near lists hold the nearest. An export is one builder's bundle | eleven sources, two pages of two records, three or four versions of the publisher's data with two changes; three local writers of two files (one nested) and a power failure; two uploaders with two retries; lists without pages of up to and beyond the limit of three; two packagers, two sources, one edit; lists of up to four entities in pages of up to two, two snapshots; two snapshots of each product; for the site some eight hundred contents (below); three builders |
| `artifact_publication` | *violation*: see the findings | two builders |
| `evidence_package` | *violation*: see the findings | two package commands |
| `explorer` | nearby layers are current and never switch snapshot, a selection is of one snapshot, the last choice wins, companies are shown whole, Water Body lists are consecutive, the map shows the page's state and its camera has followed | two snapshots, an API or static files, two places, two layers, two stations, three choices, two companies with two pages, four acts in the Water Body browser, four changes of the map |
| `explorer_static_browse` | *violation*: see the findings | a static publication |
| `explorer_shared_body` | *violation*: see the findings | a shared link to a Water Body |

Why the bounds are enough: a conflict is between two actors, and a third one adds only
who comes next (three writers, builders and national loads are checked where a third can
meet what two left behind). Two contents tell "the same" from "another"; an invalid one
makes the rejecting path reachable. Two times and identities in both orders give newer,
older and equal retrievals. Page and record limits are reached exactly and exceeded by
one. The versions of a publisher's data are chosen so that a change adds, removes and
moves a record across a page border, breaks a reference and relabels a code; two changes
allow a state to come back (A, B, A). For the other loaders three loads suffice for each
property's shortest violation: a parent, its child and a reader; a baseline, a competitor
and a loser. In the explorer two requests race and a third event comes between them; two
snapshots tell old from new. The contents of a static site have lists that end inside, at
the end of and behind the last of three pages of two, areas without a company or a label,
one that cannot be drawn, companies whose areas lie on different pages or exceed what the
API draws at once, flood areas with and without warnings, near points with equal
distances and with other neighbours on the sphere than on the spheroid, and bytes around
9 990: there the report gains a digit and its truth value a letter. Symmetry is used only
over interchangeable processes or values, in runs without liveness properties.

Where a cfg says `CHECK_DEADLOCK FALSE` the system really stops: a retrieval that is
finished or dead, loaders that have done their calls, a user who does nothing more.

In `SnapshotLoads` the identity of a snapshot is a constant function of its content:
each content is stored at most once, so this is one of the possible outcomes of `uuid4`;
the instance has a tie in the retrieval time in which the identity decides.

Some properties stop where the code does:

- `QuietPublisherIsReadWhole` is about rainfall stations and readings, flood warnings and
  Thames Water sites only where they fit the limit they are asked for with
  (`phase15_client.py`, lines 214-217 and 260, `thames_discharge.py`): nobody looks whether
  the list was cut there, and a cut one is published as if it were whole. Bathing waters
  name a next page when they are cut and are refused (`phase15_sources.py`, line 383).
- `ExistingWasVerified` is about what the statements of a comparison read: not the times
  and the window of a retrieval, nor the geometry of a Thames Water site
  (`thames_discharge_ingestion.py`, lines 41-51; that of a stream reservoir is not read
  either, but a CHECK of migration 0009 ties it to the coordinates, which are). It speaks
  of the moment of the look-up: an alteration behind the statement that has read its
  table is not noticed.
- `SelectionIsOneSnapshot` is about answers that say what snapshot they are of. On a
  static publication the geometry of a Water Body and the flood areas do not (section 6).
- `LastChoiceWins` compares the decisions made in one way (search, areas at a point, map):
  those of two ways have no common order in the code.
- `MapShowsState` says that a selection has moved the camera, not that it does so once
  (section 6).

`PublishedIsWhatItNames` leaves out the geometries of the water-supply areas: the code
reads them one by one and compares their snapshot with nothing
(`static_publication.py`, lines 644-648), which is recorded as a hazard.

## 4. Fairness

`FairJobSpec` (`RefreshJob`): the worker has none, since a fetch may hang and a signal
may be held up in a system call. Weak fairness is assumed of

- the supervisor's steps: its loop polls with a timeout, and each `join` has one;
- the kernel's delivery of SIGKILL to a worker that the supervisor has killed;
- the server's end of the sessions of a dead client, as TCP and PostgreSQL provide it.

`SourceFreed` joins `JobEnds`, `LockFreed` and `TransactionEnds`. They say "unless the
supervisor was killed, or left by a second signal" where that is the case: nobody else
stops a hanging worker.

`PipelineSpec`: weak fairness of a retrieval's own steps (`RetrievalStep`: an answer, a
failed attempt, the manifest), because each request has a time limit and the rest is
local work. The publisher, kills and power failures have none. `RetrievalPartEnds` is
then about the loops of the clients: attempts, pages and hierarchies all have an end.

The explorer has no fairness and no liveness property: an answer may never come.

## 5. Proofs

Eight modules hold theorems, which TLAPS checks for every set of processes, contents and
files, every publisher's data and every bound. Every safety property that a passing run
checks is proved, the three refinements (`SnapshotStore`, `LatestProduct`,
`EvidenceArchive` twice) included; for one of them (`DestinationIsOneBundle`) the
hypothesis is `Method = "rename"`, since the run `artifact_publication` shows that it
fails otherwise.

The assumptions are those named in the modules:

- constants are sets and naturals, null values are not among the values, times and
  identities are naturals, different contents have different identities;
- limits and page sizes are positive where a client could not work otherwise
  (`LimitsAssumption`, `RetrievalAssumption`, `PagesAssumption`);
- `WorldsAssumption`: what a publisher serves as lists are sequences, the links of a
  catchment are finitely many, times can be compared, and the description of a code, which
  is asked for by its name, has that name. This last one is the only thing assumed of a
  publisher that the client does not check;
- `DatabasesAssumption`: identifiers are naturals and tables are finite;
- `SizesAssumption`: a site is smaller than ten thousand million bytes, and the search for
  the report's size has ten attempts, as in the code. In larger sites the last attempt is
  not proved to suffice.

The proofs, module by module:

- `RefreshWorkerProofs`: `Spec => []WorkerInv`, from it the safety properties of the run,
  and that every step is a step of `SnapshotStore` or a stutter
  (`WorkersImplementStore`). No safety property is inductive by itself: that a snapshot
  has archived evidence needs to know that a worker which is loading has archived its
  bundle (`EvidenceInv`), that the look-up still holds needs that two transactions are
  never open together (`TxInv`), that a truthful 0 survives the clean-up needs that the
  code is 0 only after the commit or the verification (`CodeInv`), and exclusion needs to
  know who can hold the lock (`LockInv`).
- `RefreshJobProofs`, on top of it: exit statuses are truthful (`StatusAlwaysTruthful`)
  and a returned supervisor has reaped its worker (`ReturnReaps`). The worker's invariant
  says nothing about exit code 3; `FreshInv` adds what a job that never got the lock has
  left behind, `StatusInv` ties the status to a worker that has ended.
- `DatabaseProofs`: for the national products `PublicationInv`, `PublicationStands` and
  the refinement of `LatestProduct` (`JobsServeLatest`). What readers are served is a
  maximum; that it exists is kept as an invariant (`ServedInv`), since the new retrieval
  either becomes the newest or leaves the old one. The same case distinction gives the
  refinement: a commit maps to `Accept` of its check, or to a stutter. For the other
  loaders: children have parents, the report is one cut, `existing` is answered after a
  whole comparison (`CompareInv`: nothing that the statements so far have read was altered
  at the look-up, and together they read every table, `EveryPartIsRead`), and served
  completeness. A load's decision still holds at its insert because one
  load of a source is open at a time (`SourceLockInv`), and what it has seen of another
  source only grows (`ParentInv`); the newest snapshot is unique because the order on
  snapshots is total (`HasNewest`).
- `EvidenceProofs`: the local store (the target is whole, what a creator has acknowledged
  survives; `StagingInv` says what a writer brings to its rename, `PoweredInv` who has
  made the target, `CreatorInv` that a creator which goes on has been on the same power
  since), the bucket (uploads agree; `Progress` says that an uploader has read back every
  object it has come past), the refinement of `EvidenceArchive` by both, and the package
  (a replay loads what was packaged; `ClosedInv`, `OriginInv` and `ReplayInv` carry the
  content from hand to hand).
- `RetrievalProofs`: all five properties of retrievals, for the eleven sources.
  `RetrievalInv` says that the next request follows from the answers so far; `AnswersInv`
  that each answer is what some version of the publisher says, that versions only move
  on, and that answers with no change between them are of one version. The properties
  then follow from reading the answers: what an acknowledged bundle contains is what its
  reader accepts (`AcknowledgedAlwaysReads`), every reference is answered inside the
  bundle (`BundleAlwaysBelongsTogether`), and if no change fell between the answers,
  pages, hierarchies and archives together give the publisher's whole list, or, where a
  list is one response with a limit, all of one that fits (`QuietPublisherAlwaysReadWhole`).
- `PublishingProofs`: output directories (with a rename, one builder's whole bundle that is
  never changed; the proof does not use the builder's look at its start, which is stale,
  only that a rename refuses a directory with files); the requests of a static publication
  (`PublishedInv`: a product has one named snapshot from its first answer on, and what is
  compared agrees with it); paged reads (`ReadInv`: what has been taken, followed by the
  rest of the page, is the beginning of the snapshot's list, and the cursor is where the
  rest begins); and the contents of a static site. There `SiteInv` says that the files are
  made of complete lists. The slice of an ascending list after a cursor is the query's page
  (`PageAgrees`); the check of all the counts makes each company's list whole and leaves no
  area out (`CompleteLists`); and the search for the report's size ends, because each
  attempt that does not settle it states more than the one before, while the digits and the
  truth value can only take six to fifteen bytes (`ReportInv`).
- `ExplorerProofs`, over the composition in which the parts share one source:
  `NearbyInv` (one generation of requests, for the present place; a pinned layer shows its
  pin), `SelectionInv` (what is under way is the latest decision of its way, and the details
  under way are those of the feature shown),
  `CompanyInv` (everything shown and under way is for the selected company), `BodiesInv`
  (the list is a beginning of one snapshot's list, and the request that counts continues
  it) and `MapInv` (a canvas with its sources is up to date, and has moved to what is
  selected).
- `PipelineProofs`, with the end of `DatabaseProofs`: the same of the compositions. A step
  of the composition is a step of one part and a stutter of the others, so that the
  composition implements each part's specification, and what was proved of it carries over.

`WorkerInv` and `PublicationInv` were runs' invariants before they were proved; now only
their consequences are checked by TLC as well.

What a sorted list, a page loop or a chain of answers contains needs induction over its
length. It is done by the least-number principle, stated once as a fact about sets of
numbers (`Induction` in `RetrievalProofs`), where the operator form of the library cannot
be used.

Only model-checked:

- liveness, `SourceFreed` and `RetrievalPartEnds`, and ENABLED: out of the provers' reach.
  Termination of a retrieval under fairness would also need a measure over data;
- the runs that expect a violation;
- the choices of an instance that are not assumptions, such as the publishers' data in
  `MCPipeline`.

## 6. Findings

- `second_interrupt`: a signal that arrives in the `finally` clause of `supervise` before
  both handlers are replaced skips termination and reaping, which the comment above those
  two lines excludes.
- `national_existing`: the national loader accepts an existing snapshot by its identity
  and stored counts; the guide says that retries verify stored content. The seven loaders
  of `SnapshotLoads` do (`ExistingWasVerified`).
- `artifact_publication`: `shutil.move` puts a second static publication inside one that
  has appeared meanwhile, and reports success; the ADR says that unsafe overwrite fails.
- `evidence_package`: of two package commands with one output, the one that finds it
  taken when it opens it deletes it in its error path, also when the other has already
  reported it; the deployment guide says that unsafe overwrite is rejected.
- `explorer_static_browse`: on a static publication no choice from the Rivers &
  Catchments list can be displayed, since the browser compares the list's snapshot with a
  label that the static source copies from the request, which names none.
- `explorer_shared_body`: the effect that restores a shared Water Body is cancelled by a
  change of the nearby state and never asks again; nothing is shown or reported, where
  the design says that restoration degrades visibly.

Met while modelling, without a run of its own:

- `iter_water_supply_areas` does not pin its snapshot and refuses a read during which one
  is published, where `docs/architecture/phase-5-http-contract.md` lines 50-51 say that
  iterators pin. A hazard.
- The geometries of water-supply areas, see section 3. A hazard.
- Lists cut at their limit without notice, and columns that no comparison of an existing
  snapshot reads: section 3. Hazards.
- On a static publication the snapshot of a Water Body's geometry is the one that was
  asked for (`staticData.ts` line 307), so that `openSearchResult` (`App.tsx` lines
  423-430) compares it with itself; flood areas take theirs from the manifest beside them
  (lines 216-234). A redeployment between the two fetches shows the geometry of another
  publication. A hazard.
- The effect that moves the camera to a selection names the style's revision, the area and
  the Water Body (`MapView.tsx` line 521): a fallback style moves the camera to the
  selection again, wherever the user has moved it since.
  `docs/design/explorer-navigation.md` lines 53-56 speak of one fit for a selected area.
  A hazard.
- The near routes of rainfall stations and bathing waters order by identifier
  (`db/phase15.py` lines 155 and 204), so that their LIMIT may leave out the nearest;
  `docs/guides/explorer-data-interpretation.md` line 36 says that nearby layers show the
  nearest 100. `NearestAreServed` is about the four other products and the static site; the
  query of the two is `NationalNear`, with which it fails. A hazard.
- On a static publication the filters of storm discharge lists (`App.tsx` line 603) are
  not looked at by `boundedPage` in `staticData.ts`, several detail routes answer 501, and
  the search index uses directory names as kinds. Neither the snapshot nor `warnings_only`
  of a flood request is looked at; `filterFloods` then shows the same rows, which is part
  of `SiteAnswersAsTheApi`.
- The API refuses to draw a company with more than `MAX_COMPANY_AREAS` areas, or one whose
  answer is too large; the static site draws it. The property compares the two where the
  API answers.
- In `staticData.ts` a request for an asset that failed stays cached, so that it is not
  repeated.

## 7. Not modelled

- The Ofwat boundary pipeline (`ingestion/ofwat_*.py`), the presentation assessment and
  the company workbook: geometry and numbers in one process, without state or another
  actor. Their results enter the models as evidence.
- The public artifact: a sequential check and copy of a finished publication.
- Demo bootstrap, refresh and smoke test: scripts that call modelled jobs one after the
  other, or only send requests.
- Production database, preflight, specification, evidence bucket, CA, migrations: run
  once by one administrator, or read configuration and keep nothing. The keys and foreign
  keys the loaders rely on are guards and invariants of the loader modules.
- Command line, configuration, logging, HTTP routes: one call each; parameter checks.
- Finer steps of modelled parts: `Discard` frees the server's lock with the client's
  close, which the server notices a little later (a later end of a session is covered by
  the worker that is killed and whose session lives on); `StartProcess` is one step, so a
  signal inside `process.start()` is not considered; a directory is not edited while it is
  replayed, though `static_replay.py` lines 31-45 read it again after the validation; of a
  shared link every kind is taken to be restored or reported, while the code never restores
  points of the rainfall, bathing and flood layers (`App.tsx` lines 211-213), passes over an
  invalid supply identity (182), and shows the error of a supply area only with its layer
  on (670); a company without a crosswalk has no performance answer to show.
- Within modelled parts: checks of one record alone (units, ranges, names, geometry
  validity), contents of stored rows beyond whether they are intact, encodings of
  exported files, search index, analytics columns and company-performance files of the
  static publication, ages and freshness thresholds and the four national rows of the
  status report, full-text and spatial search, rendering and URL encoding in the explorer
  (the acronym in the URL of a company included), the size limit of a company's drawing,
  pacing of requests. Deadlines are events that may happen at any time.

## 8. Plan

Done: refresh worker, supervisor and liveness; evidence stores; national publication;
snapshot loaders and status report; retrievals and the reference checks of the
normalisers; paged reads, output directories, static publication and the contents of a
static site, evidence packages and replay; the web explorer; proofs of every safety
property that a passing run checks, and of the compositions.

Left, in this order: the selections of the explorer shared between its parts (a search
while nearby layers change) in one behaviour; the resumable progress of the demo bootstrap
over `RefreshJob`; the national rows of the status report; the static search index against
the API's search.
