--------------------------- MODULE PublishingProofs ---------------------------
(***************************************************************************)
(* Proofs about what is published: the destination of a builder            *)
(* (ArtifactBuild), the contents of the static publication                 *)
(* (StaticPublication) and the paged reads they come from (PagedRead).     *)
(***************************************************************************)
EXTENDS ArtifactBuild, StaticPublication, PagedRead, StaticSite, FiniteSetTheorems,
        SequenceTheorems, TLAPS

-----------------------------------------------------------------------------
(***************************************************************************)
(* ArtifactBuild, for any number of builders and files.                    *)
(*                                                                         *)
(* Builders take no lock, and the look at the destination with which each  *)
(* of them starts is stale when it puts its bundle into place.  The proof  *)
(* does not use it: what keeps the destination whole is that a rename      *)
(* fails on a directory that has files, which is the only use of the       *)
(* hypothesis Method = "rename".                                           *)
(***************************************************************************)

USE DEF buildVars, BuilderMoves

BuildInv == BuildTypeOK /\ DestinationIsOneBundle

LEMMA BuildInitial == BuildInit => BuildInv
BY DEF BuildInit, BuildInv, BuildTypeOK, DestinationIsOneBundle, BuiltFiles, Parts

\* A step that leaves the destination alone, and with which no builder returns.
LEMMA DestinationStays ==
    ASSUME BuildInv, destination' = destination,
           \A b \in Builders : builderAt'[b] = "returned" => builderAt[b] = "returned"
    PROVE  DestinationIsOneBundle'
BY DEF BuildInv, DestinationIsOneBundle

LEMMA BuilderKeeps ==
    ASSUME BuildInv, NEW b \in Builders,
           StartBuild(b) \/ WriteFile(b) \/ FailBuild(b) \/ KillBuild(b)
    PROVE  BuildInv'
<1> USE DEF BuildInv, BuildTypeOK
<1>1. BuildTypeOK'
  <2>1. CASE StartBuild(b) \/ FailBuild(b) \/ KillBuild(b)
    BY <2>1 DEF StartBuild, FailBuild, KillBuild
  <2>2. CASE WriteFile(b)
    BY <2>2 DEF WriteFile
  <2> QED
    BY <2>1, <2>2
<1>2. destination' = destination
  BY DEF StartBuild, WriteFile, FailBuild, KillBuild
<1>3. \A c \in Builders : builderAt'[c] = "returned" => builderAt[c] = "returned"
  BY DEF StartBuild, WriteFile, FailBuild, KillBuild
<1> QED
  BY <1>1, <1>2, <1>3, DestinationStays

LEMMA PutKeeps ==
    ASSUME BuildInv, Method = "rename", NEW b \in Builders, PutInPlace(b)
    PROVE  BuildInv'
<1> USE DEF PutInPlace
<1>1. destination = {} /\ built[b] = Parts
  OBVIOUS
<1>2. destination' = [builder : {b}, part : Parts, nested : {FALSE}]
  BY <1>1 DEF Bundle
<1>3. BuildTypeOK'
  <2>1. destination' \subseteq BuiltFiles
    BY <1>2 DEF BuiltFiles
  <2> QED
    BY <2>1 DEF BuildInv, BuildTypeOK
<1>4. \A c \in Builders \ {b} : builderAt'[c] # "returned"
  <2>1. \A c \in Builders : builderAt[c] # "returned"
    <3>1. \A c \in Builders : [builder |-> c, part |-> PartCount + 1, nested |-> FALSE]
                                \in [builder : {c}, part : Parts, nested : {FALSE}]
      BY PartAssumption DEF Parts
    <3> QED
      BY <1>1, <3>1 DEF BuildInv, DestinationIsOneBundle
  <2> QED
    BY <2>1 DEF BuildInv, BuildTypeOK
<1> QED
  BY <1>2, <1>3, <1>4 DEF BuildInv, DestinationIsOneBundle

LEMMA BuildStep ==
    ASSUME BuildInv, Method = "rename", [BuildNext]_buildVars
    PROVE  BuildInv'
<1>1. CASE UNCHANGED buildVars
  BY <1>1 DEF BuildInv, BuildTypeOK, DestinationIsOneBundle
<1>2. CASE BuildersDone
  BY <1>1, <1>2 DEF BuildersDone
<1>3. ASSUME NEW b \in Builders,
             StartBuild(b) \/ WriteFile(b) \/ PutInPlace(b) \/ FailBuild(b) \/ KillBuild(b)
      PROVE  BuildInv'
  BY <1>3, BuilderKeeps, PutKeeps
<1> QED
  BY <1>1, <1>2, <1>3 DEF BuildNext

-----------------------------------------------------------------------------
\* Exports: whoever finds the destination finds the whole bundle of one builder,
\* and only that builder has returned, however many have worked for it.
THEOREM DestinationAlwaysOneBundle ==
    Method = "rename" /\ BuildSpec => []DestinationIsOneBundle
<1> SUFFICES ASSUME Method = "rename" PROVE BuildSpec => []DestinationIsOneBundle
  OBVIOUS
<1>1. BuildInv /\ [BuildNext]_buildVars => BuildInv'
  BY BuildStep
<1>2. BuildInv => DestinationIsOneBundle
  BY DEF BuildInv
<1> QED
  BY <1>1, <1>2, BuildInitial, PTL DEF BuildSpec

\* Exports: what is there is never changed, neither by a rename nor by the removal of
\* a temporary directory.
THEOREM RenameIsImmutable == Method = "rename" /\ BuildSpec => PublicationIsImmutable
<1> SUFFICES ASSUME Method = "rename" PROVE BuildSpec => PublicationIsImmutable
  OBVIOUS
<1>1. ASSUME [BuildNext]_buildVars, destination # {}
      PROVE  destination' = destination
  BY <1>1 DEF BuildNext, BuildersDone, StartBuild, WriteFile, PutInPlace, FailBuild, KillBuild
<1>2. [BuildNext]_buildVars =>
        [destination # {} => destination' = destination]_buildVars
  BY <1>1
<1> QED
  BY <1>2, PTL DEF BuildSpec, PublicationIsImmutable

HIDE DEF buildVars, BuilderMoves

-----------------------------------------------------------------------------
(***************************************************************************)
(* StaticPublication, for any number of snapshots.                         *)
(*                                                                         *)
(* What is named can be told from where the builder is: a product has one  *)
(* named snapshot from its first request on and none before (NamedInv).    *)
(* Snapshots only grow, so the status read last cannot be older            *)
(* (NotNewer).                                                             *)
(***************************************************************************)

FirstAsked(n, product) == Script[n].product = product /\ Script[n].ask = "first"

\* A product has been begun when its first request has been answered.
Begun(product, before) == \E n \in 1 .. before - 1 : FirstAsked(n, product)

NamedInv ==
    \A product \in Products :
        /\ Begun(product, step) => \E snapshot \in 1 .. MaxSnapshots : Named(product) = {snapshot}
        /\ ~ Begun(product, step) => Named(product) = {}

NotNewer == \A u \in used : u.snapshot <= served[u.product]

CheckedInv == \A u \in Checked : u.snapshot \in Named(u.product)

StatusInv ==
    /\ statuses # <<>> =>
         /\ step = Len(Script) + 1
         /\ \A u \in used : u.snapshot <= statuses[u.product]
    /\ publisher = "published" => statuses # <<>>

PublishedInv == PublicationTypeOK /\ NamedInv /\ NotNewer /\ CheckedInv /\ StatusInv

-----------------------------------------------------------------------------
(* The script: every product has one first request, before its others, and *)
(* only first requests are for a first page or a dataset.                   *)

LEMMA ScriptLength == Len(Script) = 15
BY DEF Script

LEMMA ScriptTable ==
    /\ Script[1].product = "points" /\ Script[1].part = "first page" /\ Script[1].ask = "first"
    /\ Script[2].product = "points" /\ Script[2].part = "pages" /\ Script[2].ask = "pinned"
    /\ Script[3].product = "catchments" /\ Script[3].part = "first page" /\ Script[3].ask = "first"
    /\ Script[4].product = "catchments" /\ Script[4].part = "pages" /\ Script[4].ask = "pinned"
    /\ Script[5].product = "catchments" /\ Script[5].part = "geometries" /\ Script[5].ask = "pinned"
    /\ Script[6].product = "flood-warnings" /\ Script[6].part = "dataset" /\ Script[6].ask = "first"
    /\ Script[7].product = "flood-warnings" /\ Script[7].part = "areas" /\ Script[7].ask = "pinned"
    /\ Script[8].product = "company-performance" /\ Script[8].part = "dataset"
       /\ Script[8].ask = "first"
    /\ Script[9].product = "company-performance" /\ Script[9].part = "companies"
       /\ Script[9].ask = "pinned"
    /\ Script[10].product = "company-performance" /\ Script[10].part = "details"
       /\ Script[10].ask = "pinned"
    /\ Script[11].product = "water-supply" /\ Script[11].part = "dataset"
       /\ Script[11].ask = "first"
    /\ Script[12].product = "water-supply" /\ Script[12].part = "areas"
       /\ Script[12].ask = "compared"
    /\ Script[13].product = "water-supply" /\ Script[13].part = "companies"
       /\ Script[13].ask = "pinned"
    /\ Script[14].product = "water-supply" /\ Script[14].part = "company areas"
       /\ Script[14].ask = "pinned"
    /\ Script[15].product = "water-supply" /\ Script[15].part = "geometries"
       /\ Script[15].ask = "unchecked"
BY DEF Script, Request

LEMMA ScriptRange ==
    ASSUME NEW n \in 1 .. Len(Script)
    PROVE  n \in {1, 2, 3, 4, 5, 6, 7, 8, 9, 10, 11, 12, 13, 14, 15}
<1>1. n \in 1 .. 15
  BY ScriptLength
<1> QED
  BY <1>1

\* The first requests, and the products they begin.
LEMMA ScriptFirsts ==
    /\ \A n \in 1 .. Len(Script) : Script[n].ask = "first" => n \in {1, 3, 6, 8, 11}
    /\ FirstAsked(1, "points") /\ FirstAsked(3, "catchments") /\ FirstAsked(6, "flood-warnings")
    /\ FirstAsked(8, "company-performance") /\ FirstAsked(11, "water-supply")
<1>1. \A n \in 1 .. Len(Script) : Script[n].ask = "first" => n \in {1, 3, 6, 8, 11}
  BY ScriptTable, ScriptRange
<1>2. /\ FirstAsked(1, "points") /\ FirstAsked(3, "catchments") /\ FirstAsked(6, "flood-warnings")
      /\ FirstAsked(8, "company-performance") /\ FirstAsked(11, "water-supply")
  BY DEF FirstAsked, Script, Request
<1> QED
  BY <1>1, <1>2

LEMMA ProductNames ==
    ASSUME NEW product \in Products
    PROVE  product \in {"points", "catchments", "flood-warnings", "company-performance",
                        "water-supply"}
<1>1. PICK n \in 1 .. Len(Script) : product = Script[n].product
  BY DEF Products
<1>2. CASE n \in {1, 2, 3, 4, 5}
  BY <1>1, <1>2, ScriptTable
<1>3. CASE n \in {6, 7, 8, 9, 10}
  BY <1>1, <1>3, ScriptTable
<1>4. CASE n \in {11, 12, 13, 14, 15}
  BY <1>1, <1>4, ScriptTable
<1> QED
  BY <1>2, <1>3, <1>4, ScriptRange

LEMMA FirstRequests ==
    ASSUME NEW n \in 1 .. Len(Script)
    PROVE  /\ Script[n].ask = "first" => Script[n].part \in {"first page", "dataset"}
           /\ Script[n].part \in {"first page", "dataset"} => Script[n].ask = "first"
<1>1. Script[n].ask = "first" => Script[n].part \in {"first page", "dataset"}
  BY ScriptTable, ScriptRange
<1>2. Script[n].part \in {"first page", "dataset"} => Script[n].ask = "first"
  BY ScriptTable, ScriptRange
<1> QED
  BY <1>1, <1>2

LEMMA UncheckedRequests ==
    ASSUME NEW n \in 1 .. Len(Script), Script[n].ask = "unchecked"
    PROVE  Script[n].product = "water-supply" /\ Script[n].part = "geometries"
BY ScriptTable, ScriptRange

LEMMA FirstIsUnique ==
    ASSUME NEW product, NEW m \in 1 .. Len(Script), NEW n \in 1 .. Len(Script),
           FirstAsked(m, product), FirstAsked(n, product)
    PROVE  m = n
<1>1. m \in {1, 3, 6, 8, 11} /\ n \in {1, 3, 6, 8, 11}
  BY ScriptFirsts DEF FirstAsked
<1>2. Script[m].product = Script[n].product
  BY DEF FirstAsked
<1> QED
  BY <1>1, <1>2, ScriptFirsts DEF FirstAsked

\* At the end of the script every product has been begun.
LEMMA AllBegun == ASSUME NEW product \in Products PROVE Begun(product, Len(Script) + 1)
<1>1. \E n \in {1, 3, 6, 8, 11} : FirstAsked(n, product)
  BY ProductNames, ScriptFirsts
<1>2. 1 .. Len(Script) + 1 - 1 = 1 .. 15
  BY ScriptLength
<1> QED
  BY <1>1, <1>2 DEF Begun

-----------------------------------------------------------------------------
NamedIn(uses, product) ==
    {u.snapshot : u \in {v \in uses : v.product = product /\
                                     v.part \in {"first page", "dataset"}}}

\* Another row names a snapshot of its product, if it comes from a first request.
LEMMA NamedSame ==
    ASSUME NEW uses, NEW new, NEW product,
           new.product # product \/ new.part \notin {"first page", "dataset"}
    PROVE  NamedIn(uses \cup {new}, product) = NamedIn(uses, product)
<1> DEFINE Of(some) == {v \in some : v.product = product /\ v.part \in {"first page", "dataset"}}
<1>1. Of(uses \cup {new}) = Of(uses)
  OBVIOUS
<1> QED
  BY <1>1 DEF NamedIn

LEMMA NamedAlso ==
    ASSUME NEW uses, NEW new, NEW product,
           new.product = product, new.part \in {"first page", "dataset"}
    PROVE  NamedIn(uses \cup {new}, product) = NamedIn(uses, product) \cup {new.snapshot}
<1> DEFINE Of(some) == {v \in some : v.product = product /\ v.part \in {"first page", "dataset"}}
<1>1. Of(uses \cup {new}) = Of(uses) \cup {new}
  OBVIOUS
<1> QED
  BY <1>1 DEF NamedIn

LEMMA PublishedInit == PublicationInit => PublishedInv
<1> SUFFICES ASSUME PublicationInit PROVE PublishedInv
  OBVIOUS
<1> USE DEF PublicationInit
<1>1. PublicationTypeOK
  BY SnapshotsAssumption, ScriptLength DEF PublicationTypeOK
<1>2. NamedInv
  <2>1. \A product : ~ Begun(product, step)
    BY DEF Begun
  <2> QED
    BY <2>1 DEF NamedInv, Named
<1>3. NotNewer /\ CheckedInv /\ StatusInv
  BY DEF NotNewer, CheckedInv, Checked, StatusInv
<1> QED
  BY <1>1, <1>2, <1>3 DEF PublishedInv

\* What any answer does: the parts of it that do not depend on the kind of request.
LEMMA CollectTypes ==
    ASSUME PublishedInv, publisher = "reading", step <= Len(Script),
           NEW snapshot \in 1 .. MaxSnapshots, Collect(Script[step], snapshot),
           snapshot <= served[Script[step].product], statuses = <<>>
    PROVE  PublicationTypeOK' /\ NotNewer' /\ StatusInv'
<1> USE DEF PublishedInv, PublicationTypeOK, Collect
<1> DEFINE new == [product |-> Script[step].product, part |-> Script[step].part,
                   snapshot |-> snapshot]
<1>1. used' = used \cup {new} /\ UNCHANGED <<served, publisher, statuses>>
  OBVIOUS
<1>2. step \in 1 .. Len(Script) /\ step' \in 1 .. Len(Script) + 1
  BY ScriptLength
<1>3. /\ Script[step].product \in Products
      /\ Script[step].part \in {Script[n].part : n \in 1 .. Len(Script)}
  BY <1>2 DEF Products
<1>4. PublicationTypeOK'
  BY <1>1, <1>2, <1>3
<1>5. NotNewer'
  BY <1>1 DEF NotNewer
<1>6. StatusInv'
  BY <1>1 DEF StatusInv
<1> QED
  BY <1>4, <1>5, <1>6

\* An answer to a request that is not a first one comes from the snapshot that is named.
LEMMA CollectNamed ==
    ASSUME PublishedInv, publisher = "reading", step <= Len(Script),
           NEW snapshot, Collect(Script[step], snapshot), Script[step].ask # "first",
           snapshot \in Named(Script[step].product) \/ Script[step].ask = "unchecked"
    PROVE  NamedInv' /\ CheckedInv'
<1> USE DEF PublishedInv
<1> DEFINE new == [product |-> Script[step].product, part |-> Script[step].part,
                   snapshot |-> snapshot]
<1>1. used' = used \cup {new} /\ step' \in {step, step + 1}
  BY DEF Collect
<1>2. step \in 1 .. Len(Script)
  BY DEF PublicationTypeOK
<1>3. new.part \notin {"first page", "dataset"}
  BY <1>2, FirstRequests
<1>4. ASSUME NEW product PROVE Named(product)' = Named(product)
  BY <1>1, <1>3, NamedSame DEF Named, NamedIn
<1>5. ASSUME NEW product PROVE Begun(product, step') <=> Begun(product, step)
  <2>1. CASE step' = step
    BY <2>1
  <2>2. CASE step' = step + 1
    <3>1. 1 .. step' - 1 = (1 .. step - 1) \cup {step}
      BY <2>2, <1>2
    <3> QED
      BY <3>1 DEF Begun, FirstAsked
  <2> QED
    BY <1>1, <2>1, <2>2
<1>6. NamedInv'
  BY <1>4, <1>5 DEF NamedInv
<1>7. CheckedInv'
  <2> SUFFICES ASSUME NEW u \in Checked' PROVE u.snapshot \in Named(u.product)
    BY <1>4 DEF CheckedInv
  <2>1. CASE u \in used
    BY <2>1 DEF CheckedInv, Checked
  <2>2. CASE u = new
    <3>1. Script[step].ask # "unchecked"
      BY <1>2, <2>2, UncheckedRequests DEF Checked
    <3> QED
      BY <2>2, <3>1
  <2> QED
    BY <1>1, <2>1, <2>2 DEF Checked
<1> QED
  BY <1>6, <1>7

\* An answer to a first request gives its product a snapshot.
LEMMA CollectFirst ==
    ASSUME PublishedInv, publisher = "reading", step <= Len(Script),
           NEW snapshot \in 1 .. MaxSnapshots, Collect(Script[step], snapshot),
           Script[step].ask = "first"
    PROVE  NamedInv' /\ CheckedInv'
<1> USE DEF PublishedInv
<1>b. PICK begun : begun = Script[step].product
  OBVIOUS
<1> DEFINE new == [product |-> begun, part |-> Script[step].part, snapshot |-> snapshot]
<1>2. step \in 1 .. Len(Script)
  BY DEF PublicationTypeOK
<1>3. new.part \in {"first page", "dataset"}
  BY <1>2, FirstRequests
<1>1. used' = used \cup {new} /\ step' = step + 1
  BY <1>b, <1>3 DEF Collect, Lists
<1>0. new.product = begun /\ new.snapshot = snapshot
  OBVIOUS
<1>4. ~ Begun(begun, step) /\ begun \in Products
  <2>1. FirstAsked(step, begun)
    BY <1>b DEF FirstAsked
  <2>2. \A n \in 1 .. step - 1 : n \in 1 .. Len(Script) /\ n # step
    BY <1>2
  <2>3. ~ Begun(begun, step)
    BY <1>2, <2>1, <2>2, FirstIsUnique DEF Begun
  <2>4. begun \in Products
    BY <1>b, <1>2 DEF Products
  <2> QED
    BY <2>3, <2>4
<1> HIDE DEF new
<1>5. Named(begun)' = {snapshot}
  <2>1. Named(begun) = {}
    BY <1>4 DEF NamedInv
  <2>2. NamedIn(used \cup {new}, begun) = NamedIn(used, begun) \cup {new.snapshot}
    BY <1>0, <1>3, NamedAlso
  <2>3. Named(begun) = NamedIn(used, begun) /\ Named(begun)' = NamedIn(used', begun)
    BY DEF Named, NamedIn
  <2>4. Named(begun)' = Named(begun) \cup {snapshot}
    BY <1>0, <1>1, <2>2, <2>3
  <2> QED
    BY <2>1, <2>4
<1>6. ASSUME NEW product, product # begun
      PROVE  /\ Named(product)' = Named(product)
             /\ Begun(product, step') <=> Begun(product, step)
  <2>1. Named(product)' = Named(product)
    BY <1>0, <1>1, <1>6, NamedSame DEF Named, NamedIn
  <2>2. Begun(product, step') <=> Begun(product, step)
    BY <1>b, <1>1, <1>2, <1>6 DEF Begun, FirstAsked
  <2> QED
    BY <2>1, <2>2
<1>7. Begun(begun, step')
  BY <1>b, <1>1, <1>2 DEF Begun, FirstAsked
<1>8. NamedInv'
  <2> SUFFICES ASSUME NEW product \in Products
      PROVE  /\ Begun(product, step') => \E some \in 1 .. MaxSnapshots : Named(product)' = {some}
             /\ ~ Begun(product, step') => Named(product)' = {}
    BY DEF NamedInv
  <2>1. CASE product = begun
    BY <2>1, <1>5, <1>7
  <2>2. CASE product # begun
    BY <2>2, <1>6 DEF NamedInv
  <2> QED
    BY <2>1, <2>2
<1>9. CheckedInv'
  <2> SUFFICES ASSUME NEW u \in Checked' PROVE u.snapshot \in Named(u.product)'
    BY DEF CheckedInv
  <2>1. CASE u \in used
    <3>1. u.snapshot \in Named(u.product)
      BY <2>1 DEF CheckedInv, Checked
    <3>2. u.product # begun
      BY <3>1, <1>4 DEF NamedInv
    <3> QED
      BY <3>1, <3>2, <1>6
  <2>2. CASE u = new
    BY <2>2, <1>0, <1>5
  <2> QED
    BY <1>1, <2>1, <2>2 DEF Checked
<1> QED
  BY <1>8, <1>9

LEMMA ServeKeeps == ASSUME PublishedInv, ServeNewer PROVE PublishedInv'
<1> USE DEF PublishedInv
<1>1. UNCHANGED <<publisher, step, used, statuses>>
  BY DEF ServeNewer
<1>2. served' \in [Products -> 0 .. MaxSnapshots]
      /\ \A product \in Products : served[product] <= served'[product]
  <2>1. PICK product \in Products :
           served[product] < MaxSnapshots /\ served' = [served EXCEPT ![product] = @ + 1]
    BY DEF ServeNewer
  <2>2. served \in [Products -> 0 .. MaxSnapshots]
    BY DEF PublicationTypeOK
  <2>3. served[product] + 1 \in 0 .. MaxSnapshots
    BY <2>1, <2>2, SnapshotsAssumption
  <2> QED
    BY <2>1, <2>2, <2>3
<1>3. PublicationTypeOK'
  BY <1>1, <1>2 DEF PublicationTypeOK
<1>4. NotNewer'
  <2> SUFFICES ASSUME NEW u \in used PROVE u.snapshot <= served'[u.product]
    BY <1>1 DEF NotNewer
  <2>1. /\ u.product \in Products /\ u.snapshot \in Int
        /\ served[u.product] \in Int /\ served'[u.product] \in Int
    BY <1>2 DEF PublicationTypeOK
  <2>2. u.snapshot <= served[u.product] /\ served[u.product] <= served'[u.product]
    BY <2>1, <1>2 DEF NotNewer
  <2> QED
    BY <2>1, <2>2
<1>5. NamedInv' /\ CheckedInv' /\ StatusInv'
  BY <1>1 DEF NamedInv, Named, CheckedInv, Checked, StatusInv
<1> QED
  BY <1>3, <1>4, <1>5

LEMMA AnswerKeeps ==
    ASSUME PublishedInv, AskFirst \/ AskPinned \/ AskCompared \/ AskUnchecked
    PROVE  PublishedInv'
<1> USE DEF PublishedInv
<1> DEFINE request == Script[step]
<1>1. publisher = "reading" /\ step <= Len(Script) /\ step \in 1 .. Len(Script)
  BY DEF AskFirst, AskPinned, AskCompared, AskUnchecked, Asks, PublicationTypeOK
<1>2. statuses = <<>>
  BY <1>1 DEF StatusInv
<1>3. request.product \in Products
  BY <1>1 DEF Products
<1>4. PICK snapshot :
        /\ Collect(request, snapshot)
        /\ \/ request.ask = "first" /\ snapshot = served[request.product]
           \/ /\ request.ask # "first"
              /\ snapshot \in Named(request.product)
           \/ request.ask = "unchecked" /\ snapshot = served[request.product]
  BY DEF AskFirst, AskPinned, AskCompared, AskUnchecked, Asks
<1>5. snapshot \in 1 .. MaxSnapshots /\ snapshot <= served[request.product]
  <2>1. CASE snapshot = served[request.product]
    BY <2>1, <1>3, <1>4 DEF Collect, PublicationTypeOK
  <2>2. CASE snapshot \in Named(request.product)
    BY <2>2 DEF Named, NotNewer, PublicationTypeOK
  <2> QED
    BY <1>4, <2>1, <2>2
<1>6. PublicationTypeOK' /\ NotNewer' /\ StatusInv'
  BY <1>1, <1>2, <1>4, <1>5, CollectTypes
<1>7. NamedInv' /\ CheckedInv'
  BY <1>1, <1>4, <1>5, CollectNamed, CollectFirst
<1> QED
  BY <1>6, <1>7

LEMMA EndKeeps ==
    ASSUME PublishedInv, AskStatus \/ PutPublication \/ FailPublication
    PROVE  PublishedInv'
<1> USE DEF PublishedInv
<1>1. UNCHANGED <<served, step, used>>
  BY DEF AskStatus, PutPublication, FailPublication
<1>2. PublicationTypeOK'
  BY <1>1 DEF PublicationTypeOK, AskStatus, PutPublication, FailPublication
<1>3. NotNewer' /\ NamedInv' /\ CheckedInv'
  BY <1>1 DEF NotNewer, NamedInv, Named, CheckedInv, Checked
<1>4. StatusInv'
  BY <1>1 DEF StatusInv, NotNewer, AskStatus, PutPublication, FailPublication
<1> QED
  BY <1>2, <1>3, <1>4

\* The inductive invariant of the static publication.
THEOREM PublishedInvariant == PublicationSpec => []PublishedInv
<1>1. PublicationInit => PublishedInv
  BY PublishedInit
<1>2. PublishedInv /\ [PublicationNext]_publicationVars => PublishedInv'
  <2>1. CASE UNCHANGED publicationVars
    BY <2>1 DEF publicationVars, PublishedInv, PublicationTypeOK, NamedInv, Named, NotNewer,
                CheckedInv, Checked, StatusInv
  <2> QED
    BY <2>1, ServeKeeps, AnswerKeeps, EndKeeps DEF PublicationNext
<1> QED
  BY <1>1, <1>2, PTL DEF PublicationSpec

\* PublishedIsWhatItNames, for any number of snapshots published meanwhile: one named
\* snapshot for each product, nothing compared from another one, no older status
\* (static_publication.py, build_publication).
THEOREM PublishedAlwaysNames == PublicationSpec => []PublishedIsWhatItNames
<1>1. PublishedInv => PublishedIsWhatItNames
  <2> SUFFICES ASSUME PublishedInv, publisher = "published", NEW product \in Products
      PROVE  /\ Cardinality(Named(product)) = 1
             /\ \A u \in Checked : u.product = product => u.snapshot \in Named(product)
             /\ \A snapshot \in Named(product) : statuses[product] >= snapshot
    BY DEF PublishedIsWhatItNames
  <2> USE DEF PublishedInv
  <2>1. statuses # <<>> /\ step = Len(Script) + 1
    BY DEF StatusInv
  <2>2. PICK snapshot \in 1 .. MaxSnapshots : Named(product) = {snapshot}
    BY <2>1, AllBegun DEF NamedInv
  <2>3. PICK u \in used : u.product = product /\ u.snapshot = snapshot
    BY <2>2 DEF Named
  <2>4. statuses[product] >= snapshot
    BY <2>1, <2>3 DEF StatusInv, PublicationTypeOK
  <2> QED
    BY <2>2, <2>4, FS_Singleton DEF CheckedInv
<1> QED
  BY <1>1, PublishedInvariant, PTL

-----------------------------------------------------------------------------
(***************************************************************************)
(* PagedRead, for any number of snapshots, any identifiers and any limits. *)
(*                                                                         *)
(* A read keeps its place: what it has taken, followed by what is left of  *)
(* the page at hand, is the beginning of the list of its snapshot, and a   *)
(* further page starts behind it (TakenInv, AskingInv, TakingInv).  The    *)
(* list is ordered, so that the rows greater than the last item of a page  *)
(* are those behind it (AscendingRest).                                    *)
(***************************************************************************)

(* The order of identifiers: the place of one is the number of those up to it. *)

Rank(S, x) == Cardinality({y \in S : y <= x})

LEMMA RankRange ==
    ASSUME NEW S \in SUBSET Int, IsFiniteSet(S), NEW x \in S
    PROVE  Rank(S, x) \in 1 .. Cardinality(S)
<1> DEFINE T == {y \in S : y <= x}
<1>1. T \in SUBSET S /\ x \in T
  OBVIOUS
<1>2. IsFiniteSet(T) /\ Cardinality(T) <= Cardinality(S)
  BY <1>1, FS_Subset
<1>3. Cardinality(T) # 0
  BY <1>1, <1>2, FS_EmptySet
<1>4. Cardinality(T) \in Nat /\ Cardinality(S) \in Nat
  BY <1>2, FS_CardinalityType
<1> QED
  BY <1>2, <1>3, <1>4 DEF Rank

LEMMA RankGrows ==
    ASSUME NEW S \in SUBSET Int, IsFiniteSet(S), NEW x \in S, NEW z \in S, x < z
    PROVE  Rank(S, x) < Rank(S, z)
<1> DEFINE T(w) == {y \in S : y <= w}
<1>1. IsFiniteSet(T(z)) /\ T(x) \in SUBSET T(z) /\ T(x) # T(z)
  <2>0. \A y \in S : y <= x => y <= z
    OBVIOUS
  <2>1. T(z) \in SUBSET S /\ T(x) \in SUBSET T(z)
    BY <2>0
  <2>2. z \in T(z) /\ z \notin T(x)
    OBVIOUS
  <2> QED
    BY <2>1, <2>2, FS_Subset
<1>2. Cardinality(T(x)) <= Cardinality(T(z)) /\ Cardinality(T(x)) # Cardinality(T(z))
  BY <1>1, FS_Subset
<1>3. IsFiniteSet(T(x))
  BY <1>1, FS_Subset
<1>4. Cardinality(T(x)) \in Nat /\ Cardinality(T(z)) \in Nat
  BY <1>1, <1>3, FS_CardinalityType
<1> QED
  BY <1>2, <1>4 DEF Rank

LEMMA RankDecides ==
    ASSUME NEW S \in SUBSET Int, IsFiniteSet(S), NEW x \in S, NEW z \in S,
           Rank(S, x) = Rank(S, z)
    PROVE  x = z
<1>1. Rank(S, x) \in Int /\ Rank(S, z) \in Int
  BY RankRange, FS_CardinalityType
<1>2. ~ (x < z) /\ ~ (z < x)
  BY <1>1, RankGrows
<1> QED
  BY <1>2

\* Every place is taken: the ranks are an injection into a set of the same size.
LEMMA RankCovers ==
    ASSUME NEW S \in SUBSET Int, IsFiniteSet(S), NEW i \in 1 .. Cardinality(S)
    PROVE  \E x \in S : Rank(S, x) = i
<1> DEFINE n == Cardinality(S)
           f == [x \in S |-> Rank(S, x)]
<1>1. n \in Nat
  BY FS_CardinalityType
<1>2. IsFiniteSet(1 .. n) /\ Cardinality(1 .. n) = n
  BY <1>1, FS_Interval
<1>3. f \in Injection(S, 1 .. n)
  BY RankRange, RankDecides DEF Injection, IsInjective
<1>4. f \in Surjection(S, 1 .. n)
  BY <1>2, <1>3, FS_Injection
<1> QED
  BY <1>4 DEF Surjection

LEMMA AscendingPlaces ==
    ASSUME NEW S \in SUBSET Int, IsFiniteSet(S)
    PROVE  /\ Ascending(S) \in Seq(S)
           /\ Len(Ascending(S)) = Cardinality(S)
           /\ \A i \in 1 .. Cardinality(S) :
                Ascending(S)[i] \in S /\ Rank(S, Ascending(S)[i]) = i
<1>1. Cardinality(S) \in Nat
  BY FS_CardinalityType
<1>2. ASSUME NEW i \in 1 .. Cardinality(S)
      PROVE  Ascending(S)[i] \in S /\ Rank(S, Ascending(S)[i]) = i
  BY RankCovers DEF Ascending, Rank
<1>3. Ascending(S) \in [1 .. Cardinality(S) -> S]
  BY <1>2 DEF Ascending
<1> QED
  BY <1>1, <1>2, <1>3

LEMMA AscendingShape ==
    ASSUME NEW S PROVE Ascending(S) = [i \in 1 .. Cardinality(S) |-> Ascending(S)[i]]
<1> QED
  BY DEF Ascending

\* What comes after the identifier at place k is the rest of the list from place k on.
LEMMA AscendingRest ==
    ASSUME NEW S \in SUBSET Int, IsFiniteSet(S), NEW k \in 1 .. Cardinality(S)
    PROVE  Ascending({id \in S : id > Ascending(S)[k]})
             = [i \in 1 .. Cardinality(S) - k |-> Ascending(S)[k + i]]
<1> DEFINE c == Ascending(S)[k]
           T == {id \in S : id > c}
           upTo == {y \in S : y <= c}
<1>1. Cardinality(S) \in Nat
  BY FS_CardinalityType
<1>2. c \in S /\ Rank(S, c) = k
  BY AscendingPlaces
<1> HIDE DEF c
<1>o. \A y \in S : y <= c \/ y > c
  BY <1>2
<1>n. \A y \in S : ~ (y <= c /\ y > c)
  BY <1>2
<1>3. T \in SUBSET Int /\ IsFiniteSet(T) /\ IsFiniteSet(upTo)
  BY FS_Subset
<1>4. Cardinality(upTo) = k
  BY <1>2 DEF Rank
<1>5. Cardinality(T) = Cardinality(S) - k
  <2>1. S = upTo \cup T /\ upTo \cap T = {}
    BY <1>o, <1>n
  <2> HIDE DEF T, upTo
  <2>2. Cardinality(S) = Cardinality(upTo) + Cardinality(T) - 0
    BY <2>1, <1>3, FS_Union, FS_EmptySet
  <2>3. Cardinality(T) \in Nat
    BY <1>3, FS_CardinalityType
  <2> QED
    BY <1>1, <1>4, <2>2, <2>3
<1>6. ASSUME NEW x \in T PROVE Rank(S, x) = k + Rank(T, x)
  <2> DEFINE U == {y \in T : y <= x}
  <2>0. x \in S /\ \A y \in S : y <= c => y <= x
    BY <1>2
  <2>1. {y \in S : y <= x} = upTo \cup U /\ upTo \cap U = {}
    BY <1>o, <1>n, <2>0
  <2>2. IsFiniteSet(U)
    BY <1>3, FS_Subset
  <2>e. upTo \cap U = {}
    BY <2>1
  <2>3. Cardinality(upTo \cup U) = Cardinality(upTo) + Cardinality(U) - 0
    <3> HIDE DEF U, upTo
    <3> QED
      BY <2>e, <2>2, <1>3, FS_Union, FS_EmptySet
  <2>4. Rank(S, x) = Cardinality(upTo \cup U) /\ Rank(T, x) = Cardinality(U)
    BY <2>1 DEF Rank
  <2>5. Cardinality(U) \in Nat
    BY <2>2, FS_CardinalityType
  <2> HIDE DEF U, T, upTo
  <2> QED
    BY <1>4, <2>3, <2>4, <2>5
<1>7. ASSUME NEW i \in 1 .. Cardinality(S) - k PROVE Ascending(T)[i] = Ascending(S)[k + i]
  <2>1. i \in 1 .. Cardinality(T) /\ k + i \in 1 .. Cardinality(S)
    BY <1>1, <1>5
  <2>2. Ascending(T)[i] \in T /\ Rank(T, Ascending(T)[i]) = i
    BY <2>1, <1>3, AscendingPlaces
  <2>3. Rank(S, Ascending(T)[i]) = k + i
    BY <2>2, <1>6
  <2>4. Ascending(S)[k + i] \in S /\ Rank(S, Ascending(S)[k + i]) = k + i
    BY <2>1, AscendingPlaces
  <2>5. Ascending(T)[i] \in S
    BY <2>2
  <2> DEFINE a == Ascending(T)[i]
             b == Ascending(S)[k + i]
  <2>6. a \in S /\ b \in S /\ Rank(S, a) = Rank(S, b)
    BY <2>3, <2>4, <2>5
  <2> HIDE DEF a, b
  <2>7. a = b
    BY <2>6, RankDecides
  <2> QED
    BY <2>7 DEF a, b
<1> HIDE DEF T
<1>8. Ascending(T) = [i \in 1 .. Cardinality(T) |-> Ascending(T)[i]]
  BY DEF Ascending
<1>9. Ascending(T) = [i \in 1 .. Cardinality(S) - k |-> Ascending(S)[k + i]]
  BY <1>5, <1>7, <1>8
<1> QED
  BY <1>9 DEF T, c

-----------------------------------------------------------------------------
(* The invariant of a read: where it is in the list of its snapshot. *)

List == Ascending(rows[pinned])

SnapshotInv ==
    /\ pinned <= latest /\ dataset <= latest
    /\ kind = "thames_export" => dataset = pinned
    /\ kind = "supply_export" /\ pinned # Nothing => dataset <= pinned
    /\ readerAt = "opening" => dataset = Nothing /\ pinned = Nothing
    /\ kind \in Exports /\ readerAt \notin {"opening", "broken"} => dataset # Nothing
    /\ readerAt \in {"opening", "closing"} => kind \in Exports
    /\ readerAt = "returned" /\ kind \in Exports => dataset = pinned

\* Before the first page there is nothing, and nothing is read without a snapshot.
UnpinnedInv ==
    /\ pages = 0 => collected = <<>> /\ batch = <<>> /\ cursor = Nothing /\ cursors = {}
    /\ pinned = Nothing => pages = 0
    /\ readerAt \in {"taking", "closing", "returned"} => pages # 0

\* What has been taken and what is left of the page are consecutive parts of the list.
TakenInv ==
    pages # 0 =>
        /\ Len(collected) + Len(batch) <= Len(List)
        /\ \A i \in 1 .. Len(collected) :
             collected[i].snapshot = pinned /\ collected[i].id = List[i]
        /\ \A i \in 1 .. Len(batch) : batch[i] = List[Len(collected) + i]

\* A full page has been used up, and there is more: the cursor is its last item.
AskingInv ==
    readerAt = "asking" /\ pages # 0 =>
        /\ batch = <<>>
        /\ Len(collected) = limit * pages
        /\ Len(collected) < Len(List)
        /\ cursor = List[Len(collected)]
        /\ \A c \in cursors : c <= cursor

\* The page ends the list, or it is full and its last item is the next cursor.
TakingInv ==
    readerAt = "taking" =>
        IF next = Nothing THEN Len(collected) + Len(batch) = Len(List)
        ELSE /\ Len(collected) + Len(batch) = limit * pages
             /\ Len(collected) + Len(batch) < Len(List)
             /\ next = List[Len(collected) + Len(batch)]
             /\ \A c \in cursors : c < next

EndedInv ==
    readerAt \in {"closing", "returned"} => batch = <<>> /\ Len(collected) = Len(List)

ReadInv ==
    /\ ReadTypeOK /\ SnapshotInv /\ UnpinnedInv /\ TakenInv /\ AskingInv /\ TakingInv
    /\ EndedInv /\ PinnedIsUndisturbed

-----------------------------------------------------------------------------
LEMMA RowsFinite ==
    ASSUME ReadTypeOK, NEW s \in 1 .. SnapshotCount
    PROVE  /\ rows[s] \in SUBSET Ids /\ rows[s] \in SUBSET Int /\ IsFiniteSet(rows[s])
           /\ Cardinality(rows[s]) \in Nat
<1>1. rows[s] \in SUBSET Ids
  BY DEF ReadTypeOK
<1>2. IsFiniteSet(Ids)
  BY LimitsAssumption, FS_Interval DEF Ids
<1>3. IsFiniteSet(rows[s])
  BY <1>1, <1>2, FS_Subset
<1> QED
  BY <1>1, <1>3, FS_CardinalityType DEF Ids

LEMMA ListPlaces ==
    ASSUME ReadTypeOK, NEW s \in 1 .. SnapshotCount
    PROVE  /\ Len(Ascending(rows[s])) = Cardinality(rows[s])
           /\ Ascending(rows[s]) \in Seq(Ids)
           /\ \A i \in 1 .. Len(Ascending(rows[s])) : Ascending(rows[s])[i] \in Ids
           /\ \A i, j \in 1 .. Len(Ascending(rows[s])) :
                i < j => Ascending(rows[s])[i] < Ascending(rows[s])[j]
<1> DEFINE A == Ascending(rows[s])
<1>1. rows[s] \in SUBSET Ids /\ rows[s] \in SUBSET Int /\ IsFiniteSet(rows[s])
  BY RowsFinite
<1>2. /\ A \in Seq(rows[s]) /\ Len(A) = Cardinality(rows[s])
      /\ \A i \in 1 .. Cardinality(rows[s]) : A[i] \in rows[s] /\ Rank(rows[s], A[i]) = i
  BY <1>1, AscendingPlaces
<1> HIDE DEF A
<1>3. A \in Seq(Ids)
  BY <1>1, <1>2, SeqMonotonic
<1>4. \A i \in 1 .. Len(A) : A[i] \in Ids
  BY <1>1, <1>2
<1>5. ASSUME NEW i \in 1 .. Len(A), NEW j \in 1 .. Len(A), i < j PROVE A[i] < A[j]
  <2>1. /\ A[i] \in rows[s] /\ A[j] \in rows[s] /\ A[i] \in Int /\ A[j] \in Int
        /\ Rank(rows[s], A[i]) = i /\ Rank(rows[s], A[j]) = j
    BY <1>1, <1>2
  <2>2. ~ (A[j] < A[i]) /\ A[i] # A[j]
    BY <1>1, <1>5, <2>1, RankGrows
  <2> QED
    BY <2>1, <2>2
<1> QED
  BY <1>2, <1>3, <1>4, <1>5 DEF A

LEMMA ReadInitial == ReadInit => ReadInv
<1> SUFFICES ASSUME ReadInit PROVE ReadInv
  OBVIOUS
<1> USE DEF ReadInit, Nothing
<1>1. ReadTypeOK
  BY LimitsAssumption, EmptySeq DEF ReadTypeOK
<1>2. SnapshotInv /\ UnpinnedInv
  BY DEF SnapshotInv, UnpinnedInv, Exports
<1>3. TakenInv /\ AskingInv /\ TakingInv /\ EndedInv /\ PinnedIsUndisturbed
  BY DEF TakenInv, AskingInv, TakingInv, EndedInv, PinnedIsUndisturbed
<1> QED
  BY <1>1, <1>2, <1>3 DEF ReadInv

\* The rows after the cursor are what is left of the list.
LEMMA RowsLeft ==
    ASSUME ReadInv, readerAt = "asking", NEW s \in 1 .. SnapshotCount,
           pages = 0 \/ s = pinned
    PROVE  LET k == Len(collected)
               n == Cardinality(rows[s])
           IN  /\ k \in 0 .. n
               /\ RowsAfter(s, cursor) = [i \in 1 .. n - k |-> Ascending(rows[s])[k + i]]
<1> USE DEF ReadInv
<1>1. /\ rows[s] \in SUBSET Ids /\ rows[s] \in SUBSET Int /\ IsFiniteSet(rows[s])
      /\ Cardinality(rows[s]) \in Nat
  BY RowsFinite
<1>2. CASE pages = 0
  <2>1. Len(collected) = 0 /\ cursor = 0
    BY <1>2, EmptySeq DEF UnpinnedInv, Nothing
  <2>2. {id \in rows[s] : id > cursor} = rows[s]
    BY <1>1, <2>1 DEF Ids
  <2> DEFINE A == Ascending(rows[s])
             n == Cardinality(rows[s])
  <2>3. A = [i \in 1 .. n |-> A[i]] /\ n \in Nat
    BY <1>1, AscendingShape
  <2>4. RowsAfter(s, cursor) = A
    BY <2>2 DEF RowsAfter
  <2> HIDE DEF A, n
  <2>5. A = [i \in 1 .. n - 0 |-> A[0 + i]]
    BY <2>3
  <2>6. 0 \in 0 .. n
    BY <2>3
  <2>7. RowsAfter(s, cursor) = [i \in 1 .. n - Len(collected) |-> A[Len(collected) + i]]
    BY <2>1, <2>4, <2>5
  <2> QED
    BY <2>1, <2>6, <2>7 DEF A, n
<1>3. CASE pages # 0
  <2>1. pages \in Nat /\ limit \in Nat /\ limit >= 1 /\ pages >= 1
    BY <1>3 DEF ReadTypeOK
  <2>2. limit * pages \in Nat /\ limit * pages >= 1
    BY <2>1
  <2>3. /\ Len(collected) \in 1 .. Cardinality(rows[s])
        /\ cursor = Ascending(rows[s])[Len(collected)]
    BY <1>1, <1>3, <2>2, ListPlaces DEF AskingInv, List
  <2>4. RowsAfter(s, cursor) = [i \in 1 .. Cardinality(rows[s]) - Len(collected) |->
                                  Ascending(rows[s])[Len(collected) + i]]
    BY <1>1, <2>3, AscendingRest DEF RowsAfter
  <2> QED
    BY <1>1, <2>3, <2>4
<1> QED
  BY <1>2, <1>3

\* The snapshot a request is answered from is the pinned one as soon as there is one.
LEMMA AnsweredIs ==
    ASSUME ReadInv
    PROVE  /\ Answered \in 1 .. SnapshotCount /\ Answered <= latest
           /\ pinned # Nothing => pinned \in 1 .. SnapshotCount
           /\ kind \in Pins /\ pinned # Nothing => Answered = pinned
<1> QED
  BY DEF ReadInv, ReadTypeOK, SnapshotInv, Answered, Nothing

\* One page: what is left of the list, cut at the limit.
LEMMA PageHolds ==
    ASSUME ReadInv, readerAt = "asking", NEW s \in 1 .. SnapshotCount,
           pages = 0 \/ s = pinned, NEW k, k = Len(collected)
    PROVE  LET A    == Ascending(rows[s])
               page == Page(s, cursor)
           IN  /\ page.items \in Seq(Ids)
               /\ k + Len(page.items) <= Len(A)
               /\ \A i \in 1 .. Len(page.items) : page.items[i] = A[k + i]
               /\ page.next = Nothing => k + Len(page.items) = Len(A)
               /\ page.next # Nothing =>
                    /\ Len(page.items) = limit /\ k + limit < Len(A)
                    /\ page.next = A[k + limit]
               /\ page.next \in Ids \cup {Nothing}
<1> DEFINE A == Ascending(rows[s])
           found == RowsAfter(s, cursor)
           n == Cardinality(rows[s])
           some == IF Len(found) > limit THEN limit ELSE Len(found)
<1>1. k \in 0 .. n /\ n \in Nat /\ found = [i \in 1 .. n - k |-> A[k + i]]
  BY RowsLeft, RowsFinite DEF ReadInv
<1>2. Len(A) = n /\ \A i \in 1 .. Len(A) : A[i] \in Ids
  BY ListPlaces DEF ReadInv
<1>3. limit \in Nat /\ limit >= 1
  BY DEF ReadInv, ReadTypeOK
<1>4. Page(s, cursor) = [items |-> SubSeq(found, 1, some),
                         next |-> IF Len(found) > limit THEN found[limit] ELSE Nothing]
  BY DEF Page
<1>i. Page(s, cursor).items = SubSeq(found, 1, some)
  BY DEF Page
<1>5. \A i \in Ids : i # Nothing
  BY DEF Ids, Nothing
<1> HIDE DEF A, found, n
<1>6. /\ \A i \in 1 .. n - k : k + i \in 1 .. n
      /\ n - k \in Nat
  BY <1>1
<1>7. /\ found \in Seq(Ids) /\ Len(found) = n - k
      /\ \A i \in 1 .. n - k : found[i] = A[k + i] /\ found[i] \in Ids
  BY <1>1, <1>2, <1>6
<1>8. some \in 0 .. n - k
  BY <1>3, <1>6, <1>7
<1>9. /\ SubSeq(found, 1, some) \in Seq(Ids) /\ Len(SubSeq(found, 1, some)) = some
      /\ \A i \in 1 .. some : SubSeq(found, 1, some)[i] = A[k + i]
  <2> HIDE DEF some
  <2> QED
    BY <1>7, <1>8
<1>10. CASE n - k > limit
  <2>1. some = limit /\ Page(s, cursor).next = found[limit] /\ limit \in 1 .. n - k
    BY <1>3, <1>4, <1>6, <1>7, <1>10
  <2>2. Page(s, cursor).next = A[k + limit] /\ Page(s, cursor).next \in Ids
    BY <2>1, <1>7
  <2>4. k + limit < Len(A)
    BY <1>1, <1>2, <1>3, <1>10
  <2> HIDE DEF some
  <2> QED
    BY <1>2, <1>3, <1>5, <1>9, <1>i, <2>1, <2>2, <2>4 DEF A
<1>11. CASE ~ (n - k > limit)
  <2>1. some = n - k /\ Page(s, cursor).next = Nothing
    BY <1>4, <1>7, <1>11
  <2>3. k + some = Len(A) /\ k + some <= Len(A)
    BY <1>1, <1>2, <2>1
  <2> HIDE DEF some
  <2> QED
    BY <1>9, <1>i, <2>1, <2>3 DEF A
<1> QED
  BY <1>10, <1>11

-----------------------------------------------------------------------------
(* The steps. *)

LEMMA PublishKeeps == ASSUME ReadInv, PublishNewer PROVE ReadInv'
<1> USE DEF ReadInv, PublishNewer, serverVars, fixedVars, pageVars, itemVars
<1>1. ReadTypeOK'
  BY LimitsAssumption DEF ReadTypeOK
<1>2. SnapshotInv'
  BY DEF SnapshotInv, ReadTypeOK
<1>3. UnpinnedInv' /\ AskingInv' /\ EndedInv'
  BY DEF UnpinnedInv, AskingInv, EndedInv, List
<1>4. TakenInv'
  BY DEF TakenInv, List
<1>5. TakingInv'
  BY DEF TakingInv, List
<1>6. PinnedIsUndisturbed'
  BY DEF PinnedIsUndisturbed, Fits
<1> QED
  BY <1>1, <1>2, <1>3, <1>4, <1>5, <1>6

LEMMA ReadDatasetKeeps == ASSUME ReadInv, ReadDataset PROVE ReadInv'
<1> USE DEF ReadInv, ReadDataset, serverVars, fixedVars, pageVars, itemVars, Nothing
<1>a. dataset' \in 0 .. SnapshotCount /\ pinned' \in 0 .. SnapshotCount
  BY LimitsAssumption DEF ReadTypeOK
<1>b. readerAt' = "asking"
  OBVIOUS
<1>1. ReadTypeOK'
  BY <1>a, <1>b DEF ReadTypeOK
<1>2. SnapshotInv'
  BY DEF SnapshotInv, ReadTypeOK, Exports
<1>3. pages = 0
  BY DEF UnpinnedInv, SnapshotInv
<1>4. UnpinnedInv' /\ AskingInv' /\ TakingInv' /\ TakenInv' /\ EndedInv'
  BY <1>3 DEF UnpinnedInv, AskingInv, TakingInv, TakenInv, EndedInv
<1>5. PinnedIsUndisturbed'
  BY DEF PinnedIsUndisturbed
<1> QED
  BY <1>1, <1>2, <1>4, <1>5

LEMMA ReadPageKeeps == ASSUME ReadInv, ReadPage PROVE ReadInv'
<1> DEFINE s == Answered
           page == Page(s, cursor)
           k == Len(collected)
           A == Ascending(rows[s])
<1>1. /\ readerAt = "asking" /\ pages < MaxPages /\ pinned \in {Nothing, s}
      /\ readerAt' = "taking" /\ pinned' = s /\ pages' = pages + 1
      /\ batch' = page.items /\ next' = page.next
      /\ UNCHANGED <<rows, latest, kind, limit, dataset, cursor, cursors, collected>>
  BY DEF ReadPage, serverVars, fixedVars
<1>2. s \in 1 .. SnapshotCount /\ s <= latest
  BY AnsweredIs
<1>p. /\ kind \in Pins /\ pinned # Nothing => s = pinned
      /\ kind \notin Pins => s = latest
  BY DEF Answered
<1>3. pages = 0 \/ s = pinned
  BY <1>1 DEF ReadInv, UnpinnedInv
<1>4. /\ batch' \in Seq(Ids)
      /\ k + Len(batch') <= Len(A)
      /\ \A i \in 1 .. Len(batch') : batch'[i] = A[k + i]
      /\ next' = Nothing => k + Len(batch') = Len(A)
      /\ next' # Nothing =>
           /\ Len(batch') = limit /\ k + limit < Len(A)
           /\ next' = A[k + limit]
      /\ next' \in Ids \cup {Nothing}
  BY <1>1, <1>2, <1>3, PageHolds
<1>5. List' = A
  BY <1>1 DEF List
<1> HIDE DEF s, page, A
<1> USE DEF ReadInv
<1>6. ReadTypeOK'
  <2>1. pages' \in 0 .. MaxPages /\ pinned' \in 0 .. SnapshotCount
    BY <1>1, <1>2, LimitsAssumption DEF ReadTypeOK
  <2> QED
    BY <1>1, <1>4, <2>1 DEF ReadTypeOK
<1>7. SnapshotInv'
  <2>1. kind \in Exports => dataset # Nothing
    BY <1>1 DEF SnapshotInv
  <2>2. kind = "thames_export" => dataset = s
    BY <1>p, <2>1 DEF SnapshotInv, Exports, Pins
  <2>3. kind = "supply_export" => dataset <= s
    BY <1>p DEF SnapshotInv, Pins
  <2> QED
    BY <1>1, <1>2, <2>1, <2>2, <2>3 DEF SnapshotInv
<1>8. UnpinnedInv'
  BY <1>1, <1>2 DEF UnpinnedInv, ReadTypeOK, Nothing
<1>9. k \in Nat /\ limit \in Nat /\ pages \in Nat
  BY DEF ReadTypeOK
<1>10. k = limit * pages
  BY <1>1, <1>9 DEF UnpinnedInv, AskingInv
<1>11. TakenInv'
  <2>1. CASE pages = 0
    <3>1. collected = <<>>
      BY <2>1 DEF UnpinnedInv
    <3> QED
      BY <1>1, <1>4, <1>5, <3>1 DEF TakenInv
  <2>2. CASE pages # 0
    <3>1. pinned = s /\ List = A
      BY <1>3, <2>2 DEF List, A
    <3> QED
      BY <1>1, <1>4, <1>5, <2>2, <3>1 DEF TakenInv
  <2> QED
    BY <2>1, <2>2
<1>12. AskingInv' /\ EndedInv'
  BY <1>1 DEF AskingInv, EndedInv
<1>13. TakingInv'
  <2>1. CASE next' = Nothing
    BY <1>1, <1>4, <1>5, <2>1 DEF TakingInv
  <2>2. CASE next' # Nothing
    <3>1. k + Len(batch') = limit * (pages + 1)
      BY <1>4, <1>9, <1>10, <2>2
    <3>2. \A c \in cursors : c < next'
      <4>1. CASE pages = 0
        BY <4>1 DEF UnpinnedInv
      <4>2. CASE pages # 0
        <5>1. /\ pinned = s /\ List = A /\ k < Len(A) /\ cursor = A[k]
              /\ \A c \in cursors : c <= cursor
          BY <1>1, <1>3, <4>2 DEF AskingInv, List, A
        <5>2. k >= 1 /\ k < k + limit /\ k + limit \in Nat
          BY <1>9, <1>10, <4>2 DEF ReadTypeOK
        <5>3. /\ \A i, j \in 1 .. Len(A) : i < j => A[i] < A[j]
              /\ \A i \in 1 .. Len(A) : A[i] \in Ids
              /\ Len(A) \in Nat
          BY <1>2, ListPlaces DEF A
        <5>4. k \in 1 .. Len(A) /\ k + limit \in 1 .. Len(A)
          BY <1>4, <1>9, <2>2, <5>1, <5>2, <5>3
        <5>5. cursor < next' /\ cursor \in Ids /\ next' \in Ids
          BY <1>4, <2>2, <5>1, <5>2, <5>3, <5>4
        <5>6. \A c \in cursors : c \in Int
          BY DEF ReadTypeOK, Ids
        <5> QED
          BY <5>1, <5>5, <5>6 DEF Ids
      <4> QED
        BY <4>1, <4>2
    <3> QED
      BY <1>1, <1>4, <1>5, <2>2, <3>1, <3>2 DEF TakingInv
  <2> QED
    BY <2>1, <2>2
<1>14. PinnedIsUndisturbed'
  BY <1>1 DEF PinnedIsUndisturbed
<1> QED
  BY <1>6, <1>7, <1>8, <1>11, <1>12, <1>13, <1>14

\* A consumer that pins its snapshot is answered from it; at the page limit it has
\* as many items as fit, and there would be more.
LEMMA RefusePageKeeps == ASSUME ReadInv, RefusePage PROVE ReadInv'
<1> USE DEF ReadInv
<1>1. /\ readerAt = "asking"
      /\ pages = MaxPages \/ pinned \notin {Nothing, Answered}
      /\ readerAt' = "refused"
      /\ UNCHANGED <<rows, latest, kind, limit, dataset, pinned, cursor, cursors, pages,
                     batch, next, collected>>
  BY DEF RefusePage, serverVars, fixedVars, pageVars, itemVars
<1>2. ReadTypeOK'
  BY <1>1 DEF ReadTypeOK
<1>3. SnapshotInv'
  BY <1>1 DEF SnapshotInv
<1>u. UnpinnedInv'
  BY <1>1 DEF UnpinnedInv
<1>4. TakenInv' /\ AskingInv' /\ TakingInv' /\ EndedInv'
  BY <1>1 DEF TakenInv, AskingInv, TakingInv, EndedInv, List
<1>5. PinnedIsUndisturbed'
  <2> SUFFICES ASSUME kind \in Pins, pinned # Nothing, Fits(pinned) PROVE FALSE
    BY <1>1 DEF PinnedIsUndisturbed, Fits
  <2>1. pages = MaxPages /\ pages # 0 /\ pinned \in 1 .. SnapshotCount
    BY <1>1, AnsweredIs, LimitsAssumption
  <2>2. Len(collected) = limit * MaxPages /\ Len(collected) < Cardinality(rows[pinned])
    <3>1. Len(collected) = limit * pages /\ Len(collected) < Len(List)
      BY <1>1, <2>1 DEF AskingInv
    <3>2. Len(List) = Cardinality(rows[pinned])
      BY <2>1, ListPlaces DEF List
    <3> QED
      BY <2>1, <3>1, <3>2
  <2>3. Cardinality(rows[pinned]) <= limit * MaxPages /\ Cardinality(rows[pinned]) \in Nat
    BY <2>1, RowsFinite DEF Fits
  <2>4. Len(collected) \in Nat
    BY DEF ReadTypeOK
  <2> QED
    BY <2>2, <2>3, <2>4
<1> QED
  BY <1>2, <1>3, <1>u, <1>4, <1>5

LEMMA TakeItemKeeps == ASSUME ReadInv, TakeItem PROVE ReadInv'
<1> USE DEF ReadInv
<1> DEFINE k == Len(collected)
           item == [id |-> Head(batch), snapshot |-> ItemSnapshot]
<1>1. /\ readerAt = "taking" /\ batch # <<>>
      /\ kind = "supply_export" => ItemSnapshot = dataset
      /\ collected' = Append(collected, item) /\ batch' = Tail(batch)
      /\ UNCHANGED <<rows, latest, kind, limit, readerAt, dataset, pinned, cursor, cursors,
                     pages, next>>
  BY DEF TakeItem, serverVars, fixedVars, pageVars
<1>2. pages # 0 /\ pinned # Nothing /\ pinned \in 1 .. SnapshotCount
  BY <1>1, AnsweredIs DEF UnpinnedInv
<1>3. ItemSnapshot = pinned
  <2>1. CASE kind = "supply_export"
    <3>1. /\ dataset <= pinned /\ pinned <= latest /\ latest = dataset
          /\ dataset \in Nat /\ pinned \in Nat
      BY <1>1, <1>2, <2>1 DEF SnapshotInv, ItemSnapshot, ReadTypeOK
    <3> QED
      BY <2>1, <3>1 DEF ItemSnapshot
  <2>2. CASE kind # "supply_export"
    BY <2>2 DEF ItemSnapshot
  <2> QED
    BY <2>1, <2>2
<1>4. /\ batch \in Seq(Ids) /\ k \in Nat
      /\ collected \in Seq([id : Ids, snapshot : 1 .. SnapshotCount])
  BY DEF ReadTypeOK
<1>5. /\ Head(batch) = batch[1] /\ Head(batch) \in Ids /\ Len(batch) \in Nat /\ Len(batch) >= 1
      /\ Tail(batch) \in Seq(Ids) /\ Len(Tail(batch)) = Len(batch) - 1
      /\ \A i \in 1 .. Len(batch) - 1 : Tail(batch)[i] = batch[i + 1]
  BY <1>1, <1>4
<1>6. item \in [id : Ids, snapshot : 1 .. SnapshotCount]
  BY <1>2, <1>3, <1>5
<1>7. /\ item.snapshot = pinned /\ item.id = batch[1]
  BY <1>3, <1>5
<1> HIDE DEF item
<1>8. /\ collected' \in Seq([id : Ids, snapshot : 1 .. SnapshotCount])
      /\ Len(collected') = k + 1 /\ collected'[k + 1] = item
      /\ \A i \in 1 .. k : collected'[i] = collected[i]
  BY <1>1, <1>4, <1>6
<1>9. Len(collected') + Len(batch') = k + Len(batch)
  BY <1>1, <1>4, <1>5, <1>8
<1>10. ReadTypeOK'
  BY <1>1, <1>5, <1>8 DEF ReadTypeOK
<1>11. SnapshotInv' /\ UnpinnedInv'
  BY <1>1, <1>2 DEF SnapshotInv, UnpinnedInv
<1>12. AskingInv' /\ EndedInv' /\ PinnedIsUndisturbed'
  BY <1>1 DEF AskingInv, EndedInv, PinnedIsUndisturbed
<1>13. TakingInv'
  BY <1>1, <1>9 DEF TakingInv, List
<1>14. TakenInv'
  <2>1. /\ k + Len(batch) <= Len(List)
        /\ \A i \in 1 .. k : collected[i].snapshot = pinned /\ collected[i].id = List[i]
        /\ \A i \in 1 .. Len(batch) : batch[i] = List[k + i]
    BY <1>2 DEF TakenInv
  <2>2. List' = List
    BY <1>1 DEF List
  <2>3. item.id = List[k + 1]
    BY <1>5, <1>7, <2>1
  <2>4. ASSUME NEW i \in 1 .. k + 1
        PROVE  collected'[i].snapshot = pinned /\ collected'[i].id = List[i]
    <3>1. CASE i = k + 1
      BY <1>7, <1>8, <2>3, <3>1
    <3>2. CASE i # k + 1
      <4>1. i \in 1 .. k
        BY <1>4, <3>2
      <4> QED
        BY <1>8, <2>1, <4>1
    <3> QED
      BY <3>1, <3>2
  <2>5. ASSUME NEW i \in 1 .. Len(batch) - 1 PROVE Tail(batch)[i] = List[k + 1 + i]
    <3>1. i + 1 \in 1 .. Len(batch) /\ k + (i + 1) = k + 1 + i
      BY <1>4, <1>5
    <3> QED
      BY <1>5, <2>1, <3>1
  <2> HIDE DEF k
  <2> QED
    BY <1>1, <1>5, <1>8, <1>9, <2>1, <2>2, <2>4, <2>5 DEF TakenInv
<1> QED
  BY <1>10, <1>11, <1>12, <1>13, <1>14

\* A list within the limit on records is never cut short: what has been taken and the
\* item at hand are still within it.
LEMMA RefuseItemKeeps == ASSUME ReadInv, RefuseItem PROVE ReadInv'
<1> USE DEF ReadInv
<1>1. /\ readerAt = "taking" /\ batch # <<>>
      /\ ~MayTake \/ (kind = "supply_export" /\ ItemSnapshot # dataset)
      /\ readerAt' = "refused"
      /\ UNCHANGED <<rows, latest, kind, limit, dataset, pinned, cursor, cursors, pages,
                     batch, next, collected>>
  BY DEF RefuseItem, serverVars, fixedVars, pageVars, itemVars
<1>2. ReadTypeOK'
  BY <1>1 DEF ReadTypeOK
<1>3. SnapshotInv'
  BY <1>1 DEF SnapshotInv
<1>4. UnpinnedInv'
  BY <1>1 DEF UnpinnedInv
<1>5. TakenInv' /\ AskingInv' /\ TakingInv' /\ EndedInv'
  BY <1>1 DEF TakenInv, AskingInv, TakingInv, EndedInv, List
<1>6. PinnedIsUndisturbed'
  <2> SUFFICES ASSUME kind \in Pins, pinned # Nothing, Fits(pinned) PROVE FALSE
    BY <1>1 DEF PinnedIsUndisturbed, Fits
  <2>1. kind # "supply_export" /\ ~MayTake
    BY <1>1 DEF Pins
  <2>2. pages # 0 /\ pinned \in 1 .. SnapshotCount
    BY <1>1, AnsweredIs DEF UnpinnedInv
  <2>3. Len(batch) >= 1 /\ Len(batch) \in Nat /\ Len(collected) \in Nat
    BY <1>1 DEF ReadTypeOK
  <2>4. Len(List) = Cardinality(rows[pinned]) /\ Cardinality(rows[pinned]) \in Nat
    BY <2>2, ListPlaces, RowsFinite DEF List
  <2>5. Len(collected) + Len(batch) <= Cardinality(rows[pinned])
    BY <2>2, <2>4 DEF TakenInv
  <2>6. Cardinality(rows[pinned]) <= MaxRecords /\ ~ (Len(collected) < MaxRecords)
    BY <2>1 DEF MayTake, Fits
  <2> QED
    BY <2>3, <2>4, <2>5, <2>6, LimitsAssumption
<1> QED
  BY <1>2, <1>3, <1>4, <1>5, <1>6

\* The next cursor is greater than any before, so that it is a new one.
LEMMA EndPageKeeps == ASSUME ReadInv, EndPage PROVE ReadInv'
<1> USE DEF ReadInv
<1>1. /\ readerAt = "taking" /\ batch = <<>>
      /\ UNCHANGED <<rows, latest, kind, limit, dataset, pinned, pages, batch, next, collected>>
  BY DEF EndPage, serverVars, fixedVars, itemVars
<1>2. pages # 0 /\ pinned # Nothing /\ pinned \in 1 .. SnapshotCount
  BY <1>1, AnsweredIs DEF UnpinnedInv
<1>3. Len(batch) = 0 /\ Len(collected) \in Nat /\ Len(collected) + Len(batch) = Len(collected)
  BY <1>1, EmptySeq DEF ReadTypeOK
<1>4. List' = List
  BY <1>1 DEF List
<1>5. TakenInv'
  BY <1>1, <1>4 DEF TakenInv
<1>6. CASE next = Nothing
  <2>1. /\ readerAt' = IF kind \in Exports THEN "closing" ELSE "returned"
        /\ UNCHANGED <<cursor, cursors>>
    BY <1>6 DEF EndPage
  <2>2. Len(collected) = Len(List)
    BY <1>1, <1>3, <1>6 DEF TakingInv
  <2>3. ReadTypeOK'
    BY <1>1, <2>1 DEF ReadTypeOK
  <2>4. SnapshotInv'
    BY <1>1, <2>1 DEF SnapshotInv
  <2>5. UnpinnedInv'
    BY <1>1, <1>2, <2>1 DEF UnpinnedInv
  <2>6. AskingInv' /\ TakingInv' /\ PinnedIsUndisturbed'
    BY <2>1 DEF AskingInv, TakingInv, PinnedIsUndisturbed
  <2>7. EndedInv'
    BY <1>1, <1>4, <2>2 DEF EndedInv
  <2> QED
    BY <1>5, <2>3, <2>4, <2>5, <2>6, <2>7
<1>7. CASE next # Nothing
  <2>1. /\ readerAt' = IF next \in cursors THEN "refused" ELSE "asking"
        /\ cursor' = next /\ cursors' = cursors \cup {next}
    BY <1>7 DEF EndPage
  <2>2. /\ Len(collected) = limit * pages /\ Len(collected) < Len(List)
        /\ next = List[Len(collected)] /\ \A c \in cursors : c < next
    BY <1>1, <1>3, <1>7 DEF TakingInv
  <2>3. next \in Ids /\ next \in Int /\ \A c \in cursors : c \in Int
    BY <1>7 DEF ReadTypeOK, Ids
  <2>4. next \notin cursors /\ readerAt' = "asking"
    BY <2>1, <2>2, <2>3
  <2>5. ReadTypeOK'
    BY <1>1, <2>1, <2>3, <2>4 DEF ReadTypeOK
  <2>6. SnapshotInv'
    BY <1>1, <2>4 DEF SnapshotInv
  <2>7. UnpinnedInv'
    BY <1>1, <1>2, <2>4 DEF UnpinnedInv
  <2>8. TakingInv' /\ PinnedIsUndisturbed' /\ EndedInv'
    BY <2>4 DEF TakingInv, PinnedIsUndisturbed, EndedInv
  <2>9. \A c \in cursors' : c <= cursor'
    BY <2>1, <2>2, <2>3
  <2>10. AskingInv'
    BY <1>1, <1>4, <2>1, <2>2, <2>9 DEF AskingInv
  <2> QED
    BY <1>5, <2>5, <2>6, <2>7, <2>8, <2>10
<1> QED
  BY <1>6, <1>7

\* The collector's second look: what it has is the list of its dataset, whose count it
\* compares; a water-supply export reads the dataset again.
LEMMA CloseExportKeeps == ASSUME ReadInv, CloseExport PROVE ReadInv'
<1> USE DEF ReadInv
<1>1. /\ readerAt = "closing"
      /\ UNCHANGED <<rows, latest, kind, limit, dataset, pinned, cursor, cursors, pages,
                     batch, next, collected>>
  BY DEF CloseExport, serverVars, fixedVars, pageVars, itemVars
<1>2. readerAt' = IF /\ Len(collected) = Cardinality(rows[dataset])
                     /\ kind = "supply_export" => latest = dataset
                  THEN "returned" ELSE "refused"
  BY DEF CloseExport
<1>3. /\ kind \in Exports /\ pages # 0 /\ pinned # Nothing /\ pinned \in 1 .. SnapshotCount
      /\ Len(collected) = Len(List) /\ batch = <<>>
  BY <1>1, AnsweredIs DEF SnapshotInv, UnpinnedInv, EndedInv
<1>4. Len(List) = Cardinality(rows[pinned])
  BY <1>3, ListPlaces DEF List
<1>5. ReadTypeOK'
  BY <1>1, <1>2 DEF ReadTypeOK
<1>6. readerAt' = "returned" => dataset = pinned
  <2>1. CASE kind = "thames_export"
    BY <2>1 DEF SnapshotInv
  <2>2. CASE kind = "supply_export"
    <3>1. /\ dataset <= pinned /\ pinned <= latest
          /\ readerAt' = "returned" => latest = dataset
          /\ dataset \in Nat /\ pinned \in Nat
      BY <1>2, <1>3, <2>2 DEF SnapshotInv, ReadTypeOK
    <3> QED
      BY <3>1
  <2> QED
    BY <1>3, <2>1, <2>2 DEF Exports
<1>7. SnapshotInv'
  BY <1>1, <1>2, <1>6 DEF SnapshotInv
<1>8. UnpinnedInv'
  BY <1>1, <1>3 DEF UnpinnedInv
<1>9. TakenInv' /\ AskingInv' /\ TakingInv'
  BY <1>1, <1>2 DEF TakenInv, AskingInv, TakingInv, List
<1>10. EndedInv'
  BY <1>1, <1>3 DEF EndedInv, List
<1>11. PinnedIsUndisturbed'
  <2> SUFFICES ASSUME kind \in Pins PROVE readerAt' # "refused"
    BY <1>1 DEF PinnedIsUndisturbed
  <2>1. kind = "thames_export" /\ dataset = pinned
    BY <1>3 DEF SnapshotInv, Exports, Pins
  <2> QED
    BY <1>2, <1>3, <1>4, <2>1
<1> QED
  BY <1>5, <1>7, <1>8, <1>9, <1>10, <1>11

LEMMA BreakReadKeeps == ASSUME ReadInv, BreakRead PROVE ReadInv'
<1> USE DEF ReadInv
<1>1. /\ readerAt' = "broken"
      /\ UNCHANGED <<rows, latest, kind, limit, dataset, pinned, cursor, cursors, pages,
                     batch, next, collected>>
  BY DEF BreakRead, serverVars, fixedVars, pageVars, itemVars
<1>2. ReadTypeOK'
  BY <1>1 DEF ReadTypeOK
<1>3. SnapshotInv'
  BY <1>1 DEF SnapshotInv
<1>4. UnpinnedInv' /\ TakenInv' /\ EndedInv'
  BY <1>1 DEF UnpinnedInv, TakenInv, EndedInv, List
<1>5. AskingInv' /\ TakingInv' /\ PinnedIsUndisturbed'
  BY <1>1 DEF AskingInv, TakingInv, PinnedIsUndisturbed
<1> QED
  BY <1>2, <1>3, <1>4, <1>5

LEMMA ReadStays == ASSUME ReadInv, UNCHANGED readVars PROVE ReadInv'
<1> USE DEF ReadInv
<1>1. UNCHANGED <<rows, latest, kind, limit, readerAt, dataset, pinned, cursor, cursors, pages,
                  batch, next, collected>>
  BY DEF readVars, serverVars, fixedVars, pageVars, itemVars
<1>2. ReadTypeOK'
  BY <1>1 DEF ReadTypeOK
<1>3. SnapshotInv'
  BY <1>1 DEF SnapshotInv
<1>4. UnpinnedInv' /\ TakenInv' /\ EndedInv'
  BY <1>1 DEF UnpinnedInv, TakenInv, EndedInv, List
<1>5. AskingInv' /\ TakingInv'
  BY <1>1 DEF AskingInv, TakingInv, List
<1>6. PinnedIsUndisturbed'
  BY <1>1 DEF PinnedIsUndisturbed, Fits
<1> QED
  BY <1>2, <1>3, <1>4, <1>5, <1>6

\* Wherever publications fall, a read keeps its place in the list of one snapshot.
THEOREM ReadInvariant == ReadSpec => []ReadInv
<1>1. ReadInit => ReadInv
  BY ReadInitial
<1>2. ReadInv /\ [ReadNext]_readVars => ReadInv'
  <2> SUFFICES ASSUME ReadInv, [ReadNext]_readVars PROVE ReadInv'
    OBVIOUS
  <2>1. CASE PublishNewer
    BY <2>1, PublishKeeps
  <2>2. CASE ReadDataset
    BY <2>2, ReadDatasetKeeps
  <2>3. CASE ReadPage
    BY <2>3, ReadPageKeeps
  <2>4. CASE RefusePage
    BY <2>4, RefusePageKeeps
  <2>5. CASE TakeItem
    BY <2>5, TakeItemKeeps
  <2>6. CASE RefuseItem
    BY <2>6, RefuseItemKeeps
  <2>7. CASE EndPage
    BY <2>7, EndPageKeeps
  <2>8. CASE CloseExport
    BY <2>8, CloseExportKeeps
  <2>9. CASE BreakRead
    BY <2>9, BreakReadKeeps
  <2>10. CASE ReadDone \/ UNCHANGED readVars
    BY <2>10, ReadStays DEF ReadDone
  <2> QED
    BY <2>1, <2>2, <2>3, <2>4, <2>5, <2>6, <2>7, <2>8, <2>9, <2>10 DEF ReadNext
<1> QED
  BY <1>1, <1>2, PTL DEF ReadSpec

LEMMA WholeSubSeq == ASSUME NEW S, NEW s \in Seq(S) PROVE SubSeq(s, 1, Len(s)) = s
<1> QED
  OBVIOUS

\* Nothing is skipped, repeated, reordered or mixed, whatever is published meanwhile, and a
\* read that returns has the whole list of one snapshot.
THEOREM ReadAlwaysIsOneSnapshot == ReadSpec => []ReadIsOneSnapshot
<1>1. ReadInv => ReadIsOneSnapshot
  <2> SUFFICES ASSUME ReadInv PROVE ReadIsOneSnapshot
    OBVIOUS
  <2> USE DEF ReadInv
  <2> DEFINE k == Len(collected)
  <2>1. /\ k \in Nat /\ Len(batch) \in Nat
        /\ collected \in Seq([id : Ids, snapshot : 1 .. SnapshotCount])
    BY DEF ReadTypeOK
  <2>2. Len(Taken) = k /\ \A i \in 1 .. k : Taken[i] = collected[i].id
    BY <2>1 DEF Taken
  <2>3. CASE pages = 0
    <3>1. k = 0 /\ collected = <<>> /\ readerAt # "returned"
      BY <2>3, EmptySeq DEF UnpinnedInv
    <3> QED
      BY <3>1 DEF ReadIsOneSnapshot, NothingSkippedOrMixed, ReturnedIsComplete
  <2>4. CASE pages # 0
    <3>1. pinned \in 1 .. SnapshotCount
      BY <2>4, AnsweredIs DEF UnpinnedInv
    <3>2. List \in Seq(Ids) /\ Len(List) \in Nat
      BY <3>1, ListPlaces DEF List
    <3>3. /\ k <= Len(List)
          /\ \A i \in 1 .. k : collected[i].snapshot = pinned /\ collected[i].id = List[i]
      BY <2>1, <2>4, <3>2 DEF TakenInv
    <3>4. \A i \in 1 .. k : Taken[i] = List[i]
      BY <2>2, <3>3
    <3>5. Taken = SubSeq(List, 1, k)
      <4>1. k = 0 \/ k \in 1 .. Len(List)
        BY <2>1, <3>2, <3>3
      <4>2. Taken = [i \in 1 .. k |-> List[i]]
        BY <3>4, <2>2 DEF Taken
      <4> QED
        BY <2>1, <3>2, <3>3, <4>2
    <3>s. Taken \in Seq(Ids)
      <4>1. Taken = [i \in 1 .. k |-> collected[i].id]
        BY DEF Taken
      <4>2. ASSUME NEW i \in 1 .. k PROVE collected[i].id \in Ids
        <5>1. collected[i] \in [id : Ids, snapshot : 1 .. SnapshotCount]
          BY <2>1, ElementOfSeq
        <5> QED
          BY <5>1
      <4> QED
        BY <2>1, <4>1, <4>2
    <3>t. SubSeq(Taken, 1, Len(Taken)) = Taken
      BY <3>s, WholeSubSeq
    <3>6. IsPrefix(Taken, List)
      BY <2>2, <3>3, <3>5, <3>t DEF IsPrefix
    <3>7. readerAt = "returned" => Taken = List /\ (kind \in Exports => dataset = pinned)
      <4>1. ASSUME readerAt = "returned" PROVE Taken = List
        <5>1. k = Len(List)
          BY <4>1 DEF EndedInv
        <5> QED
          BY <2>1, <3>2, <3>5, <5>1
      <4> QED
        BY <4>1 DEF SnapshotInv
    <3> QED
      BY <3>3, <3>6, <3>7
      DEF ReadIsOneSnapshot, NothingSkippedOrMixed, ReturnedIsComplete, List
  <2> QED
    BY <2>3, <2>4
<1> QED
  BY <1>1, ReadInvariant, PTL

\* Neither a publication nor a limit ends a read that pins its snapshot and fits.
THEOREM PinnedAlwaysUndisturbed == ReadSpec => []PinnedIsUndisturbed
<1>1. ReadInv => PinnedIsUndisturbed
  BY DEF ReadInv
<1> QED
  BY <1>1, ReadInvariant, PTL

-----------------------------------------------------------------------------
(***************************************************************************)
(* StaticSite, for any database, page limits and site limit.               *)
(*                                                                         *)
(* ORDER BY ... LIMIT, the sorted slices of the builder and the loops of   *)
(* staticData.ts all take the first of some order: the proof is about such *)
(* orders.  SiteInv says that the files are those of a database that       *)
(* passed the builder's checks, which leave out nothing; ReportInv that    *)
(* the stated size grows by at least a byte with every attempt and never   *)
(* by more than fifteen in all, so that an attempt is left over.           *)
(***************************************************************************)

(* The first rows of any order: what LIMIT leaves. *)

\* R is a strict total order on S, as a set of pairs.
Orders(R, S) ==
    /\ \A x \in S : <<x, x>> \notin R
    /\ \A x, y, z \in S : <<x, y>> \in R /\ <<y, z>> \in R => <<x, z>> \in R
    /\ \A x, y \in S : x # y => <<x, y>> \in R \/ <<y, x>> \in R

Preceding(S, R, x) == {y \in S : <<y, x>> \in R}
FirstOf(S, R, n)   == {x \in S : Cardinality(Preceding(S, R, x)) < n}

LEMMA PrecedingFinite ==
    ASSUME NEW S, NEW R, IsFiniteSet(S), NEW x \in S
    PROVE  /\ IsFiniteSet(Preceding(S, R, x)) /\ Cardinality(Preceding(S, R, x)) \in Nat
           /\ Preceding(S, R, x) \in SUBSET S
<1>1. Preceding(S, R, x) \in SUBSET S
  BY DEF Preceding
<1> QED
  BY <1>1, FS_Subset, FS_CardinalityType

LEMMA PrecedingGrows ==
    ASSUME NEW S, NEW R, IsFiniteSet(S), Orders(R, S), NEW x \in S, NEW z \in S, <<x, z>> \in R
    PROVE  Cardinality(Preceding(S, R, x)) < Cardinality(Preceding(S, R, z))
<1>1. Preceding(S, R, x) \in SUBSET Preceding(S, R, z)
  BY DEF Preceding, Orders
<1>2. x \in Preceding(S, R, z) /\ x \notin Preceding(S, R, x)
  BY DEF Preceding, Orders
<1>3. Preceding(S, R, x) # Preceding(S, R, z)
  BY <1>2
<1>4. /\ Cardinality(Preceding(S, R, x)) <= Cardinality(Preceding(S, R, z))
      /\ Cardinality(Preceding(S, R, x)) # Cardinality(Preceding(S, R, z))
  BY <1>1, <1>3, PrecedingFinite, FS_Subset
<1> QED
  BY <1>4, PrecedingFinite

LEMMA PrecedingRange ==
    ASSUME NEW S, NEW R, IsFiniteSet(S), Orders(R, S), NEW x \in S
    PROVE  Cardinality(Preceding(S, R, x)) < Cardinality(S)
<1>1. x \notin Preceding(S, R, x)
  BY DEF Preceding, Orders
<1>2. Preceding(S, R, x) # S
  BY <1>1
<1>3. /\ Cardinality(Preceding(S, R, x)) <= Cardinality(S)
      /\ Cardinality(Preceding(S, R, x)) # Cardinality(S)
  BY <1>2, PrecedingFinite, FS_Subset
<1> QED
  BY <1>3, PrecedingFinite, FS_CardinalityType

LEMMA PrecedingDecides ==
    ASSUME NEW S, NEW R, IsFiniteSet(S), Orders(R, S), NEW x \in S, NEW z \in S,
           Cardinality(Preceding(S, R, x)) = Cardinality(Preceding(S, R, z))
    PROVE  x = z
<1>1. /\ Cardinality(Preceding(S, R, x)) \in Nat /\ Cardinality(Preceding(S, R, z)) \in Nat
      /\ <<x, z>> \notin R /\ <<z, x>> \notin R
  BY PrecedingFinite, PrecedingGrows
<1> QED
  BY <1>1 DEF Orders

\* Every number of predecessors occurs.
LEMMA PrecedingCovers ==
    ASSUME NEW S, NEW R, IsFiniteSet(S), Orders(R, S), NEW i \in 0 .. Cardinality(S) - 1
    PROVE  \E x \in S : Cardinality(Preceding(S, R, x)) = i
<1> DEFINE n == Cardinality(S)
           f == [x \in S |-> Cardinality(Preceding(S, R, x))]
<1>1. n \in Nat
  BY FS_CardinalityType
<1>2. IsFiniteSet(0 .. n - 1) /\ Cardinality(0 .. n - 1) = n
  BY <1>1, FS_Interval
<1>3. \A x \in S : Cardinality(Preceding(S, R, x)) \in 0 .. n - 1
  BY <1>1, PrecedingFinite, PrecedingRange
<1>4. f \in Injection(S, 0 .. n - 1)
  BY <1>3, PrecedingDecides DEF Injection, IsInjective
<1>5. f \in Surjection(S, 0 .. n - 1)
  BY <1>2, <1>4, FS_Injection
<1> QED
  BY <1>5 DEF Surjection

LEMMA FirstCount ==
    ASSUME NEW S, NEW R, IsFiniteSet(S), Orders(R, S), NEW n \in Nat
    PROVE  IF Cardinality(S) <= n THEN FirstOf(S, R, n) = S
           ELSE Cardinality(FirstOf(S, R, n)) = n
<1>0. Cardinality(S) \in Nat
  BY FS_CardinalityType
<1>1. CASE Cardinality(S) <= n
  BY <1>0, <1>1, PrecedingRange, PrecedingFinite DEF FirstOf
<1>2. CASE n < Cardinality(S)
  <2> DEFINE T == FirstOf(S, R, n)
             f == [x \in T |-> Cardinality(Preceding(S, R, x))]
  <2>1. T \in SUBSET S /\ IsFiniteSet(T)
    BY FS_Subset DEF FirstOf
  <2>2. \A x \in T : Cardinality(Preceding(S, R, x)) \in 0 .. n - 1
    BY PrecedingFinite DEF FirstOf
  <2>3. \A i \in 0 .. n - 1 : \E x \in T : Cardinality(Preceding(S, R, x)) = i
    <3> SUFFICES ASSUME NEW i \in 0 .. n - 1
                 PROVE  \E x \in T : Cardinality(Preceding(S, R, x)) = i
      OBVIOUS
    <3>1. i \in 0 .. Cardinality(S) - 1 /\ i < n
      BY <1>0, <1>2
    <3> QED
      BY <3>1, PrecedingCovers DEF FirstOf
  <2>4. \A x, z \in T : Cardinality(Preceding(S, R, x)) = Cardinality(Preceding(S, R, z)) => x = z
    BY <2>1, PrecedingDecides
  <2> HIDE DEF T
  <2>5. f \in Surjection(T, 0 .. n - 1) /\ f \in Injection(T, 0 .. n - 1)
    BY <2>2, <2>3, <2>4 DEF Surjection, Injection, IsInjective
  <2>6. Cardinality(0 .. n - 1) = Cardinality(T)
    BY <2>1, <2>5, FS_Surjection
  <2>7. Cardinality(0 .. n - 1) = n
    BY FS_Interval
  <2> QED
    BY <1>0, <1>2, <2>6, <2>7 DEF T
<1> QED
  BY <1>0, <1>1, <1>2

\* What is not among the first comes after all of them.
LEMMA FirstBefore ==
    ASSUME NEW S, NEW R, IsFiniteSet(S), Orders(R, S), NEW n \in Nat,
           NEW x \in FirstOf(S, R, n), NEW y \in S \ FirstOf(S, R, n)
    PROVE  <<x, y>> \in R
<1>1. x \in S /\ y \in S /\ x # y
  BY DEF FirstOf
<1>2. /\ Cardinality(Preceding(S, R, x)) \in Nat /\ Cardinality(Preceding(S, R, y)) \in Nat
      /\ Cardinality(Preceding(S, R, x)) < n /\ ~ (Cardinality(Preceding(S, R, y)) < n)
  BY <1>1, PrecedingFinite DEF FirstOf
<1>3. <<y, x>> \notin R
  BY <1>1, <1>2, PrecedingGrows
<1> QED
  BY <1>1, <1>3 DEF Orders

-----------------------------------------------------------------------------
(* A list in the order of its identifiers. *)

\* The identifiers below one another, or the places in a list.
Smaller(S) == {pair \in S \X S : pair[1] < pair[2]}

LEMMA SmallerOrders == ASSUME NEW S \in SUBSET Int PROVE Orders(Smaller(S), S)
<1>1. \A x, y \in S : <<x, y>> \in Smaller(S) <=> x < y
  BY DEF Smaller
<1> QED
  BY <1>1 DEF Orders

LEMMA ForemostFirst ==
    ASSUME NEW S \in SUBSET Int, NEW n PROVE Foremost(S, n) = FirstOf(S, Smaller(S), n)
<1>1. \A x, y \in S : <<y, x>> \in Smaller(S) <=> y < x
  BY DEF Smaller
<1>2. \A x \in S : {y \in S : y < x} = Preceding(S, Smaller(S), x)
  BY <1>1 DEF Preceding
<1> QED
  BY <1>2 DEF Foremost, FirstOf

\* The greatest of a finite set of identifiers has no other above it.
LEMMA GreatestIs ==
    ASSUME NEW S \in SUBSET Int, IsFiniteSet(S), S # {}
    PROVE  Greatest(S) \in S /\ \A y \in S : y <= Greatest(S)
<1>1. Cardinality(S) \in Nat \ {0}
  BY FS_CardinalityType, FS_EmptySet
<1>2. PICK x \in S : Rank(S, x) = Cardinality(S)
  BY <1>1, RankCovers
<1>3. {y \in S : y <= x} = S
  BY <1>2, FS_Subset DEF Rank
<1>4. \A y \in S : y <= x
  BY <1>3
<1> QED
  BY <1>4 DEF Greatest

LEMMA GreatestOnly ==
    ASSUME NEW S \in SUBSET Int, NEW x \in S, \A y \in S : y <= x
    PROVE  Greatest(S) = x
<1>1. Greatest(S) \in S /\ \A y \in S : y <= Greatest(S)
  BY DEF Greatest
<1>2. Greatest(S) <= x /\ x <= Greatest(S) /\ x \in Int /\ Greatest(S) \in Int
  BY <1>1
<1> QED
  BY <1>2

\* An injective list has as many entries at some places as there are places.
LEMMA PlacesCount ==
    ASSUME NEW L, NEW Q, IsFiniteSet(Q), \A i, j \in Q : L[i] = L[j] => i = j
    PROVE  /\ IsFiniteSet({L[i] : i \in Q})
           /\ Cardinality({L[i] : i \in Q}) = Cardinality(Q)
<1> DEFINE T == {L[i] : i \in Q}
           f == [i \in Q |-> L[i]]
<1>1. f \in Surjection(Q, T) /\ f \in Injection(Q, T)
  BY DEF Surjection, Injection, IsInjective
<1> QED
  BY <1>1, FS_Surjection

\* A sorted list of the identifiers S, as the next lemmas use it.
Sorts(L, S) ==
    /\ DOMAIN L = 1 .. Cardinality(S)
    /\ \A i \in DOMAIN L : L[i] \in S
    /\ \A x \in S : \E i \in DOMAIN L : L[i] = x
    /\ \A i, j \in DOMAIN L : L[i] < L[j] <=> i < j
    /\ \A i, j \in DOMAIN L : L[i] = L[j] => i = j

LEMMA AscendingSorts ==
    ASSUME NEW S \in SUBSET Int, IsFiniteSet(S)
    PROVE  Sorts(Ascending(S), S)
<1> DEFINE A == Ascending(S)
           n == Cardinality(S)
<1>1. /\ A \in Seq(S) /\ Len(A) = n
      /\ \A i \in 1 .. n : A[i] \in S /\ Rank(S, A[i]) = i
  BY AscendingPlaces
<1>2. DOMAIN A = 1 .. n
  BY <1>1
<1> HIDE DEF A
<1>3. ASSUME NEW x \in S PROVE \E i \in 1 .. n : A[i] = x
  <2>1. Rank(S, x) \in 1 .. n
    BY RankRange
  <2>2. PICK z \in S : z = A[Rank(S, x)] /\ Rank(S, z) = Rank(S, x)
    BY <1>1, <2>1
  <2>3. z = x
    BY <2>2, RankDecides
  <2> QED
    BY <2>1, <2>2, <2>3
<1>4. ASSUME NEW i \in 1 .. n, NEW j \in 1 .. n, A[i] < A[j] PROVE i < j
  <2>1. A[i] \in S /\ A[j] \in S /\ Rank(S, A[i]) = i /\ Rank(S, A[j]) = j
    BY <1>1
  <2>2. Rank(S, A[i]) < Rank(S, A[j])
    BY <1>4, <2>1, RankGrows
  <2> QED
    BY <2>1, <2>2
<1>5. ASSUME NEW i \in 1 .. n, NEW j \in 1 .. n, A[i] = A[j] PROVE i = j
  BY <1>1, <1>5
<1>6. ASSUME NEW i \in 1 .. n, NEW j \in 1 .. n, i < j PROVE A[i] < A[j]
  <2>1. A[i] # A[j] /\ ~ (A[j] < A[i])
    BY <1>4, <1>5, <1>6
  <2>2. A[i] \in Int /\ A[j] \in Int
    BY <1>1
  <2> QED
    BY <2>1, <2>2
<1>7. Sorts(A, S)
  BY <1>1, <1>2, <1>3, <1>4, <1>5, <1>6 DEF Sorts
<1> QED
  BY <1>7 DEF A

LEMMA SortedEntries ==
    ASSUME NEW S, NEW L, Sorts(L, S) PROVE Entries(L) = S
BY DEF Sorts, Entries

\* The loop of staticData.ts over a sorted list gives the page of the query.
LEMMA PageAgrees ==
    ASSUME NEW S \in SUBSET Int, IsFiniteSet(S), NEW L, Sorts(L, S),
           NEW after \in Int, NEW most \in Nat \ {0}
    PROVE  SitePage(L, after, most) = ApiPage(S, after, most)
<1> DEFINE P == {i \in DOMAIN L : L[i] > after}
           F == {id \in S : id > after}
           C == Foremost(P, most)
           D == Foremost(F, most)
<1>1. Cardinality(S) \in Nat /\ IsFiniteSet(DOMAIN L) /\ DOMAIN L \in SUBSET Int
  BY FS_CardinalityType, FS_Interval DEF Sorts
<1>2. P \in SUBSET Int /\ IsFiniteSet(P) /\ F \in SUBSET Int /\ IsFiniteSet(F)
  BY <1>1, FS_Subset
<1>3. /\ \A i \in P : L[i] \in F
      /\ \A x \in F : \E i \in P : L[i] = x
      /\ \A i, j \in P : L[i] < L[j] <=> i < j
      /\ \A i, j \in P : L[i] = L[j] => i = j
  BY DEF Sorts
<1> HIDE DEF P, F
<1>4. Cardinality(P) = Cardinality(F)
  <2>1. F = {L[i] : i \in P}
    BY <1>3
  <2>2. \A i, j \in P : L[i] = L[j] => i = j
    BY <1>3
  <2>3. Cardinality({L[i] : i \in P}) = Cardinality(P)
    BY <1>2, <2>2, PlacesCount
  <2> QED
    BY <2>1, <2>3
<1>5. ASSUME NEW i \in P
      PROVE  Cardinality({y \in F : y < L[i]}) = Cardinality({k \in P : k < i})
  <2> DEFINE Q == {k \in P : k < i}
  <2>1. {y \in F : y < L[i]} = {L[k] : k \in Q}
    BY <1>3
  <2>2. IsFiniteSet(Q) /\ \A k, j \in Q : L[k] = L[j] => k = j
    BY <1>2, <1>3, FS_Subset
  <2> HIDE DEF Q
  <2>3. Cardinality({L[k] : k \in Q}) = Cardinality(Q)
    BY <2>2, PlacesCount
  <2> QED
    BY <2>1, <2>3 DEF Q
<1>6. D = {L[i] : i \in C}
  <2>1. /\ \A i \in P : i \in C <=> Cardinality({k \in P : k < i}) < most
        /\ \A i \in P : L[i] \in D <=> Cardinality({y \in F : y < L[i]}) < most
    BY <1>3 DEF Foremost
  <2>2. \A i \in P : L[i] \in D <=> i \in C
    BY <1>5, <2>1
  <2>3. C \in SUBSET P /\ D \in SUBSET F
    BY DEF Foremost
  <2> HIDE DEF C, D
  <2>4. ASSUME NEW x \in D PROVE \E i \in C : L[i] = x
    BY <1>3, <2>2, <2>3
  <2> QED
    BY <2>2, <2>3, <2>4
<1>7. C \in SUBSET P /\ IsFiniteSet(C)
  BY <1>2, FS_Subset DEF Foremost
<1>8. ASSUME Cardinality(P) > most PROVE L[Greatest(C)] = Greatest(D)
  <2>1. Cardinality(P) \in Nat /\ ~ (Cardinality(P) <= most)
    BY <1>2, <1>8, FS_CardinalityType
  <2>2. Cardinality(C) = most
    BY <1>2, <2>1, FirstCount, SmallerOrders, ForemostFirst
  <2>3. C # {}
    BY <2>2, FS_EmptySet
  <2>4. C \in SUBSET Int /\ D \in SUBSET Int
    BY <1>2, <1>7 DEF Foremost
  <2> HIDE DEF C, D
  <2>5. PICK g \in C : g = Greatest(C) /\ \A j \in C : j <= g
    BY <1>7, <2>3, <2>4, GreatestIs
  <2>6. L[g] \in D /\ \A y \in D : y <= L[g]
    <3>1. L[g] \in D
      BY <1>6
    <3>2. ASSUME NEW y \in D PROVE y <= L[g]
      <4>1. PICK j \in C : L[j] = y
        BY <1>6
      <4>2. j <= g /\ j \in Int /\ g \in Int /\ y \in Int /\ L[g] \in Int
        BY <2>4, <2>5, <3>1
      <4>3. j = g \/ j < g
        BY <4>2
      <4> QED
        BY <1>3, <1>7, <4>1, <4>2, <4>3
    <3> QED
      BY <3>1, <3>2
  <2>7. Greatest(D) = L[g]
    BY <2>4, <2>6, GreatestOnly
  <2> QED
    BY <2>5, <2>7
<1>9. SitePage(L, after, most)
        = [items |-> {L[i] : i \in C},
           next  |-> IF Cardinality(P) > most THEN L[Greatest(C)] ELSE None]
  BY DEF SitePage, P
<1>10. ApiPage(S, after, most)
         = [items |-> D, next |-> IF Cardinality(F) > most THEN Greatest(D) ELSE None]
  BY DEF ApiPage, F
<1> HIDE DEF C, D
<1> QED
  BY <1>4, <1>6, <1>8, <1>9, <1>10

-----------------------------------------------------------------------------
(* What the builder's checks establish. *)

\* Pages that hold as many identifiers as there are hold them all.
LEMMA CollectedWhole ==
    ASSUME NEW S \in SUBSET Int, IsFiniteSet(S), NEW k \in Nat,
           Len(Collected(S, k)) = Cardinality(S) \/ Cardinality(S) <= PageSize * k
    PROVE  Sorts(Collected(S, k), S)
<1> DEFINE n == PageSize * k
           T == Foremost(S, n)
<1>1. n \in Nat /\ Cardinality(S) \in Nat
  BY PagesAssumption, FS_CardinalityType
<1> HIDE DEF n
<1>2. T = FirstOf(S, Smaller(S), n) /\ Orders(Smaller(S), S)
  BY SmallerOrders, ForemostFirst
<1>3. T \in SUBSET Int /\ IsFiniteSet(T)
  BY FS_Subset DEF Foremost
<1>4. Len(Ascending(T)) = Cardinality(T)
  BY <1>3, AscendingPlaces
<1>5. Cardinality(S) <= n \/ Cardinality(T) = Cardinality(S)
  BY <1>4 DEF Collected, n
<1>6. T = S
  <2>1. CASE Cardinality(S) <= n
    BY <1>1, <1>2, <2>1, FirstCount
  <2>2. CASE Cardinality(T) = Cardinality(S)
    <3>1. T \in SUBSET S
      BY DEF Foremost
    <3> QED
      BY <2>2, <3>1, FS_Subset
  <2> QED
    BY <1>5, <2>1, <2>2
<1> QED
  BY <1>6, AscendingSorts DEF Collected, n

LEMMA ContentsTypes ==
    ASSUME contents \in Databases
    PROVE  /\ DOMAIN contents.points \in SUBSET Int /\ IsFiniteSet(DOMAIN contents.points)
           /\ \A p \in DOMAIN contents.points : contents.points[p] \in PointRows
           /\ Areas \in SUBSET Int /\ None \notin Areas /\ IsFiniteSet(Areas)
           /\ \A a \in DOMAIN contents.floods : contents.floods[a] \subseteq Nat \ {None}
           /\ contents.bytes \in Nat /\ contents.bytes >= 1000
BY DatabasesAssumption DEF Areas

\* The company index leaves no area out, and every list is whole and sorted.
LEMMA CompleteLists ==
    ASSUME contents \in Databases, Complete
    PROVE  /\ Sorts(Collected(DOMAIN contents.points, PointPages), DOMAIN contents.points)
           /\ Sorts(AreaList, Areas)
           /\ Counted = Areas
           /\ \A company \in Acronyms : /\ CountedOf(company) = AreasOf(company)
                                        /\ Sorts(CompanyList(company), AreasOf(company))
<1>1. Sorts(Collected(DOMAIN contents.points, PointPages), DOMAIN contents.points)
  <2>1. Cardinality(DOMAIN contents.points) <= PageSize * PointPages
    BY DEF Complete
  <2> QED
    BY <2>1, ContentsTypes, PagesAssumption, CollectedWhole
<1>2. Sorts(AreaList, Areas)
  <2>1. Len(Collected(Areas, AreaPages)) = Cardinality(Areas)
    BY DEF Complete, AreaList
  <2> QED
    BY <2>1, ContentsTypes, PagesAssumption, CollectedWhole DEF AreaList
<1>3. Counted = Areas
  <2>1. Counted \in SUBSET Areas /\ Cardinality(Counted) = Cardinality(Areas)
    BY DEF Counted, Complete
  <2> QED
    BY <2>1, ContentsTypes, FS_Subset
<1>4. ASSUME NEW company \in Acronyms
      PROVE  /\ CountedOf(company) = AreasOf(company)
             /\ Sorts(CompanyList(company), AreasOf(company))
  <2>1. CountedOf(company) = AreasOf(company)
    BY <1>3 DEF CountedOf, AreasOf
  <2>2. Len(Collected(AreasOf(company), AreaPages)) = Cardinality(AreasOf(company))
    BY <2>1 DEF Complete, CompanyList
  <2>3. AreasOf(company) \in SUBSET Int /\ IsFiniteSet(AreasOf(company))
    <3>1. AreasOf(company) \in SUBSET Areas
      BY DEF AreasOf
    <3> QED
      BY <3>1, ContentsTypes, FS_Subset
  <2> QED
    BY <2>1, <2>2, <2>3, PagesAssumption, CollectedWhole DEF CompanyList
<1> QED
  BY <1>1, <1>2, <1>3, <1>4

\* What is read of an unchanged database is unchanged.
LEMMA ContentsDecide ==
    ASSUME contents' = contents PROVE Complete' = Complete /\ SiteFiles' = SiteFiles
<1>1. Areas' = Areas /\ LocatedPoints' = LocatedPoints /\ FloodRows' = FloodRows
  BY DEF Areas, LocatedPoints, FloodRows
<1>2. Counted' = Counted
  BY <1>1 DEF Counted
<1>3. Acronyms' = Acronyms
  BY <1>2 DEF Acronyms
<1>4. \A c : CountedOf(c)' = CountedOf(c) /\ AreasOf(c)' = AreasOf(c)
  BY <1>1, <1>2 DEF CountedOf, AreasOf
<1>5. AreaList' = AreaList /\ \A c : CompanyList(c)' = CompanyList(c)
  BY <1>1, <1>4 DEF AreaList, CompanyList
<1>6. \A c : ApiCompany(c)' = ApiCompany(c)
  BY <1>4 DEF ApiCompany
<1>7. \A s : Drawn(s)' = Drawn(s)
  BY DEF Drawn
<1>8. Complete' = Complete
  BY <1>1, <1>2, <1>3, <1>4, <1>5, <1>7 DEF Complete
<1>9. SiteFiles' = SiteFiles
  BY <1>1, <1>3, <1>5, <1>6 DEF SiteFiles
<1> QED
  BY <1>8, <1>9

SiteInv ==
    /\ contents \in Databases
    /\ siteAt \in {"reading", "written", "refused", "published", "unstable"}
    /\ siteAt \in {"written", "published"} => Complete /\ site = SiteFiles

LEMMA SiteStep == SiteInv /\ [SiteNext]_siteVars => SiteInv'
<1> SUFFICES ASSUME SiteInv, [SiteNext]_siteVars PROVE SiteInv'
  OBVIOUS
<1>1. contents' = contents
  BY DEF SiteNext, WriteSite, RefuseSite, SizeReport, Building, siteVars
<1>2. Complete' = Complete /\ SiteFiles' = SiteFiles
  BY <1>1, ContentsDecide
<1>3. CASE WriteSite
  BY <1>1, <1>2, <1>3 DEF WriteSite, Building, SiteInv
<1>4. CASE RefuseSite
  BY <1>1, <1>4 DEF RefuseSite, Building, SiteInv
<1>5. CASE SizeReport
  BY <1>1, <1>2, <1>5 DEF SizeReport, SiteInv
<1>6. CASE UNCHANGED siteVars
  BY <1>1, <1>2, <1>6 DEF siteVars, SiteInv
<1> QED
  BY <1>3, <1>4, <1>5, <1>6 DEF SiteNext

\* The files answer as the API does.
LEMMA FilesAnswer == SiteInv => SiteAnswersAsTheApi
<1> SUFFICES ASSUME SiteInv, siteAt = "published" PROVE SiteAnswersAsTheApi
  BY DEF SiteAnswersAsTheApi
<1>1. contents \in Databases /\ Complete /\ site = SiteFiles
  BY DEF SiteInv
<1>2. /\ Limits \in SUBSET (Nat \ {0}) /\ None \in Int
      /\ DOMAIN contents.points \in SUBSET Int /\ IsFiniteSet(DOMAIN contents.points)
      /\ Areas \in SUBSET Int /\ IsFiniteSet(Areas)
  BY <1>1, ContentsTypes, PagesAssumption DEF Limits, None
<1>3. /\ site.points = Collected(DOMAIN contents.points, PointPages)
      /\ site.companies = [company \in Acronyms |-> [summary |-> ApiCompany(company),
                                                     areas   |-> CompanyList(company)]]
      /\ site.outlines = [company \in Acronyms |-> Entries(CompanyList(company))]
      /\ site.floods = FloodRows
  BY <1>1 DEF SiteFiles
<1>4. ASSUME NEW most \in Limits, NEW after \in {None} \cup DOMAIN contents.points
      PROVE  SitePage(site.points, after, most) = ApiPoints(after, most)
  <2>1. Sorts(site.points, DOMAIN contents.points)
    BY <1>1, <1>3, CompleteLists
  <2>2. after \in Int /\ most \in Nat \ {0}
    BY <1>2
  <2> QED
    BY <1>2, <2>1, <2>2, PageAgrees DEF ApiPoints
<1>5. SiteCompanies = ApiCompanies
  BY <1>3 DEF SiteCompanies, ApiCompanies
<1>6. ASSUME NEW company \in Acronyms
      PROVE  /\ Sorts(CompanyList(company), AreasOf(company))
             /\ CountedOf(company) = AreasOf(company)
             /\ AreasOf(company) \in SUBSET Int /\ IsFiniteSet(AreasOf(company))
  <2>1. AreasOf(company) \in SUBSET Areas
    BY DEF AreasOf
  <2> QED
    BY <1>1, <1>2, <2>1, CompleteLists, FS_Subset
<1>7. ASSUME NEW company \in Acronyms, NEW most \in Limits, NEW after \in {None} \cup Areas
      PROVE  SiteCompanyAreas(company, after, most) = ApiCompanyAreas(company, after, most)
  <2>1. SitePage(CompanyList(company), after, most) = ApiPage(AreasOf(company), after, most)
    <3>1. after \in Int /\ most \in Nat \ {0}
      BY <1>2
    <3> QED
      BY <1>6, <3>1, PageAgrees
  <2> QED
    BY <1>3, <2>1 DEF SiteCompanyAreas, ApiCompanyAreas
<1>8. ASSUME NEW company \in Acronyms, DrawsCompany(company)
      PROVE  SiteCompanyGeometry(company) = ApiCompanyGeometry(company)
  <2> DEFINE drawn == ApiPage(AreasOf(company), None, CompanyLimit).items
  <2>1. Cardinality(drawn) = Cardinality(AreasOf(company))
    BY <1>6, <1>8 DEF DrawsCompany
  <2>2. drawn \in SUBSET AreasOf(company)
    BY DEF ApiPage, Foremost
  <2> HIDE DEF drawn
  <2>3. drawn = AreasOf(company)
    BY <1>6, <2>1, <2>2, FS_Subset
  <2>4. site.outlines[company] = AreasOf(company)
    BY <1>3, <1>6, SortedEntries
  <2> QED
    BY <1>3, <2>3, <2>4 DEF SiteCompanyGeometry, ApiCompanyGeometry, drawn
<1>9. ASSUME NEW warningsOnly \in BOOLEAN
      PROVE  FloodsShown(site.floods) = FloodsShown(ApiFloods(warningsOnly))
  BY <1>3 DEF FloodsShown, ApiFloods
<1> QED
  BY <1>4, <1>5, <1>7, <1>8, <1>9 DEF SiteAnswersAsTheApi

\* The files lose no area, no flood area and no warning.
LEMMA FilesAreWhole ==
    ASSUME contents \in Databases, Complete, site = SiteFiles PROVE AreasAreFound /\ FloodsAreTabled
<1>1. /\ site.companies = [company \in Acronyms |-> [summary |-> ApiCompany(company),
                                                     areas   |-> CompanyList(company)]]
      /\ site.outlines = [company \in Acronyms |-> Entries(CompanyList(company))]
      /\ site.drawings = Entries(AreaList)
      /\ site.floodAreas = {row.area : row \in FloodRows}
      /\ site.warnings = {row \in FloodRows : row.warning # None}
  BY DEF SiteFiles
<1>2. site.drawings = Areas
  BY <1>1, CompleteLists, SortedEntries
<1>3. ASSUME NEW company \in Acronyms
      PROVE  /\ Entries(site.companies[company].areas) = AreasOf(company)
             /\ site.outlines[company] = AreasOf(company)
  BY <1>1, CompleteLists, SortedEntries
<1>4. ASSUME NEW area \in Areas
      PROVE  \E company \in DOMAIN site.companies :
                /\ area \in site.outlines[company]
                /\ \A other \in DOMAIN site.companies :
                     area \in Entries(site.companies[other].areas) <=> other = company
  <2> DEFINE company == contents.areas[area].acronym
  <2>1. company \in Acronyms
    <3>1. area \in Counted
      BY CompleteLists
    <3> QED
      BY <3>1 DEF Acronyms
  <2>2. DOMAIN site.companies = Acronyms
    BY <1>1
  <2>3. \A other \in Acronyms : area \in AreasOf(other) <=> other = company
    BY DEF AreasOf
  <2> HIDE DEF company
  <2> QED
    BY <1>3, <2>1, <2>2, <2>3
<1>5. AreasAreFound
  BY <1>2, <1>4 DEF AreasAreFound
<1>6. /\ \A row \in FloodRows : /\ row.area \in DOMAIN contents.floods
                                /\ row.warning # None => row.warning \in contents.floods[row.area]
      /\ \A a \in DOMAIN contents.floods : \E row \in FloodRows : row.area = a
      /\ \A a \in DOMAIN contents.floods : \A w \in contents.floods[a] :
            \E row \in FloodRows : row.area = a /\ row.warning = w
  <2> DEFINE Warned(a) == IF contents.floods[a] = {} THEN {None} ELSE contents.floods[a]
             Rows(a) == {[area |-> a, warning |-> w] : w \in Warned(a)}
  <2>1. FloodRows = UNION {Rows(a) : a \in DOMAIN contents.floods}
    BY DEF FloodRows
  <2>2. /\ \A a : \A row \in Rows(a) : row.area = a /\ row.warning \in Warned(a)
        /\ \A a : \A w \in Warned(a) : \E row \in Rows(a) : row.area = a /\ row.warning = w
    <3> HIDE DEF Warned
    <3>1. ASSUME NEW a, NEW row \in Rows(a) PROVE row.area = a /\ row.warning \in Warned(a)
      OBVIOUS
    <3>2. ASSUME NEW a, NEW w \in Warned(a)
          PROVE  \E row \in Rows(a) : row.area = a /\ row.warning = w
      <4>1. [area |-> a, warning |-> w] \in Rows(a)
        OBVIOUS
      <4> QED
        BY <4>1
    <3> QED
      BY <3>1, <3>2
  <2>3. \A a : \E w : w \in Warned(a)
    OBVIOUS
  <2>4. \A a : \A w \in Warned(a) : w # None => w \in contents.floods[a]
    OBVIOUS
  <2>5. \A a : \A w \in contents.floods[a] : w \in Warned(a)
    OBVIOUS
  <2> HIDE DEF Warned, Rows
  <2>6. ASSUME NEW row \in FloodRows
        PROVE  /\ row.area \in DOMAIN contents.floods
               /\ row.warning # None => row.warning \in contents.floods[row.area]
    <3>1. PICK a \in DOMAIN contents.floods : row \in Rows(a)
      BY <2>1
    <3> QED
      BY <2>2, <2>4, <3>1
  <2>7. ASSUME NEW a \in DOMAIN contents.floods PROVE \E row \in FloodRows : row.area = a
    <3>1. PICK w : w \in Warned(a)
      BY <2>3
    <3>2. PICK row \in Rows(a) : row.area = a
      BY <2>2, <3>1
    <3> QED
      BY <2>1, <3>2
  <2>8. ASSUME NEW a \in DOMAIN contents.floods, NEW w \in contents.floods[a]
        PROVE  \E row \in FloodRows : row.area = a /\ row.warning = w
    <3>1. PICK row \in Rows(a) : row.area = a /\ row.warning = w
      BY <2>2, <2>5
    <3> QED
      BY <2>1, <3>1
  <2> QED
    BY <2>6, <2>7, <2>8
<1>7. site.floodAreas = DOMAIN contents.floods
  BY <1>1, <1>6
<1>8. {row.warning : row \in site.warnings} = UNION {contents.floods[a] : a \in site.floodAreas}
  <2>1. \A a \in DOMAIN contents.floods : None \notin contents.floods[a]
    BY ContentsTypes
  <2>2. ASSUME NEW a \in DOMAIN contents.floods, NEW w \in contents.floods[a]
        PROVE  w \in {row.warning : row \in site.warnings}
    <3>1. PICK row \in FloodRows : row.area = a /\ row.warning = w
      BY <1>6
    <3>2. row \in site.warnings
      BY <1>1, <2>1, <3>1
    <3> QED
      BY <3>1, <3>2
  <2>3. ASSUME NEW row \in site.warnings
        PROVE  \E a \in DOMAIN contents.floods : row.warning \in contents.floods[a]
    BY <1>1, <1>6
  <2> QED
    BY <1>7, <2>2, <2>3
<1> QED
  BY <1>5, <1>7, <1>8 DEF FloodsAreTabled

-----------------------------------------------------------------------------
(* The size of the report. *)

LEMMA DigitsTypes == \A n \in Nat : Digits(n) \in Nat /\ Digits(n) >= 1 /\ Digits(n) <= 10
<1> SUFFICES ASSUME NEW n \in Nat PROVE Digits(n) \in Nat /\ Digits(n) >= 1 /\ Digits(n) <= 10
  OBVIOUS
<1> DEFINE T == {p \in Powers : p <= n}
<1>1. T \in SUBSET Powers /\ IsFiniteSet(Powers) /\ Cardinality(Powers) <= 9
  BY SizesAssumption
<1>2. /\ Cardinality(T) \in Nat /\ Cardinality(Powers) \in Nat
      /\ Cardinality(T) <= Cardinality(Powers)
  BY <1>1, FS_Subset, FS_CardinalityType
<1> QED
  BY <1>1, <1>2 DEF Digits

LEMMA DigitsGrow == \A m, n \in Nat : m <= n => Digits(m) <= Digits(n)
<1> SUFFICES ASSUME NEW m \in Nat, NEW n \in Nat, m <= n PROVE Digits(m) <= Digits(n)
  OBVIOUS
<1> DEFINE T == {p \in Powers : p <= m}
           U == {p \in Powers : p <= n}
<1>1. Powers \subseteq Nat /\ IsFiniteSet(Powers)
  BY SizesAssumption
<1>2. T \in SUBSET U /\ U \in SUBSET Powers
  <2>1. \A p \in Powers : p <= m => p <= n
    BY <1>1
  <2> QED
    BY <2>1
<1>3. IsFiniteSet(U) /\ Cardinality(T) \in Nat /\ Cardinality(U) \in Nat
  BY <1>1, <1>2, FS_Subset, FS_CardinalityType
<1>4. Cardinality(T) <= Cardinality(U)
  BY <1>2, <1>3, FS_Subset
<1> QED
  BY <1>3, <1>4 DEF Digits

\* A thousand has three digits more than zero.
LEMMA DigitsOfThousand == \A n \in Nat : n >= 1000 => Digits(n) >= Digits(0) + 3
<1> SUFFICES ASSUME NEW n \in Nat, n >= 1000 PROVE Digits(n) >= Digits(0) + 3
  OBVIOUS
<1> DEFINE T == {p \in Powers : p <= n}
           Z == {p \in Powers : p <= 0}
           U == Z \cup {10}
           V == U \cup {100}
           W == V \cup {1000}
<1>1. Powers \subseteq Nat /\ IsFiniteSet(Powers) /\ {10, 100, 1000} \subseteq Powers
  BY SizesAssumption
<1>2. 10 \notin Z /\ 100 \notin U /\ 1000 \notin V
  OBVIOUS
<1>3. T \in SUBSET Powers /\ Z \in SUBSET Powers /\ W \in SUBSET T
  <2>1. \A p \in Powers : p <= 0 => p <= n
    BY <1>1
  <2>2. 10 <= n /\ 100 <= n /\ 1000 <= n
    OBVIOUS
  <2>3. Z \in SUBSET T /\ 10 \in T /\ 100 \in T /\ 1000 \in T
    <3>1. Z \in SUBSET T
      BY <2>1
    <3>2. 10 \in Powers /\ 100 \in Powers /\ 1000 \in Powers
      BY <1>1
    <3> QED
      BY <2>2, <3>1, <3>2
  <2>4. W = Z \cup {10, 100, 1000}
    OBVIOUS
  <2> HIDE DEF W, Z
  <2>5. W \in SUBSET T
    <3> HIDE DEF T
    <3> QED
      BY <2>3, <2>4
  <2> QED
    BY <2>5 DEF Z
<1>4. /\ IsFiniteSet(T) /\ Cardinality(T) \in Nat
      /\ IsFiniteSet(Z) /\ Cardinality(Z) \in Nat
  BY <1>1, <1>3, FS_Subset, FS_CardinalityType
<1> HIDE DEF Z
<1>5. IsFiniteSet(U) /\ Cardinality(U) = Cardinality(Z) + 1
  BY <1>2, <1>4, FS_AddElement
<1> HIDE DEF U
<1>6. IsFiniteSet(V) /\ Cardinality(V) = Cardinality(U) + 1
  BY <1>2, <1>5, FS_AddElement
<1> HIDE DEF V
<1>7. Cardinality(W) = Cardinality(V) + 1
  BY <1>2, <1>6, FS_AddElement
<1> HIDE DEF W
<1>8. Cardinality(W) <= Cardinality(T)
  BY <1>3, <1>4, FS_Subset
<1>9. Cardinality(Z) + 3 <= Cardinality(T)
  BY <1>4, <1>5, <1>6, <1>7, <1>8
<1> QED
  BY <1>4, <1>9 DEF Digits, Z

\* No attempt states less than the one before, and no total has more than ten digits:
\* with one byte more for each further attempt the tenth is never needed.
ReportInv ==
    /\ report \in [total : Nat, within : BOOLEAN, round : Nat]
    /\ siteAt # "unstable"
    /\ siteAt = "reading" => report.round = 0
    /\ report.round = 0 => report.total = 0 /\ report.within = FALSE
    /\ report.round >= 1 =>
         /\ report.within = (report.total <= SiteLimit)
         /\ contents.bytes + 6 <= report.total /\ report.total <= contents.bytes + 15
    /\ report.round >= 2 => contents.bytes + 6 + report.round <= report.total
    /\ report.total <= contents.bytes + ReportSize
    /\ siteAt = "published" => report.total = contents.bytes + ReportSize

LEMMA SizeStep ==
    ASSUME SiteInv, ReportInv, SizeReport PROVE ReportInv'
<1> DEFINE b == contents.bytes
           t == report.total
           r == report.round
           d == Digits(t)
           s == ReportSize
<1>1. /\ b \in Nat /\ b >= 1000 /\ t \in Nat /\ r \in Nat /\ report.within \in BOOLEAN
      /\ d \in Nat /\ d >= 1 /\ d <= 10
      /\ SiteLimit \in Nat /\ Rounds \in Nat /\ Rounds >= 10
  BY ContentsTypes, DigitsTypes, SizesAssumption DEF SiteInv, ReportInv
<1>2. s \in Nat /\ 5 <= s /\ s <= 15 /\ s = d + (IF report.within THEN 4 ELSE 5)
  BY <1>1 DEF ReportSize
<1>3. CASE t = b + s
  <2>1. siteAt' = "published" /\ UNCHANGED <<contents, report>>
    BY <1>3 DEF SizeReport
  <2>2. ReportSize' = ReportSize
    BY <2>1 DEF ReportSize
  <2>3. r # 0
    BY <1>1, <1>2, <1>3 DEF ReportInv
  <2> QED
    BY <1>1, <1>3, <2>1, <2>2 DEF ReportInv
<1>4. CASE t # b + s
  <2> DEFINE u == b + s
             e == Digits(u)
  <2>1. /\ report' = [total |-> u, within |-> u <= SiteLimit, round |-> r + 1]
        /\ siteAt' = IF r + 1 = Rounds THEN "unstable" ELSE siteAt
        /\ contents' = contents /\ siteAt = "written"
    BY <1>4 DEF SizeReport
  <2>2. ReportSize' = e + (IF u <= SiteLimit THEN 4 ELSE 5)
    BY <2>1 DEF ReportSize
  <2>3. /\ u \in Nat /\ u >= 1000 /\ e \in Nat /\ e <= 10
        /\ Digits(0) \in Nat /\ Digits(0) >= 1 /\ e >= Digits(0) + 3
    BY <1>1, <1>2, DigitsTypes, DigitsOfThousand
  <2>4. t < u /\ d <= e
    <3>1. t <= u
      BY DEF ReportInv
    <3> QED
      BY <1>1, <1>4, <2>3, <3>1, DigitsGrow
  <2>5. /\ r = 0 => t = 0 /\ report.within = FALSE
        /\ r >= 1 => /\ report.within = (t <= SiteLimit)
                     /\ b + 6 <= t /\ t <= b + 15
        /\ r >= 2 => b + 6 + r <= t
    BY DEF ReportInv
  <2> HIDE DEF b, t, r, d, s
  <2>6. (r = 0 => d = Digits(0)) /\ (r >= 1 => d >= Digits(0) + 3)
    BY <1>1, <2>5, DigitsOfThousand DEF d
  <2> HIDE DEF u, e
  <2>7. b + 6 <= u /\ u <= b + 15
    BY <1>1, <1>2, <2>3, <2>5, <2>6 DEF u
  <2>8. r + 1 >= 2 => b + 6 + (r + 1) <= u
    BY <1>1, <1>2, <2>3, <2>4, <2>5, <2>6 DEF u
  <2>9. r + 1 # Rounds
    BY <1>1, <2>3, <2>7, <2>8
  <2>10. u <= b + (e + (IF u <= SiteLimit THEN 4 ELSE 5))
    BY <1>1, <1>2, <2>3, <2>4, <2>5, <2>6 DEF u
  <2>11. /\ report'.total = u /\ report'.within = (u <= SiteLimit) /\ report'.round = r + 1
         /\ contents'.bytes = b /\ siteAt' = "written"
         /\ report' \in [total : Nat, within : BOOLEAN, round : Nat]
    BY <1>1, <2>1, <2>3, <2>9 DEF b
  <2>12. r + 1 >= 1 /\ r + 1 # 0
    BY <1>1
  <2> QED
    BY <2>2, <2>7, <2>8, <2>10, <2>11, <2>12 DEF ReportInv
<1> QED
  BY <1>3, <1>4

LEMMA ReportStep == SiteInv /\ ReportInv /\ [SiteNext]_siteVars => ReportInv'
<1> SUFFICES ASSUME SiteInv, ReportInv, [SiteNext]_siteVars PROVE ReportInv'
  OBVIOUS
<1>1. CASE SizeReport
  BY <1>1, SizeStep
<1>2. CASE WriteSite \/ RefuseSite \/ UNCHANGED siteVars
  <2>1. /\ contents' = contents /\ report' = report
        /\ siteAt' # siteAt => siteAt = "reading" /\ siteAt' \in {"written", "refused"}
    BY <1>2 DEF WriteSite, RefuseSite, Building, siteVars
  <2>2. ReportSize' = ReportSize
    BY <2>1 DEF ReportSize
  <2>3. siteAt' = siteAt \/ siteAt' \notin {"reading", "published", "unstable"}
    BY <2>1
  <2> QED
    BY <2>1, <2>2, <2>3 DEF ReportInv
<1> QED
  BY <1>1, <1>2 DEF SiteNext

LEMMA SiteBegins == SiteInit => SiteInv /\ ReportInv
<1> SUFFICES ASSUME SiteInit PROVE SiteInv /\ ReportInv
  OBVIOUS
<1>1. SiteInv
  BY DEF SiteInit, SiteInv
<1>2. report = [total |-> 0, within |-> FALSE, round |-> 0] /\ siteAt = "reading"
  BY DEF SiteInit
<1>3. ReportSize \in Nat /\ contents.bytes \in Nat
  BY <1>1, <1>2, DigitsTypes, ContentsTypes DEF ReportSize, SiteInv
<1>4. 0 <= contents.bytes + ReportSize
  BY <1>3
<1>5. ReportInv
  BY <1>2, <1>4 DEF ReportInv
<1> QED
  BY <1>1, <1>5

\* The report of a published site is exact, and a size is always found.
LEMMA FilesAreAccountedFor == SiteInv /\ ReportInv => SiteIsAccountedFor
<1> SUFFICES ASSUME SiteInv, ReportInv PROVE SiteIsAccountedFor
  OBVIOUS
<1>1. siteAt # "unstable"
  BY DEF ReportInv
<1>2. ASSUME siteAt = "published" PROVE AreasAreFound /\ FloodsAreTabled /\ ReportIsExact
  <2>1. AreasAreFound /\ FloodsAreTabled
    BY <1>2, FilesAreWhole DEF SiteInv
  <2>2. report.total = contents.bytes + ReportSize /\ report.round \in Nat
    BY <1>2 DEF ReportInv
  <2>3. contents.bytes \in Nat /\ contents.bytes >= 1000 /\ ReportSize \in Nat
    <3>1. report.total \in Nat
      BY DEF ReportInv
    <3> QED
      BY <3>1, ContentsTypes, DigitsTypes DEF SiteInv, ReportSize
  <2>4. report.round >= 1
    BY <2>2, <2>3 DEF ReportInv
  <2>5. report.within = (report.total <= SiteLimit)
    BY <2>4 DEF ReportInv
  <2> QED
    BY <2>1, <2>2, <2>5 DEF ReportIsExact
<1> QED
  BY <1>1, <1>2 DEF SiteIsAccountedFor

-----------------------------------------------------------------------------
(* The near routes. *)

\* The first of an order that puts the nearer first are nearest.
LEMMA FirstAreNearest ==
    ASSUME NEW S, NEW R, IsFiniteSet(S), Orders(R, S), NEW n \in Nat, NEW distance,
           \A x, y \in S : <<x, y>> \in R => distance[x] <= distance[y]
    PROVE  IsNearest(FirstOf(S, R, n), S, distance, n)
<1>1. FirstOf(S, R, n) \subseteq S
  BY DEF FirstOf
<1>2. FirstOf(S, R, n) = S \/ Cardinality(FirstOf(S, R, n)) = n
  BY FirstCount
<1>3. ASSUME NEW x \in FirstOf(S, R, n), NEW y \in S \ FirstOf(S, R, n)
      PROVE  distance[x] <= distance[y]
  BY <1>1, FirstBefore
<1> QED
  BY <1>1, <1>2, <1>3 DEF IsNearest

\* By distance, and among equals by identifier or by place.
ByDistance(S, distance) ==
    {pair \in S \X S : \/ distance[pair[1]] < distance[pair[2]]
                       \/ distance[pair[1]] = distance[pair[2]] /\ pair[1] < pair[2]}

LEMMA ByDistanceOrders ==
    ASSUME NEW S \in SUBSET Int, NEW distance, \A x \in S : distance[x] \in Nat
    PROVE  /\ Orders(ByDistance(S, distance), S)
           /\ \A x, y \in S : <<x, y>> \in ByDistance(S, distance) => distance[x] <= distance[y]
<1>1. \A x, y \in S : <<x, y>> \in ByDistance(S, distance) <=>
                         \/ distance[x] < distance[y]
                         \/ distance[x] = distance[y] /\ x < y
  BY DEF ByDistance
<1> QED
  BY <1>1 DEF Orders

LEMMA ApiIsNearest ==
    ASSUME contents \in Databases, NEW most \in Nat, NEW radius
    PROVE  IsNearest(ApiNear(radius, most), PointsWithin(radius),
                     [p \in DOMAIN contents.points |-> contents.points[p].distance], most)
<1> DEFINE S == PointsWithin(radius)
           distance == [p \in DOMAIN contents.points |-> contents.points[p].distance]
           R == ByDistance(S, distance)
<1>1. S \in SUBSET DOMAIN contents.points
  BY DEF PointsWithin
<1>2. /\ S \in SUBSET Int /\ IsFiniteSet(S)
      /\ \A x \in S : distance[x] = contents.points[x].distance /\ distance[x] \in Nat
  BY <1>1, ContentsTypes, FS_Subset DEF PointRows
<1>3. \A x, y \in S : <<y, x>> \in R <=>
                         \/ contents.points[y].distance < contents.points[x].distance
                         \/ contents.points[y].distance = contents.points[x].distance /\ y < x
  BY <1>2 DEF ByDistance
<1> HIDE DEF S, distance
<1>4. /\ Orders(R, S)
      /\ \A x, y \in S : <<x, y>> \in R => distance[x] <= distance[y]
  BY <1>2, ByDistanceOrders
<1> HIDE DEF R
<1>5. ApiNear(radius, most) = FirstOf(S, R, most)
  <2> DEFINE Nearer(x) == {y \in S : \/ contents.points[y].distance < contents.points[x].distance
                                     \/ /\ contents.points[y].distance = contents.points[x].distance
                                        /\ y < x}
  <2>1. \A x \in S : Nearer(x) = Preceding(S, R, x)
    BY <1>3 DEF Preceding
  <2>2. ApiNear(radius, most) = {x \in S : Cardinality(Nearer(x)) < most}
    BY DEF ApiNear, S
  <2> HIDE DEF Nearer
  <2> QED
    BY <2>1, <2>2 DEF FirstOf
<1>6. IsNearest(FirstOf(S, R, most), S, distance, most)
  BY <1>2, <1>4, FirstAreNearest
<1> QED
  BY <1>5, <1>6 DEF S, distance

LEMMA SiteIsNearest ==
    ASSUME contents \in Databases, Complete, site = SiteFiles, NEW most \in Nat, NEW radius
    PROVE  IsNearest(SiteNear(radius, most),
                     {p \in LocatedPoints : contents.points[p].sphere <= radius},
                     [p \in DOMAIN contents.points |-> contents.points[p].sphere], most)
<1> DEFINE P == DOMAIN contents.points
           L == site.points
           Row(i) == contents.points[L[i]]
           Q == {i \in DOMAIN L : Row(i).located /\ Row(i).sphere <= radius}
           away == [i \in DOMAIN L |-> Row(i).sphere]
           R == ByDistance(Q, away)
           K == FirstOf(Q, R, most)
           within == {p \in LocatedPoints : contents.points[p].sphere <= radius}
           sphere == [p \in P |-> contents.points[p].sphere]
<1>1. Sorts(L, P) /\ site.rows = contents.points
  BY CompleteLists DEF SiteFiles
<1>2. /\ DOMAIN L \in SUBSET Int /\ IsFiniteSet(DOMAIN L)
      /\ \A i \in DOMAIN L : L[i] \in P
      /\ \A p \in P : \E i \in DOMAIN L : L[i] = p
      /\ \A i, j \in DOMAIN L : L[i] = L[j] => i = j
  <2>1. Cardinality(P) \in Nat
    BY ContentsTypes, FS_CardinalityType
  <2>2. DOMAIN L = 1 .. Cardinality(P)
    BY <1>1 DEF Sorts
  <2>3. DOMAIN L \in SUBSET Int /\ IsFiniteSet(DOMAIN L)
    BY <2>1, <2>2, FS_Interval
  <2> QED
    BY <1>1, <2>3 DEF Sorts
<1>3. \A i \in DOMAIN L : away[i] = Row(i).sphere /\ away[i] \in Nat /\ away[i] = sphere[L[i]]
  <2>1. \A p \in P : contents.points[p].sphere \in Nat
    BY ContentsTypes DEF PointRows
  <2> QED
    BY <1>2, <2>1
<1>4. Q \in SUBSET DOMAIN L /\ Q \in SUBSET Int /\ IsFiniteSet(Q)
  BY <1>2, FS_Subset
<1>5. within = {L[i] : i \in Q}
  BY <1>2 DEF LocatedPoints
<1>6. SiteNear(radius, most) = {L[i] : i \in K}
  <2> DEFINE Nearer(i) == {j \in Q : \/ Row(j).sphere < Row(i).sphere
                                     \/ (Row(j).sphere = Row(i).sphere /\ j < i)}
  <2>1. \A i \in Q : Nearer(i) = Preceding(Q, R, i)
    BY <1>3, <1>4 DEF Preceding, ByDistance
  <2>2. SiteNear(radius, most) = {L[i] : i \in {k \in Q : Cardinality(Nearer(k)) < most}}
    BY <1>1 DEF SiteNear
  <2> HIDE DEF Nearer, Q, R
  <2>3. {k \in Q : Cardinality(Nearer(k)) < most} = K
    BY <2>1 DEF FirstOf
  <2> QED
    BY <2>2, <2>3
<1> HIDE DEF Q, away, R, within, sphere
<1>7. Orders(R, Q) /\ \A x, y \in Q : <<x, y>> \in R => away[x] <= away[y]
  BY <1>3, <1>4, ByDistanceOrders DEF R
<1>8. IsNearest(K, Q, away, most)
  BY <1>4, <1>7, FirstAreNearest
<1>9. K \in SUBSET Q /\ (K = Q \/ Cardinality(K) = most)
  BY <1>8 DEF IsNearest
<1>10. \A x \in K, y \in Q \ K : away[x] <= away[y]
  BY <1>8 DEF IsNearest
<1> HIDE DEF K
<1>11. IsFiniteSet(K) /\ \A i, j \in K : L[i] = L[j] => i = j
  BY <1>2, <1>4, <1>9, FS_Subset
<1>12. Cardinality({L[i] : i \in K}) = Cardinality(K)
  BY <1>11, PlacesCount
<1>13. {L[i] : i \in K} \subseteq within
  BY <1>5, <1>9
<1>14. {L[i] : i \in K} = within \/ Cardinality({L[i] : i \in K}) = most
  BY <1>5, <1>9, <1>12
<1>15. ASSUME NEW x \in {L[i] : i \in K}, NEW y \in within \ {L[i] : i \in K}
       PROVE  sphere[x] <= sphere[y]
  <2>1. PICK i \in K : x = L[i]
    OBVIOUS
  <2>2. PICK j \in Q : y = L[j]
    BY <1>5
  <2>3. j \notin K
    BY <2>2
  <2>4. i \in DOMAIN L /\ j \in DOMAIN L
    BY <1>4, <1>9
  <2> QED
    BY <1>3, <1>10, <2>1, <2>2, <2>3, <2>4
<1>16. IsNearest({L[i] : i \in K}, within, sphere, most)
  BY <1>13, <1>14, <1>15 DEF IsNearest
<1> QED
  BY <1>6, <1>16 DEF within, sphere

LEMMA NearRoutesServe == SiteInv => NearestAreServed
<1> SUFFICES ASSUME SiteInv, NEW most \in Limits, NEW radius \in Radii
             PROVE  /\ IsNearest(ApiNear(radius, most), PointsWithin(radius),
                          [p \in DOMAIN contents.points |-> contents.points[p].distance], most)
                    /\ siteAt = "published" =>
                         IsNearest(SiteNear(radius, most),
                                   {p \in LocatedPoints : contents.points[p].sphere <= radius},
                                   [p \in DOMAIN contents.points |-> contents.points[p].sphere],
                                   most)
  BY DEF NearestAreServed
<1>1. most \in Nat
  BY DEF Limits
<1> QED
  BY <1>1, ApiIsNearest, SiteIsNearest DEF SiteInv

THEOREM SiteInvariant == SiteSpec => [](SiteInv /\ ReportInv)
<1>1. SiteInv /\ ReportInv /\ [SiteNext]_siteVars => (SiteInv /\ ReportInv)'
  BY SiteStep, ReportStep
<1> QED
  BY <1>1, SiteBegins, PTL DEF SiteSpec

\* What the explorer computes from the files is what the API would have answered
\* (explorer/src/staticData.ts against db/water_supply.py and db/phase15.py).
THEOREM SiteAlwaysAnswersAsTheApi == SiteSpec => []SiteAnswersAsTheApi
BY SiteInvariant, FilesAnswer, PTL

\* A published site leaves nothing out and states its own size, which is found within
\* ten attempts (static_publication.py).
THEOREM SiteAlwaysAccountedFor == SiteSpec => []SiteIsAccountedFor
BY SiteInvariant, FilesAreAccountedFor, PTL

\* Near routes that order by distance give the nearest, the sorted places of a static
\* site as well (db/hydrology.py, explorer/src/staticData.ts).
THEOREM NearestAlwaysServed == SiteSpec => []NearestAreServed
BY SiteInvariant, NearRoutesServe, PTL
=============================================================================
