------------------------------- MODULE PagedRead -------------------------------
(***************************************************************************)
(* One multi-page read of a published entity list while new snapshots are  *)
(* published: the API routes with keyset cursors, the client's iterators   *)
(* (client/client.py), the page loop of the static publication             *)
(* (static_publication.py: pages) and the two collectors of exports.py.    *)
(*                                                                         *)
(* Snapshots are immutable and numbered in the order of their publication; *)
(* the newest one is served to a request that names none.  A consumer      *)
(* takes the items of a page one by one and asks for the next page only    *)
(* then, so publications fall between any two of its requests.             *)
(***************************************************************************)
EXTENDS OrderedRows, Sequences, SequencesExt

CONSTANTS
    Consumers,     \* the kinds of consumers that may read
    SnapshotCount, \* snapshots published during the read
    MaxId,         \* entity identifiers are 1 .. MaxId
    MaxLimit,      \* page sizes are 1 .. MaxLimit
    MaxPages,      \* the page limit of a consumer
    MaxRecords     \* the record limit of a consumer, the page loop has none

ASSUME ConsumersAssumption ==
    Consumers \subseteq {"iterator", "supply_iterator", "pages", "supply_export", "thames_export"}

ASSUME LimitsAssumption ==
    /\ SnapshotCount \in Nat \ {0} /\ MaxId \in Nat /\ MaxLimit \in Nat
    /\ MaxPages \in Nat \ {0} /\ MaxRecords \in Nat

Ids     == 1 .. MaxId
Nothing == 0

\* Consumers that name a snapshot in every request after the first.
Pins == {"iterator", "pages", "thames_export"}

\* Consumers that read the dataset first and compare with it at the end.
Exports == {"supply_export", "thames_export"}

VARIABLES
    rows,     \* the entities of each snapshot
    latest,   \* the snapshot served by default
    kind,     \* which consumer it is
    limit,    \* its page size
    readerAt, \* where it is
    dataset,  \* the snapshot of the dataset an export has read
    pinned,   \* the snapshot of the first page
    cursor,   \* after_id of the next request
    cursors,  \* the cursors it has been given
    pages,    \* pages it has read
    batch,    \* the items of the page it still has to take
    next,     \* next_after_id of the page
    collected \* what it has taken: the entity, and the snapshot it was read from

serverVars == <<rows, latest>>
fixedVars  == <<kind, limit>>
pageVars   == <<cursor, cursors, pages>>
itemVars   == <<batch, next, collected>>
readVars   == <<serverVars, fixedVars, readerAt, dataset, pinned, pageVars, itemVars>>

ReadTypeOK ==
    /\ rows \in [1 .. SnapshotCount -> SUBSET Ids]
    /\ latest \in 1 .. SnapshotCount
    /\ kind \in Consumers
    /\ limit \in 1 .. MaxLimit
    /\ readerAt \in {"opening", "asking", "taking", "closing", "returned", "refused", "broken"}
    /\ dataset \in 0 .. SnapshotCount
    /\ pinned \in 0 .. SnapshotCount
    /\ cursor \in Ids \cup {Nothing}
    /\ cursors \subseteq Ids
    /\ pages \in 0 .. MaxPages
    /\ batch \in Seq(Ids)
    /\ next \in Ids \cup {Nothing}
    /\ collected \in Seq([id : Ids, snapshot : 1 .. SnapshotCount])

ReadInit ==
    /\ rows \in [1 .. SnapshotCount -> SUBSET Ids]
    /\ latest = 1
    /\ kind \in Consumers
    /\ limit \in 1 .. MaxLimit
    /\ readerAt = IF kind \in Exports THEN "opening" ELSE "asking"
    /\ dataset = Nothing
    /\ pinned = Nothing
    /\ cursor = Nothing
    /\ cursors = {}
    /\ pages = 0
    /\ batch = <<>>
    /\ next = Nothing
    /\ collected = <<>>

\* A loader commits a newer snapshot.
PublishNewer ==
    /\ latest < SnapshotCount
    /\ latest' = latest + 1
    /\ UNCHANGED <<rows, fixedVars, readerAt, dataset, pinned, pageVars, itemVars>>

-----------------------------------------------------------------------------
(* The API. *)

\* Fault: the cursor itself is served again.
RowsFrom(snapshot, after) == Ascending({id \in rows[snapshot] : id >= after})

\* WHERE snapshot_id = :id AND entity_id > :after ORDER BY entity_id
RowsAfter(snapshot, after) == Ascending({id \in rows[snapshot] : id > after})

\* Fault: only limit rows are asked for, so a full page is taken for the last one.
PageWithoutLookahead(snapshot, after) ==
    LET found == RowsAfter(snapshot, after)
        some  == IF Len(found) > limit THEN limit ELSE Len(found)
    IN  [items |-> SubSeq(found, 1, some), next |-> Nothing]

\* LIMIT limit + 1; the cursor is the last item, if a further row has shown up.
Page(snapshot, after) ==
    LET found == RowsAfter(snapshot, after)
        some  == IF Len(found) > limit THEN limit ELSE Len(found)
    IN  [items |-> SubSeq(found, 1, some),
         next  |-> IF Len(found) > limit THEN found[limit] ELSE Nothing]

\* The snapshot a request of the consumer is answered from.
Answered == IF kind \in Pins /\ pinned # Nothing THEN pinned ELSE latest

-----------------------------------------------------------------------------
(* The consumer. *)

\* The first dataset request of an export; the Thames collector pins what it says.
ReadDataset ==
    /\ readerAt = "opening"
    /\ readerAt' = "asking"
    /\ dataset' = latest
    /\ pinned' = IF kind = "thames_export" THEN latest ELSE Nothing
    /\ UNCHANGED <<serverVars, fixedVars, pageVars, itemVars>>

\* One page request whose snapshot is the expected one.
ReadPage ==
    /\ readerAt = "asking"
    /\ pages < MaxPages
    /\ pinned \in {Nothing, Answered}
    /\ readerAt' = "taking"
    /\ pinned' = Answered
    /\ pages' = pages + 1
    /\ LET page == Page(Answered, cursor) IN
         /\ batch' = page.items
         /\ next' = page.next
    /\ UNCHANGED <<serverVars, fixedVars, dataset, cursor, cursors, collected>>

RefusePage ==
    /\ readerAt = "asking"
    /\ pages = MaxPages \/ pinned \notin {Nothing, Answered}
    /\ readerAt' = "refused"
    /\ UNCHANGED <<serverVars, fixedVars, dataset, pinned, pageVars, itemVars>>

\* Only the page loop of the static publication counts no records.
MayTake == kind = "pages" \/ Len(collected) < MaxRecords

\* The water-supply collector asks for the geometry of each area, by its identifier.
ItemSnapshot == IF kind = "supply_export" THEN latest ELSE pinned

TakeItem ==
    /\ readerAt = "taking"
    /\ batch # <<>>
    /\ MayTake
    /\ kind = "supply_export" => ItemSnapshot = dataset
    /\ collected' = Append(collected, [id |-> Head(batch), snapshot |-> ItemSnapshot])
    /\ batch' = Tail(batch)
    /\ UNCHANGED <<serverVars, fixedVars, readerAt, dataset, pinned, pageVars, next>>

RefuseItem ==
    /\ readerAt = "taking"
    /\ batch # <<>>
    /\ ~MayTake \/ (kind = "supply_export" /\ ItemSnapshot # dataset)
    /\ readerAt' = "refused"
    /\ UNCHANGED <<serverVars, fixedVars, dataset, pinned, pageVars, itemVars>>

\* The page is used up: the list ends, or the next cursor must be a new one.  (The
\* page loop of the static publication compares it with the last item instead; an API
\* that orders its rows satisfies both.)
EndPage ==
    /\ readerAt = "taking"
    /\ batch = <<>>
    /\ \/ /\ next = Nothing
          /\ readerAt' = IF kind \in Exports THEN "closing" ELSE "returned"
          /\ UNCHANGED <<cursor, cursors>>
       \/ /\ next # Nothing
          /\ readerAt' = IF next \in cursors THEN "refused" ELSE "asking"
          /\ cursor' = next
          /\ cursors' = cursors \cup {next}
    /\ UNCHANGED <<serverVars, fixedVars, dataset, pinned, pages, itemVars>>

\* The count of the dataset that was read first, and the dataset as it is read now.
CloseExport ==
    /\ readerAt = "closing"
    /\ LET whole   == Len(collected) = Cardinality(rows[dataset])
           current == kind = "supply_export" => latest = dataset
       IN  readerAt' = IF whole /\ current THEN "returned" ELSE "refused"
    /\ UNCHANGED <<serverVars, fixedVars, dataset, pinned, pageVars, itemVars>>

\* A request fails, or its answer is not what the contract says.
BreakRead ==
    /\ \/ readerAt \in {"opening", "asking", "closing"}
       \/ readerAt = "taking" /\ kind = "supply_export"
    /\ readerAt' = "broken"
    /\ UNCHANGED <<serverVars, fixedVars, dataset, pinned, pageVars, itemVars>>

ReadDone == readerAt \in {"returned", "refused", "broken"} /\ UNCHANGED readVars

ReadNext ==
    \/ PublishNewer \/ ReadDataset \/ ReadPage \/ RefusePage \/ TakeItem \/ RefuseItem
    \/ EndPage \/ CloseExport \/ BreakRead \/ ReadDone

ReadSpec == ReadInit /\ [][ReadNext]_readVars

-----------------------------------------------------------------------------
(* Safety. *)

Taken == [i \in 1 .. Len(collected) |-> collected[i].id]

\* Everything a consumer has been given comes from one snapshot, without a gap, a
\* repetition or a change of order, whatever was published meanwhile.
NothingSkippedOrMixed ==
    /\ \A i \in 1 .. Len(collected) : collected[i].snapshot = pinned
    /\ collected # <<>> => IsPrefix(Taken, Ascending(rows[pinned]))

\* A read that ends normally has seen the whole list, the export that of the dataset
\* it names.
ReturnedIsComplete ==
    readerAt = "returned" =>
        /\ Taken = Ascending(rows[pinned])
        /\ kind \in Exports => dataset = pinned

\* A read never gives more than one snapshot, and an unbroken one gives all of it.
ReadIsOneSnapshot == NothingSkippedOrMixed /\ ReturnedIsComplete

\* The list fits into the limits of the consumer.
Fits(snapshot) ==
    /\ Cardinality(rows[snapshot]) <= limit * MaxPages
    /\ kind # "pages" => Cardinality(rows[snapshot]) <= MaxRecords

\* A list that just fits is never refused to a consumer that pins its snapshot: no
\* publication gets between its pages and no limit ends it one record early.
PinnedIsUndisturbed ==
    kind \in Pins /\ pinned # Nothing /\ Fits(pinned) => readerAt # "refused"
=============================================================================
