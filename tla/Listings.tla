------------------------------ MODULE Listings ------------------------------
(***************************************************************************)
(* The async iterators over a store's pages: S3ObjectListing (bucket       *)
(* package) and DynamoDBItemListing (datastore package).  Items are        *)
(* numbered in the order of the listing.  A caller takes items, may leave  *)
(* at any of them, and iterates again with the listing's cursor, in the    *)
(* same listing or in a new one; others add and remove items meanwhile.    *)
(* The stores, which answer page by page, are external.                    *)
(***************************************************************************)
EXTENDS Naturals, FiniteSetsExt

CONSTANTS
    Item,           \* the items, by number
    Listing,        \* the options of listings: [mode: list, query or scan; limit: <<>> or <<n>>; ...]
    Queried,        \* options -> the items that the command's key expression selects
    Kept,           \* options -> the items that the command's filter expression lets through
    Rejected,       \* the options whose command the store refuses
    Meant,          \* options -> the items that the conditions in them mean
    MaxPage,        \* bound: the store's own page size
    MaxLeaves,      \* bound: how often the caller leaves or a page fails
    MaxChanges      \* bound: changes of the table by others

VARIABLES
    listing,        \* the options of the listing
    table,          \* the items present
    cursor,         \* _cursor: <<>> or the item it names
    pc,             \* idle, fetch, page, held (the caller has an item), done
    start,          \* where the next page starts
    page,           \* what is left of the page
    next,           \* the page's LastEvaluatedKey or NextContinuationToken
    got,            \* item -> how often the caller got it
    stayed,         \* the items present ever since
    leaves, changes

vars == <<listing, table, cursor, pc, start, page, next, got, stayed, leaves, changes>>

S3 == listing.mode = "list"

Init ==
    /\ listing \in Listing
    /\ table \in SUBSET Item
    /\ cursor = <<>> /\ pc = "idle" /\ start = <<>> /\ page = {} /\ next = <<>>
    /\ got = [i \in Item |-> 0]
    /\ stayed = table
    /\ leaves = 0 /\ changes = 0

-----------------------------------------------------------------------------
(* The store. *)

After(i) == start = <<>> \/ i > start[1]
Ahead == {i \in table : i \in Queried[listing] /\ After(i)}
FirstOf(n, items) == {i \in items : Cardinality({j \in items : j < i}) < n}

\* S3 says that there is more only if there is, DynamoDB when the limit was reached.
Rest(read, n) ==
    IF read # {} /\ (IF S3 THEN read # Ahead ELSE Cardinality(read) = n) THEN <<Max(read)>> ELSE <<>>

-----------------------------------------------------------------------------
(* The iterator. *)

\* Up to the first request: the cursor is decoded.
Iterate ==
    /\ pc = "idle"
    /\ start' = cursor
    /\ pc' = "fetch"
    /\ UNCHANGED <<listing, table, cursor, page, next, got, stayed, leaves, changes>>

\* Seeded fault: the cursor moves to the end of the page before its items are yielded.
FetchAndMove ==
    /\ pc = "fetch"
    /\ listing \notin Rejected
    /\ \E n \in IF listing.limit = <<>> THEN 1 .. MaxPage ELSE {listing.limit[1]} :
          LET read == FirstOf(n, Ahead)
          IN  /\ page' = read \cap Kept[listing]
              /\ next' = Rest(read, n)
              /\ cursor' = Rest(read, n)
    /\ pc' = "page"
    /\ UNCHANGED <<listing, table, start, got, stayed, leaves, changes>>

FetchPage ==
    /\ pc = "fetch"
    /\ listing \notin Rejected
    /\ \E n \in IF listing.limit = <<>> THEN 1 .. MaxPage ELSE {listing.limit[1]} :
          LET read == FirstOf(n, Ahead)
          IN  /\ page' = read \cap Kept[listing]
              /\ next' = Rest(read, n)
    /\ pc' = "page"
    /\ UNCHANGED <<listing, table, cursor, start, got, stayed, leaves, changes>>

\* The iterator throws, and with that has ended.
FetchFails ==
    /\ pc = "fetch" /\ leaves < MaxLeaves
    /\ pc' = "idle" /\ leaves' = leaves + 1
    /\ UNCHANGED <<listing, table, cursor, start, page, next, got, stayed, changes>>

Yield ==
    /\ pc \in {"page", "held"} /\ page # {}
    /\ LET i == Min(page)
       IN  /\ cursor' = IF S3 THEN <<i>> ELSE cursor
           /\ got' = [got EXCEPT ![i] = @ + 1]
           /\ page' = page \ {i}
    /\ pc' = "held"
    /\ UNCHANGED <<listing, table, start, next, stayed, leaves, changes>>

EndPage ==
    /\ pc \in {"page", "held"} /\ page = {}
    /\ start' = next
    /\ cursor' = IF S3 /\ next # <<>> THEN cursor ELSE next
    /\ pc' = IF next = <<>> THEN "done" ELSE "fetch"
    /\ UNCHANGED <<listing, table, page, next, got, stayed, leaves, changes>>

-----------------------------------------------------------------------------
(* The caller and the others. *)

\* A break out of the loop; what is left of the page is dropped.
Leave ==
    /\ pc = "held" /\ leaves < MaxLeaves
    /\ pc' = "idle" /\ page' = {} /\ leaves' = leaves + 1
    /\ UNCHANGED <<listing, table, cursor, start, next, got, stayed, changes>>

Change ==
    /\ pc # "done" /\ changes < MaxChanges
    /\ \E i \in Item :
          /\ table' = IF i \in table THEN table \ {i} ELSE table \cup {i}
          /\ stayed' = stayed \ {i}
    /\ changes' = changes + 1
    /\ UNCHANGED <<listing, cursor, pc, start, page, next, got, leaves>>

Next ==
    \/ Iterate \/ FetchPage \/ FetchFails \/ Yield \/ EndPage
    \/ Leave \/ Change

Spec == Init /\ [][Next]_vars

-----------------------------------------------------------------------------
\* The expressions of the commands that are accepted select what the conditions mean.
SelectsMeant == \A o \in Listing \ Rejected : Queried[o] \cap Kept[o] = Meant[o]

\* However often the caller leaves or a page fails, when the listing ends the caller
\* has got every item that was there all the time and that its conditions mean, and
\* no item that they do not.  A listing of S3, whose cursor stands at an item
\* (s3-object-listing.ts:49), repeats none either and can be left at any item; of a
\* table this says only that nothing is lost (ResumesExactly).
ListedInFull ==
    /\ pc = "done" => \A i \in stayed \cap Meant[listing] : got[i] > 0
    /\ \A i \in Item : got[i] > 0 => i \in Meant[listing]
    /\ S3 => (\A i \in Item : got[i] <= 1) /\ (pc = "held" => cursor # <<>>)

\* The cursor "encodes enough state to resume from the exact position across all
\* providers" (datastore/src/types.ts:244): who leaves and goes on with it gets no
\* item twice.
ResumesExactly == \A i \in Item : got[i] <= 1
=============================================================================
