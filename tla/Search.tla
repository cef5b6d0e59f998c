------------------------------- MODULE Search -------------------------------
(***************************************************************************)
(* searchWallpapers of the gateway: pages of a listing, by cursor, forward *)
(* and backward, by id or by nearness to a color, over an index that goes  *)
(* on changing. The index and its changes are those of Catalog, reduced to *)
(* what a search can tell apart. OpenSearch is modelled from how           *)
(* WallpaperRepository.search uses it: filter, sort, search_after, size.   *)
(* Fewer documents are indexed than COLOR_SORT_K (10 000).                 *)
(***************************************************************************)
EXTENDS Naturals, Sequences, FiniteSets, SequencesExt, Ordered

CONSTANTS
  Id,          \* wallpaper ids, in the order of their ULIDs; 0 stands for none
  scoreOf,     \* nearness of a wallpaper's histogram to the color searched
  MaxChanges   \* bound: changes of the index

ASSUME SearchAssumption ==
  /\ IsFiniteSet(Id)
  /\ Id \subseteq Nat \ {0}
  /\ scoreOf \in [Id -> Nat]
  /\ MaxChanges \in Nat

VARIABLES
  indexed,   \* ids that have a document
  matching,  \* those that have a variant the filter asks for
  colored,   \* those that have a color histogram
  changes    \* changes of the index so far (bounded)

indexVars == <<indexed, matching, colored, changes>>

\* A query filters by variant or not, and sorts by color or not.
Query == [filter : BOOLEAN, color : BOOLEAN]

Found(q) ==
  {d \in indexed : (q.filter => d \in matching) /\ (q.color => d \in colored)}

IndexTypeOK ==
  /\ indexed \subseteq Id
  /\ matching \subseteq indexed
  /\ colored \subseteq indexed
  /\ changes \in 0 .. MaxChanges

IndexInit ==
  /\ indexed \in SUBSET Id
  /\ matching = {}
  /\ colored \in {{}, indexed}
  /\ changes = 0

----------------------------------------------------------------------------
(* The index changes (the consumers of the gateway).                       *)

\* wallpaper.uploaded: a document, the first one or one that replaces another.
Projected(d) ==
  /\ indexed' = indexed \union {d}
  /\ matching' = matching \ {d}
  /\ colored' = colored \ {d}

\* wallpaper.variant.available and wallpaper.colors.extracted.
VariantAdded(d) ==
  /\ d \in indexed
  /\ matching' = matching \union {d}
  /\ UNCHANGED <<indexed, colored>>

ColorsSet(d) ==
  /\ d \in indexed
  /\ colored' = colored \union {d}
  /\ UNCHANGED <<indexed, matching>>

IndexStep ==
  /\ changes < MaxChanges
  /\ changes' = changes + 1
  /\ \E d \in Id : Projected(d) \/ VariantAdded(d) \/ ColorsSet(d)

----------------------------------------------------------------------------
(* searchWallpapers. A cursor is the sort values of a document: its id,    *)
(* and before that its score where the query sorts by color.               *)

NoCursor == [id |-> 0, score |-> 0]
CursorOf(d) == [id |-> d, score |-> scoreOf[d]]

\* Mutant of InOrder: the tie-break does not turn round with the score.
InOrderTie(q, order, a, b) ==
  IF q.color
    THEN \/ (IF order = "desc" THEN a.score > b.score ELSE a.score < b.score)
         \/ a.score = b.score /\ a.id < b.id
    ELSE IF order = "asc" THEN a.id < b.id ELSE a.id > b.id

\* Whether cursor b comes after cursor a in a sort order ("asc" or "desc").
\* By color the best score comes first, and the lower id breaks a tie.
InOrder(q, order, a, b) ==
  LET later == IF q.color
                 THEN \/ a.score > b.score
                      \/ a.score = b.score /\ a.id < b.id
                 ELSE a.id < b.id
      forward == IF q.color THEN "desc" ELSE "asc"
  IN  IF order = forward THEN later ELSE ~later /\ a # b

\* WallpaperRepository.search.
Hits(q, order, searchAfter, size) ==
  LET rest == {d \in Found(q) :
                 searchAfter = NoCursor \/ InOrder(q, order, searchAfter, CursorOf(d))}
      hits == Sorted(rest, LAMBDA d, e : InOrder(q, order, CursorOf(d), CursorOf(e)))
  IN  IF Len(hits) > size THEN SubSeq(hits, 1, size) ELSE hits

\* Arguments of the query; 0 stands for a count that is not given.
Args(first, after, last, before) ==
  [first |-> first, after |-> after, last |-> last, before |-> before]

\* Mutant of Limit: nothing is fetched beyond the page.
LimitOnly(limit) == limit

\* One more than the page, to see whether there is a next one.
Limit(limit) == limit + 1

\* The pages of a direction, from the hits of a search for one more than limit.
Connection(backward, limit, after, hits) ==
  LET hasMore == Len(hits) > limit
      page == IF hasMore THEN SubSeq(hits, 1, limit) ELSE hits
      edges == IF backward THEN Reverse(page) ELSE page
  IN  [edges |-> edges,
       hasNextPage |-> IF backward THEN edges # <<>> ELSE hasMore,
       hasPreviousPage |-> IF backward THEN hasMore ELSE after # NoCursor]

SearchWallpapers(q, args) ==
  LET limit == IF args.first > 0 THEN args.first ELSE IF args.last > 0 THEN args.last ELSE 10
      backward == args.last > 0 /\ args.before # NoCursor
      order == IF q.color = backward THEN "asc" ELSE "desc"
      searchAfter == IF args.after # NoCursor THEN args.after ELSE args.before
  IN  CHOOSE c \in {Connection(backward, limit, args.after, hits) :
                       hits \in {Hits(q, order, searchAfter, Limit(limit))}} : TRUE

----------------------------------------------------------------------------
(* What the pages should be, without search_after or reversal.             *)

Listed(q) ==
  Sorted(Found(q), LAMBDA d, e :
    IF q.color /\ scoreOf[d] # scoreOf[e] THEN scoreOf[d] > scoreOf[e] ELSE d < e)

\* For every cursor of the listing, the page after it and the page before it are
\* the documents that follow it and precede it, in one and the same order, and
\* say truly whether there are more of them (sort order and slice by direction).
PagesAgree(q, n) ==
  LET all == Listed(q)
  IN  \A i \in 1 .. Len(all) :
        LET c == CursorOf(all[i])
            next == SearchWallpapers(q, Args(n, c, 0, NoCursor))
            previous == SearchWallpapers(q, Args(0, NoCursor, n, c))
        IN  /\ next.edges = SubSeq(all, i + 1, IF i + n < Len(all) THEN i + n ELSE Len(all))
            /\ next.hasNextPage = (i + n < Len(all))
            /\ previous.edges = SubSeq(all, IF i > n THEN i - n ELSE 1, i - 1)
            /\ previous.hasPreviousPage = (i - 1 > n)
            /\ previous.edges # <<>> => previous.hasNextPage

=============================================================================
