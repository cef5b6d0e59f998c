------------------------------- MODULE Browse -------------------------------
(***************************************************************************)
(* The home page of apps/web: the listing of one query, fetched page by    *)
(* page (useWallpaperInfiniteQuery) as the marker below the grid scrolls   *)
(* into view (LoadMoreTrigger, useIntersectionObserver), while the index   *)
(* behind searchWallpapers changes. A listing that is known to be out of   *)
(* date is fetched again, page by page, when the user returns to the page. *)
(*                                                                         *)
(* Every query has a listing of its own (the query key), so one query is   *)
(* enough. TanStack Query and the browser's IntersectionObserver are       *)
(* modelled from how these hooks use them.                                 *)
(***************************************************************************)
EXTENDS Search

CONSTANTS
  pageSize,     \* wallpapers of a page
  Screen,       \* sets of wallpapers so few that the marker below them is in
                \* view, or within rootMargin of it, wherever the user scrolls
  MaxFailures,  \* bound: requests that fail for good, and cursors that expire
  MaxVisits     \* bound: times the page is opened

ASSUME BrowseAssumption == pageSize \in Nat \ {0} /\ MaxFailures \in Nat /\ MaxVisits \in Nat
ASSUME ScreenAssumption == Screen \subseteq SUBSET Id

VARIABLES
  query,        \* the filter and sort of the page's address
  mounted,      \* whether the page is open
  visits,       \* how often it was (bounded)
  pages,        \* data: the pages of the listing; <<>> if there are none yet
  steady,       \* history: wallpapers found all along since its first page
  fetching,     \* "none", "first" (all pages again, from the first) or "next"
  refetched,    \* the pages fetched again so far
  refetchSteady,\* history: the same for them
  error,        \* the last fetch failed
  stale,        \* the listing is to be fetched again: invalidated, or a minute old
  expired,      \* the cursor the listing ends with is too old to be accepted
  failures,     \* requests that failed (bounded)
  visible,      \* the marker is in view, or near
  observing,    \* its IntersectionObserver is connected
  notified,     \* and has something to report
  skipNextCallback, isIntersecting  \* useIntersectionObserver

queryVars   == <<query, pages, steady, fetching, refetched, refetchSteady, error, stale, expired>>
triggerVars == <<visible, observing, notified, skipNextCallback, isIntersecting>>
boundVars   == <<visits, failures>>
vars == <<indexVars, queryVars, triggerVars, boundVars, mounted>>

Ids(listing) == FlattenSeq([i \in DOMAIN listing |-> listing[i].edges])
Shown == Ids(pages)

hasNextPage == pages # <<>> /\ Last(pages).hasNextPage
isFetchingNextPage == fetching = "next"

\* The grid and the marker are rendered: there is data, and no error.
Rendered == mounted /\ pages # <<>> /\ ~error /\ Shown # <<>>

\* enabled, of useIntersectionObserver
Enabled == Rendered /\ hasNextPage /\ ~isFetchingNextPage

\* What is loaded leaves no room to scroll the marker away.
FitsScreen == ToSet(Shown) \in Screen

Page == [edges : Seq(Id), hasNextPage : BOOLEAN]

\* Types; and what is fetched again is never longer than what it replaces.
TypeOK ==
  /\ IndexTypeOK
  /\ query \in Query
  /\ pages \in Seq(Page) /\ refetched \in Seq(Page)
  /\ Len(refetched) < Len(pages) \/ refetched = <<>>
  /\ steady \subseteq Id /\ refetchSteady \subseteq Id
  /\ fetching \in {"none", "first", "next"}
  /\ {mounted, error, stale, expired} \subseteq BOOLEAN
  /\ {visible, observing, notified, skipNextCallback, isIntersecting} \subseteq BOOLEAN
  /\ visits \in 0 .. MaxVisits /\ failures \in 0 .. MaxFailures

Init ==
  /\ IndexInit
  /\ query \in Query
  /\ mounted = FALSE /\ visits = 0
  /\ pages = <<>> /\ steady = {}
  /\ fetching = "none" /\ refetched = <<>> /\ refetchSteady = {}
  /\ error = FALSE /\ stale = FALSE /\ expired = FALSE /\ failures = 0
  /\ visible = TRUE
  /\ observing = FALSE /\ notified = FALSE
  /\ skipNextCallback = FALSE /\ isIntersecting = FALSE

\* A wallpaper that is not found for a moment may be missed.
IndexChanges ==
  /\ IndexStep
  /\ UNCHANGED <<query, pages, fetching, refetched, error, stale, expired, triggerVars, boundVars, mounted>>
  /\ steady' = steady \intersect Found(query)'
  /\ refetchSteady' = refetchSteady \intersect Found(query)'

----------------------------------------------------------------------------
(* useInfiniteQuery                                                        *)

StartFetch(kind) ==
  /\ fetching' = kind
  /\ refetched' = <<>>
  /\ refetchSteady' = {}

\* The page is opened. A listing that is missing or stale is fetched.
Open ==
  /\ ~mounted
  /\ visits < MaxVisits
  /\ visits' = visits + 1
  /\ mounted' = TRUE
  /\ IF fetching = "none" /\ (pages = <<>> \/ stale)
       THEN StartFetch("first")
       ELSE UNCHANGED <<fetching, refetched, refetchSteady>>
  /\ skipNextCallback' = (pages # <<>> /\ ~error /\ hasNextPage /\ isFetchingNextPage)
  /\ isIntersecting' = FALSE
  /\ UNCHANGED <<indexVars, query, pages, steady, error, stale, expired, visible, observing, notified, failures>>

\* The user goes to another page; what is being fetched is still awaited.
Leave ==
  /\ mounted
  /\ mounted' = FALSE
  /\ observing' = FALSE
  /\ notified' = FALSE
  /\ UNCHANGED <<indexVars, queryVars, boundVars, visible, skipNextCallback, isIntersecting>>

\* There, uploads are cleared, which invalidates every listing; or time passes.
Invalidate ==
  /\ ~mounted
  /\ pages # <<>>
  /\ stale' = TRUE
  /\ UNCHANGED <<indexVars, query, pages, steady, fetching, refetched, refetchSteady, error, expired,
                 triggerVars, boundVars, mounted>>

\* Mutant of NextCursor: the page after the first one again.
NextCursorOfFirst(listing) == IF listing = <<>> THEN NoCursor ELSE CursorOf(Last(listing[1].edges))

\* getNextPageParam: the endCursor of the last page.
NextCursor(listing) ==
  IF listing = <<>> THEN NoCursor ELSE CursorOf(Last(Last(listing).edges))

\* The page a listing goes on with, as the gateway answers now.
PageAfter(listing) ==
  LET page == SearchWallpapers(query, Args(pageSize, NextCursor(listing), 0, NoCursor))
  IN  [edges |-> page.edges, hasNextPage |-> page.hasNextPage]

\* Mutant of GoesOn: a page more than there were.
GoesOnOneMore(listing) == Last(listing).hasNextPage /\ Len(listing) <= Len(pages)

GoesOn(listing) == Last(listing).hasNextPage /\ Len(listing) < Len(pages)

\* A page of a fetch from the start: as many as there were, if there still are.
FetchedAgain ==
  /\ fetching = "first"
  /\ LET got == Append(refetched, PageAfter(refetched))
         found == IF refetched = <<>> THEN Found(query) ELSE refetchSteady
     IN  IF GoesOn(got)
           THEN /\ refetched' = got
                /\ refetchSteady' = found
                /\ UNCHANGED <<pages, steady, fetching, error, stale, expired>>
           ELSE /\ pages' = got
                /\ steady' = found
                /\ StartFetch("none")
                /\ error' = FALSE /\ stale' = FALSE /\ expired' = FALSE
  /\ UNCHANGED <<indexVars, query, triggerVars, boundVars, mounted>>

\* A page of fetchNextPage; the gateway refuses a cursor that has expired.
FetchedNext ==
  /\ fetching = "next"
  /\ ~expired
  /\ pages' = Append(pages, PageAfter(pages))
  /\ StartFetch("none")
  /\ error' = FALSE /\ stale' = FALSE
  /\ UNCHANGED <<indexVars, query, steady, expired, triggerVars, boundVars, mounted>>

\* A fetch fails, its retries too; what there is of the listing is kept.
FetchFails ==
  /\ fetching # "none"
  /\ IF fetching = "next" /\ expired
       THEN UNCHANGED failures
       ELSE failures < MaxFailures /\ failures' = failures + 1
  /\ StartFetch("none")
  /\ error' = TRUE
  /\ observing' = FALSE /\ notified' = FALSE /\ isIntersecting' = FALSE /\ skipNextCallback' = FALSE
  /\ UNCHANGED <<indexVars, query, pages, steady, stale, expired, visible, visits, mounted>>

\* cursorExpirationMs pass.
CursorExpires ==
  /\ pages # <<>>
  /\ ~expired
  /\ failures < MaxFailures
  /\ failures' = failures + 1
  /\ expired' = TRUE
  /\ UNCHANGED <<indexVars, query, pages, steady, fetching, refetched, refetchSteady, error, stale,
                 triggerVars, visits, mounted>>

----------------------------------------------------------------------------
(* LoadMoreTrigger                                                         *)

\* The user scrolls, or the layout moves the marker.
Scroll ==
  /\ Rendered
  /\ visible => ~FitsScreen
  /\ visible' = ~visible
  /\ notified' = observing
  /\ UNCHANGED <<indexVars, queryVars, boundVars, mounted, observing, skipNextCallback, isIntersecting>>

\* The effect, enabled: an observer is connected and will report.
Observe ==
  /\ Enabled
  /\ ~observing
  /\ observing' = TRUE
  /\ notified' = TRUE
  /\ UNCHANGED <<indexVars, queryVars, boundVars, mounted, visible, skipNextCallback, isIntersecting>>

\* The effect, disabled; the marker itself is there as long as there is more.
Unobserve ==
  /\ observing
  /\ ~Enabled
  /\ observing' = FALSE
  /\ notified' = FALSE
  /\ isIntersecting' = FALSE
  /\ skipNextCallback' = (skipNextCallback \/ hasNextPage)
  /\ UNCHANGED <<indexVars, queryVars, boundVars, mounted, visible>>

\* Mutant of Callback: the flag that skips a report is never put down.
CallbackSkips ==
  /\ observing
  /\ notified
  /\ notified' = FALSE
  /\ isIntersecting' = IF skipNextCallback /\ visible THEN isIntersecting ELSE visible
  /\ UNCHANGED <<indexVars, queryVars, boundVars, mounted, visible, observing, skipNextCallback>>

\* The observer reports; after a pause the first report of a marker in view is
\* skipped, so that one page does not bring the next.
Callback ==
  /\ observing
  /\ notified
  /\ notified' = FALSE
  /\ skipNextCallback' = FALSE
  /\ isIntersecting' = IF skipNextCallback /\ visible THEN isIntersecting ELSE visible
  /\ UNCHANGED <<indexVars, queryVars, boundVars, mounted, visible, observing>>

\* fetchNextPage. A fetch that is going on, of all pages again, is cancelled.
LoadMore ==
  /\ Enabled
  /\ isIntersecting
  /\ StartFetch("next")
  /\ UNCHANGED <<indexVars, query, pages, steady, error, stale, expired, triggerVars, boundVars, mounted>>

PageStep == Observe \/ Unobserve \/ Callback \/ LoadMore

Next ==
  \/ IndexChanges
  \/ Open \/ Leave \/ Invalidate
  \/ FetchedAgain \/ FetchedNext \/ FetchFails \/ CursorExpires
  \/ Scroll
  \/ PageStep

Spec == Init /\ [][Next]_vars

\* Requests are answered, React and the browser do their work, and the user
\* scrolls up and down, as far as there is room to, and stays at the bottom long
\* enough for it to be noticed.
Fairness ==
  /\ []<>(fetching = "none")
  /\ WF_vars(Observe \/ Unobserve)
  /\ WF_vars(Scroll)
  /\ SF_vars(Callback /\ visible)
  /\ SF_vars(LoadMore)

FairSpec == Spec /\ Fairness

----------------------------------------------------------------------------
(* Properties.                                                             *)

\* No listing shows a wallpaper twice, though its pages were fetched at
\* different times and documents were added and replaced in between.
NoneTwice == IsInjective(Shown)

\* A wallpaper that was found ever since the first page was fetched is shown as
\* soon as the listing has got as far as its place, and in the end always.
NoneSkipped ==
  pages # <<>> =>
    \A d \in steady :
      \/ d \in ToSet(Shown)
      \/ hasNextPage /\ InOrder(query, IF query.color THEN "desc" ELSE "asc", NextCursor(pages), CursorOf(d))

\* Before a page is opened for the first time: the pages of the API agree, for
\* every state of the index (searchWallpapers, both directions).
PagesOfApiAgree ==
  visits = 0 => \A n \in 1 .. 2 : PagesAgree(query, n)

\* The observer has reported a marker that cannot leave, and it was skipped.
Swallowed == FitsScreen /\ visible /\ observing /\ ~notified /\ ~isIntersecting

\* A user who keeps scrolling sees the whole listing, unless a fetch fails: a
\* report that is skipped after a page was loaded is made up for by the next one,
\* unless the loaded pages fit on the screen, where there is no next one.
ScrollsToTheEnd ==
  (Rendered /\ hasNextPage) ~> (~Rendered \/ ~hasNextPage \/ Swallowed)

=============================================================================
