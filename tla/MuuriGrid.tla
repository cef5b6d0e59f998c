----------------------------- MODULE MuuriGrid -----------------------------
(***************************************************************************)
(* The React wrapper of the Muuri layout library: MuuriGrid imports the    *)
(* library asynchronously and creates an instance; MuuriItem registers its *)
(* element in an effect and unregisters it in the effect's cleanup. React  *)
(* runs the cleanups of a commit with the closures of the render before,   *)
(* and before any effect of the new one; children's effects run before     *)
(* their parent's. A state update takes effect in the next commit.         *)
(*                                                                         *)
(* React and Muuri are modelled from how the package uses them. An element *)
(* is a mounted MuuriItem; one that is rendered anew is a new element.     *)
(***************************************************************************)
EXTENDS Integers, Sequences, FiniteSets, SequencesExt, Ordered

CONSTANTS
  MaxElements,  \* bound: elements mounted
  StrictMode    \* effects of a mount are run, cleaned up and run again

ASSUME MuuriGridAssumption ==
  /\ MaxElements \in Nat
  /\ StrictMode \in BOOLEAN

Element == 1 .. MaxElements
Attempt == {1, 2}  \* runs of the effect that imports Muuri
None    == 0

VARIABLES
  life,         \* of the grid component
  rendered,     \* its elements, in the order of the children
  mounts,       \* elements mounted so far
  imports,      \* per attempt: unused, pending, cancelled, over
  placed,       \* per attempt: items of the Muuri instance it created
  live,         \* attempts whose instance is not destroyed
  initialized,  \* isInitializedRef
  queued,       \* the instance given to setGrid, until the next commit
  grid,         \* state grid, as of the last commit
  knows,        \* the instance in the closures of an element's effect
  pending,      \* pendingItemsRef
  registered    \* itemsMapRef: none, without an item, or with one

gridVars ==
  <<life, rendered, mounts, imports, placed, live, initialized, queued, grid,
    knows, pending, registered>>

\* Every variable has its type; itemsMapRef holds the children, no more, no less.
MuuriTypeOK ==
  /\ life \in {"new", "mounted", "unmounted"}
  /\ rendered \in Seq(Element)
  /\ mounts \in 0 .. MaxElements
  /\ imports \in [Attempt -> {"unused", "pending", "cancelled", "over"}]
  /\ placed \in [Attempt -> Seq(Element)]
  /\ live \subseteq Attempt
  /\ initialized \in BOOLEAN
  /\ queued \in Attempt \union {None}
  /\ grid \in Attempt \union {None}
  /\ knows \in [Element -> Attempt \union {None}]
  /\ pending \in Seq(Element)
  /\ registered \in [Element -> {"none", "element", "item"}]
  /\ life = "mounted" => {e \in Element : registered[e] # "none"} = Range(rendered)

MuuriInit ==
  /\ life = "new"
  /\ rendered = <<>>
  /\ mounts = 0
  /\ imports = [a \in Attempt |-> "unused"]
  /\ placed = [a \in Attempt |-> <<>>]
  /\ live = {}
  /\ initialized = FALSE
  /\ queued = None
  /\ grid = None
  /\ knows = [e \in Element |-> None]
  /\ pending = <<>>
  /\ registered = [e \in Element |-> "none"]

-----------------------------------------------------------------------------
(* registerItem and unregisterItem, as one function of the state of the     *)
(* refs and the instance: [placed, pending, registered].                    *)

Refs == [placed |-> placed, pending |-> pending, registered |-> registered]

\* Those of S whose cleanup removes their item from the instance: it finds one in
\* the map and its closures know the instance.
Removable(r, S) == {e \in S : r.registered[e] = "item" /\ knows[e] # None}

\* Mutant of Unregister: the map keeps the elements that go.
UnregisterKeeps(r, S) ==
  [r EXCEPT
     !.placed  = [a \in Attempt |->
                    Without(@[a], {e \in Removable(r, S) : knows[e] = a})],
     !.pending = Without(@, S \ Removable(r, S))]

\* The elements of S go.
Unregister(r, S) ==
  [r EXCEPT
     !.placed     = [a \in Attempt |->
                       Without(@[a], {e \in Removable(r, S) : knows[e] = a})],
     !.pending    = Without(@, S \ Removable(r, S)),
     !.registered = [e \in Element |-> IF e \in S THEN "none" ELSE @[e]]]

\* The elements of s come, in this order, in closures that know instance g: they
\* are added unless the instance has them already; without one they are queued.
Register(r, s, g, ready) ==
  LET new == Without(s, {e \in Element : r.registered[e] # "none"}) IN
  IF g # None /\ ready
    THEN [r EXCEPT
            !.placed[g]  = @ \o Without(new, Range(@)),
            !.registered = [e \in Element |-> IF e \in Range(new) THEN "item" ELSE @[e]]]
    ELSE [r EXCEPT
            !.pending    = @ \o new,
            !.registered = [e \in Element |-> IF e \in Range(new) THEN "element" ELSE @[e]]]

SetRefs(r) ==
  /\ placed' = r.placed
  /\ pending' = r.pending
  /\ registered' = r.registered

-----------------------------------------------------------------------------
(* Steps.                                                                   *)

\* The grid is mounted with n children. Strict mode cleans up the effects and
\* runs them again: the children are queued anew, the first import is cancelled.
MountGrid(n) ==
  LET children == [k \in 1 .. n |-> k]
      once     == Register(Refs, children, None, FALSE)
      again    == Register(Unregister(once, Range(children)), children, None, FALSE)
  IN
  /\ life = "new"
  /\ n \in 0 .. MaxElements
  /\ life' = "mounted"
  /\ rendered' = children
  /\ mounts' = n
  /\ SetRefs(IF StrictMode THEN again ELSE once)
  /\ imports' = IF StrictMode THEN [imports EXCEPT ![1] = "cancelled", ![2] = "pending"]
                ELSE [imports EXCEPT ![1] = "pending"]
  /\ UNCHANGED <<live, initialized, queued, grid, knows>>

\* Mutant of Cancelled: initMuuri does not look again after the import.
NeverCancelled(a) == FALSE

Cancelled(a) == imports[a] = "cancelled"

\* The import of attempt a is there. Unless it was cancelled, the instance takes
\* the elements queued so far, and the state update that announces it is queued.
InitMuuri(a) ==
  /\ imports[a] \in {"pending", "cancelled"}
  /\ imports' = [imports EXCEPT ![a] = "over"]
  /\ IF Cancelled(a)
       THEN UNCHANGED <<placed, live, initialized, queued, pending, registered>>
       ELSE
         /\ live' = live \union {a}
         /\ placed' = [placed EXCEPT ![a] = pending]
         /\ pending' = <<>>
         /\ registered' = [e \in Element |->
              IF e \in Range(pending) /\ registered[e] = "element" THEN "item"
              ELSE registered[e]]
         /\ initialized' = TRUE
         /\ queued' = a
  /\ UNCHANGED <<life, rendered, mounts, grid, knows>>

\* Mutant of RunAgain: the effect of a child depends on its key alone.
RunAgainNever(children, new) == {}

\* Children whose effect runs again in the commit that brings instance new: it
\* depends on the context, and the context on the instance.
RunAgain(children, new) == IF new # grid THEN children ELSE {}

\* A commit: the children are now those of kept, in their order, with fresh
\* elements before or after them. It brings the instance queued, unless the update
\* is more urgent and comes first, as in React 18. First the cleanups run, then
\* the effects.
Commit(dropped, before, after, brings) ==
  LET kept     == Without(rendered, dropped)
      fresh(m, n) == [k \in 1 .. n |-> m + k]
      children == fresh(mounts, before) \o kept \o fresh(mounts + before, after)
      new      == IF brings THEN queued ELSE grid
      renewed  == RunAgain(Range(kept), new)
      started  == renewed \union (Range(children) \ Range(kept))
      cleaned  == Unregister(Refs, dropped \union renewed)
  IN
  /\ life = "mounted"
  /\ mounts + before + after <= MaxElements
  /\ brings => queued # None
  /\ rendered' = children
  /\ mounts' = mounts + before + after
  /\ grid' = new
  /\ queued' = IF brings THEN None ELSE queued
  /\ knows' = [e \in Element |-> IF e \in started THEN new ELSE knows[e]]
  /\ SetRefs(Register(cleaned, Within(children, started), new, initialized))
  /\ UNCHANGED <<life, imports, live, initialized>>

\* The attempt whose effect has not been cleaned up yet.
LastAttempt == IF StrictMode THEN 2 ELSE 1

\* The page is left: the effect's cleanup cancels the import and destroys the
\* instance; the children's cleanups find it destroyed.
UnmountGrid ==
  /\ life = "mounted"
  /\ life' = "unmounted"
  /\ imports' = [imports EXCEPT ![LastAttempt] = IF @ = "pending" THEN "cancelled" ELSE @]
  /\ live' = live \ {LastAttempt}
  /\ initialized' = FALSE
  /\ queued' = None
  /\ rendered' = <<>>
  /\ UNCHANGED <<mounts, placed, grid, knows, pending, registered>>

-----------------------------------------------------------------------------
(* Properties.                                                              *)

\* Once the children know the instance, each of them is in it, once, however the
\* import, the mounting of children and strict mode's remount interleave: none is
\* left in the queue that only initMuuri empties (registerItem, initMuuri).
EveryChildIsPlaced ==
  life = "mounted" /\ grid # None =>
    /\ Range(rendered) \subseteq Range(placed[grid])
    /\ Cardinality(Range(placed[grid])) = Len(placed[grid])

\* "avoiding duplicate item registration or orphaned Muuri instances" (README): at
\* most one instance lives, and none without its component.
OneInstance ==
  /\ Cardinality(live) <= 1
  /\ life # "mounted" => live = {}

\* A child that goes once the instance is known takes its item along, so that the
\* others fill the gap (unregisterItem).
LeavesWithItsItem ==
  [][life = "mounted" /\ life' = "mounted" /\ grid # None =>
       Range(rendered) \ Range(rendered') \subseteq Element \ Range(placed'[grid])]_gridVars

=============================================================================
