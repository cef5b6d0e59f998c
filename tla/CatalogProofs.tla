--------------------------- MODULE CatalogProofs ---------------------------
(***************************************************************************)
(* Safety of the catalog for any number of wallpapers and presets, any     *)
(* limit of deliveries and any number of faults.                           *)
(***************************************************************************)
EXTENDS Catalog, TLAPS

\* What the deliveries of each consumer are about.
WellFormed(i) ==
  /\ i \in Delivery
  /\ i.to = "media.uploaded" => i.variant = Original
  /\ i.to = "media.variant" => i.variant \in Preset
  /\ i.to = "generator" =>
       /\ i.todo \subseteq Applicable[i.wallpaper]
       /\ i.step = "publish" => i.variant \in Applicable[i.wallpaper]

Handlers == \A i \in work : WellFormed(i)

\* What a delivery, or the step its handler is at, vouches for.
Provided(i) ==
  /\ i.to = "media.uploaded" /\ i.step = "publish" => i.wallpaper \in known
  /\ i.to = "generator" /\ i.step = "publish" =>
       <<i.wallpaper, i.variant>> \in objects
  /\ i.to = "media.variant" =>
       /\ <<i.wallpaper, i.variant>> \in objects
       /\ i.step \in {"insert", "publish"} => i.wallpaper \in known
       /\ i.step = "publish" => rows[i.wallpaper][i.variant] > 0
  /\ i.to = "gateway.variant" => Servable(i.wallpaper, i.variant)

AllProvided == \A i \in work : Provided(i)

InductiveInv ==
  TypeOK /\ Handlers /\ AllProvided /\ IndexedIsServable /\ NothingVanishes

-----------------------------------------------------------------------------
(* The operators.                                                           *)

\* A first delivery starts from the beginning and vouches for nothing but its
\* variant.
LEMMA FirstDeliveryProperties ==
  ASSUME NEW c \in Consumer, NEW w \in Wallpaper, NEW v \in Variant,
         NEW o \in Seq(Nat)
  PROVE  LET d == FirstDelivery(c, w, v, o) IN
         /\ d \in Delivery
         /\ d.to = c /\ d.wallpaper = w /\ d.variant = v
         /\ d.step = "start" /\ d.attempt = 1
         /\ d.todo = IF c = "generator" THEN Applicable[w] ELSE {}
  BY CatalogAssumption DEF FirstDelivery, Delivery

\* A published event is well formed if its consumer gets the variant it expects.
LEMMA EventProperties ==
  ASSUME NEW i \in Delivery,
         NEW c \in {"media.variant", "gateway.variant", "gateway.colors"},
         NEW v \in Variant, c = "media.variant" => v \in Preset
  PROVE  \E d : /\ Event(i, c, v) = {d} /\ WellFormed(d) /\ d.to = c
                /\ d.wallpaper = i.wallpaper /\ d.variant = v
                /\ d.step = "start"
<1> DEFINE o == Append(i.origin, i.attempt)
           d == FirstDelivery(c, i.wallpaper, v, o)
<1>1. i.wallpaper \in Wallpaper /\ i.origin \in Seq(Nat) /\ i.attempt \in Nat
  BY CatalogAssumption DEF Delivery
<1>2. o \in Seq(Nat)
  BY <1>1
<1> HIDE DEF o
<1>3. /\ d \in Delivery /\ d.to = c /\ d.wallpaper = i.wallpaper
      /\ d.variant = v /\ d.step = "start"
  <2>1. c \in Consumer
    BY DEF Consumer
  <2> QED
    BY <1>1, <1>2, <2>1, FirstDeliveryProperties
<1>4. WellFormed(d)
  BY <1>3 DEF WellFormed
<1> HIDE DEF d
<1>5. Event(i, c, v) = {d}
  BY DEF Event, d, o
<1> QED
  BY <1>3, <1>4, <1>5

\* The next delivery of a message is as well formed, vouches for no more, and
\* carries at least as much.
LEMMA NextAttemptProperties ==
  ASSUME NEW i, WellFormed(i), Redeliverable(i)
  PROVE  LET n == NextAttempt(i) IN
         /\ WellFormed(n)
         /\ Provided(i) => Provided(n)
         /\ n.wallpaper = i.wallpaper
         /\ Carries(i) \subseteq Carries(n)
<1> DEFINE f == FirstDelivery(i.to, i.wallpaper,
                 IF i.to = "generator" THEN Original ELSE i.variant, i.origin)
           n == NextAttempt(i)
<1>1. /\ f \in Delivery /\ f.to = i.to /\ f.wallpaper = i.wallpaper
      /\ f.variant = IF i.to = "generator" THEN Original ELSE i.variant
      /\ f.step = "start"
      /\ f.todo = IF i.to = "generator" THEN Applicable[i.wallpaper] ELSE {}
  BY FirstDeliveryProperties DEF WellFormed, Delivery, Variant
<1>2. i.attempt + 1 \in 1..MaxDeliver
  BY CatalogAssumption DEF WellFormed, Delivery, Redeliverable
<1>3. n = [f EXCEPT !.attempt = i.attempt + 1]
  BY DEF NextAttempt
<1> HIDE DEF f, n
<1>4. /\ n \in Delivery /\ n.to = f.to /\ n.wallpaper = f.wallpaper
      /\ n.variant = f.variant /\ n.step = f.step /\ n.todo = f.todo
  BY <1>1, <1>2, <1>3 DEF Delivery
<1>5. WellFormed(n)
  BY <1>1, <1>4 DEF WellFormed
<1>6. Provided(i) => Provided(n)
  BY <1>1, <1>4 DEF Provided, Servable
<1>7. Carries(i) \subseteq Carries(n)
  BY <1>1, <1>4 DEF Carries, WellFormed
<1> QED
  BY <1>1, <1>4, <1>5, <1>6, <1>7 DEF n

-----------------------------------------------------------------------------
(* What one step of a handler has to establish.                             *)

\* Rows and files only accumulate, so what a delivery vouches for remains true.
Grows ==
  /\ known \subseteq known'
  /\ objects \subseteq objects'
  /\ \A w \in Wallpaper, p \in Preset : rows[w][p] > 0 => rows'[w][p] > 0

\* What was servable stays servable as rows and files accumulate.
LEMMA ServableStable ==
  ASSUME Grows, NEW w \in Wallpaper, NEW v \in Variant, Servable(w, v)
  PROVE  Servable(w, v)'
  BY DEF Grows, Servable, Variant

\* What a delivery vouched for it still vouches for.
LEMMA ProvidedStable ==
  ASSUME Grows, NEW i, WellFormed(i), Provided(i)
  PROVE  Provided(i)'
<1>1. i.wallpaper \in Wallpaper /\ i.variant \in Variant
  BY DEF WellFormed, Delivery
<1> QED
  BY <1>1, ServableStable DEF Provided, Grows, WellFormed

\* It is enough to look at the deliveries a step adds.
LEMMA WorkKeeps ==
  ASSUME Handlers, AllProvided, Grows,
         \A j \in work' \ work : WellFormed(j) /\ Provided(j)'
  PROVE  Handlers' /\ AllProvided'
<1>1. ASSUME NEW j \in work PROVE WellFormed(j) /\ Provided(j)'
  BY ProvidedStable DEF AllProvided, Handlers
<1> QED
  BY <1>1 DEF AllProvided, Handlers

\* What a listed image shows can be served, as long as nothing is listed anew.
LEMMA ListingStable ==
  ASSUME IndexedIsServable, Grows,
         \A w \in Wallpaper, v \in Variant :
           listed'[w][v] > 0 => listed[w][v] > 0
  PROVE  IndexedIsServable'
  BY ServableStable DEF IndexedIsServable

\* What the handler of i carried is listed, lost, or carried by a delivery.
Accounted(i) ==
  \A v \in Carries(i) :
    \/ listed'[i.wallpaper][v] > 0
    \/ \E j \in work' : j.wallpaper = i.wallpaper /\ v \in Carries(j)
    \/ <<i.wallpaper, v>> \in lost'

\* A step of one handler that accounts for what it carried, and for the
\* variants it takes off a document, makes nothing vanish.
LEMMA NothingVanishesStep ==
  ASSUME NothingVanishes, NEW i \in work, work \ {i} \subseteq work',
         lost \subseteq lost', UNCHANGED uploads, Accounted(i),
         \A w \in Wallpaper, v \in Variant :
           listed[w][v] > 0 => listed'[w][v] > 0 \/ <<w, v>> \in lost'
  PROVE  NothingVanishes'
<1> SUFFICES ASSUME NEW w \in Image, uploads'[w] > 0, NEW v \in Expected(w)
             PROVE  \/ listed'[w][v] > 0
                    \/ \E j \in work' : j.wallpaper = w /\ v \in Carries(j)
                    \/ <<w, v>> \in lost'
  BY DEF NothingVanishes
<1>1. w \in Wallpaper /\ v \in Variant
  BY CatalogAssumption DEF Expected, Variant
<1>2. CASE listed[w][v] > 0 \/ <<w, v>> \in lost
  BY <1>1, <1>2
<1>3. ASSUME NEW j \in work, j.wallpaper = w, v \in Carries(j)
      PROVE  \/ listed'[w][v] > 0
             \/ \E k \in work' : k.wallpaper = w /\ v \in Carries(k)
             \/ <<w, v>> \in lost'
  BY <1>3 DEF Accounted
<1> QED
  BY <1>2, <1>3 DEF NothingVanishes

\* A handler that starts over or is given up: a message given up is lost.
LEMMA FailKeeps ==
  ASSUME InductiveInv, NEW i \in work, Fail(i),
         UNCHANGED <<uploads, mediaVars, objects, gatewayVars>>,
         faults' \in 0..MaxFaults
  PROVE  InductiveInv'
<1> USE DEF InductiveInv, mediaVars, gatewayVars
<1>1. /\ i \in Delivery /\ WellFormed(i) /\ Provided(i)
      /\ Carries(i) \subseteq Variant
  BY CatalogAssumption
  DEF Handlers, AllProvided, WellFormed, Delivery, Carries, Variant
<1>2. Grows
  BY DEF Grows
<1>3. Handlers' /\ AllProvided'
  <2>1. CASE Redeliverable(i)
    <3>1. WellFormed(NextAttempt(i)) /\ Provided(NextAttempt(i))'
      BY <1>1, <1>2, <2>1, NextAttemptProperties, ProvidedStable
    <3>2. \A j \in work' \ work : WellFormed(j) /\ Provided(j)'
      BY <2>1, <3>1 DEF Fail
    <3> QED
      BY <1>2, <3>2, WorkKeeps
  <2>2. CASE ~Redeliverable(i)
    <3>1. \A j \in work' \ work : WellFormed(j) /\ Provided(j)'
      BY <2>2 DEF Fail
    <3> QED
      BY <1>2, <3>1, WorkKeeps
  <2> QED
    BY <2>1, <2>2
<1>4. Accounted(i) /\ lost \subseteq lost'
  <2>1. CASE Redeliverable(i)
    <3>1. /\ NextAttempt(i).wallpaper = i.wallpaper
          /\ Carries(i) \subseteq Carries(NextAttempt(i))
      BY <1>1, <2>1, NextAttemptProperties
    <3> QED
      BY <2>1, <3>1 DEF Fail, Accounted
  <2>2. CASE ~Redeliverable(i)
    BY <2>2 DEF Fail, Accounted, Lose
  <2> QED
    BY <2>1, <2>2
<1>5. TypeOK'
  <2>1. lost' \subseteq Wallpaper \X Variant
    BY <1>1 DEF Fail, Lose, TypeOK, Delivery
  <2> QED
    BY <1>3, <2>1 DEF TypeOK, Handlers, WellFormed
<1>6. IndexedIsServable'
  BY <1>2, ListingStable
<1>7. NothingVanishes'
  BY <1>4, NothingVanishesStep DEF Fail
<1> QED
  BY <1>3, <1>5, <1>6, <1>7

-----------------------------------------------------------------------------
(* The handlers.                                                            *)

\* What is known of a delivery in hand.
LEMMA InHand ==
  ASSUME InductiveInv, NEW i \in work
  PROVE  /\ i \in Delivery /\ WellFormed(i) /\ Provided(i)
         /\ i.wallpaper \in Wallpaper /\ i.variant \in Variant
         /\ Carries(i) \subseteq Variant
  BY CatalogAssumption
  DEF InductiveInv, Handlers, AllProvided, WellFormed, Delivery, Carries, Variant

\* A handler that only goes on to step s, publishing the events in new.
LEMMA ContinueKeeps ==
  ASSUME InductiveInv, Grows, NEW i \in work,
         NEW s \in {"start", "insert", "publish", "ack"}, NEW new,
         Continue(i, s, new),
         i.to = "generator" => s # "publish",
         NEW k, k = [i EXCEPT !.step = s], Provided(k)',
         \A j \in new : WellFormed(j) /\ Provided(j)'
  PROVE  /\ Handlers' /\ AllProvided'
         /\ work \ {i} \subseteq work' /\ new \subseteq work'
         /\ \E j \in work' : /\ j.to = i.to /\ j.wallpaper = i.wallpaper
                             /\ j.variant = i.variant /\ j.todo = i.todo
                             /\ j.step = s
<1>1. /\ k \in Delivery /\ k.to = i.to /\ k.wallpaper = i.wallpaper
      /\ k.variant = i.variant /\ k.todo = i.todo /\ k.step = s
  BY InHand DEF Delivery
<1>2. WellFormed(k)
  BY <1>1, InHand DEF WellFormed
<1>3. work' = (work \ {i}) \cup {k} \cup new
  BY DEF Continue
<1>4. \A j \in work' \ work : WellFormed(j) /\ Provided(j)'
  BY <1>2, <1>3
<1>5. Handlers' /\ AllProvided'
  BY <1>4, WorkKeeps DEF InductiveInv
<1> QED
  BY <1>1, <1>3, <1>5

\* An event vouches for what its publisher made sure of.
LEMMA EventProvided ==
  ASSUME Grows, NEW i \in Delivery,
         NEW c \in {"media.variant", "gateway.variant", "gateway.colors"},
         NEW v \in Variant,
         c = "media.variant" => v \in Preset /\ <<i.wallpaper, v>> \in objects,
         c = "gateway.variant" => Servable(i.wallpaper, v)
  PROVE  /\ \A d \in Event(i, c, v) : WellFormed(d) /\ Provided(d)'
         /\ \E d \in Event(i, c, v) : /\ d.to = c /\ d.wallpaper = i.wallpaper
                                      /\ d.variant = v /\ d.step = "start"
<1>1. PICK d : /\ Event(i, c, v) = {d} /\ WellFormed(d) /\ d.to = c
               /\ d.wallpaper = i.wallpaper /\ d.variant = v /\ d.step = "start"
  BY EventProperties
<1>2. Provided(d)
  BY <1>1 DEF Provided
<1> QED
  BY <1>1, <1>2, ProvidedStable

\* The parts of the invariant that do not depend on the deliveries, for a step
\* that leaves the document as it is.
LEMMA StepKeeps ==
  ASSUME InductiveInv, Grows, NEW i \in work, Handlers', AllProvided',
         work \ {i} \subseteq work', lost \subseteq lost',
         lost' \subseteq Wallpaper \X Variant, Accounted(i),
         UNCHANGED <<uploads, gatewayVars>>, faults' \in 0..MaxFaults,
         known' \subseteq Wallpaper, objects' \subseteq Wallpaper \X Preset,
         rows' \in [Wallpaper -> [Preset -> Nat]]
  PROVE  InductiveInv'
<1> USE DEF InductiveInv, gatewayVars
<1>1. TypeOK'
  BY DEF TypeOK, Handlers, WellFormed
<1>2. IndexedIsServable'
  BY ListingStable
<1>3. NothingVanishes'
  BY NothingVanishesStep
<1> QED
  BY <1>1, <1>2, <1>3

\* The row is there before the original is announced.
LEMMA UpsertWallpaperInductive ==
  ASSUME InductiveInv, NEW i \in work, UpsertWallpaper(i)
  PROVE  InductiveInv'
<1>1. /\ i \in Delivery /\ WellFormed(i) /\ Provided(i)
      /\ i.wallpaper \in Wallpaper /\ i.variant \in Variant
      /\ Carries(i) \subseteq Variant /\ TypeOK
  BY InHand DEF InductiveInv
<1>2. /\ i.to = "media.uploaded" /\ i.step = "start"
      /\ Continue(i, "publish", {})
      /\ UNCHANGED <<uploads, rows, objects, gatewayVars, lost, faults>>
      /\ known' = known \cup {i.wallpaper}
  BY DEF UpsertWallpaper, Handles, mediaVars
<1>3. Grows
  BY <1>1, <1>2 DEF Grows
<1> DEFINE k == [i EXCEPT !.step = "publish"]
<1>4. /\ k = [i EXCEPT !.step = "publish"]
      /\ k.to = i.to /\ k.wallpaper = i.wallpaper
      /\ k.variant = i.variant /\ k.step = "publish"
  BY <1>1 DEF Delivery
<1> HIDE DEF k
<1>5. Provided(k)'
  BY <1>1, <1>2, <1>3, <1>4 DEF Provided, Grows
<1>6. \A j \in {} : WellFormed(j) /\ Provided(j)'
  OBVIOUS
<1>7. /\ Handlers' /\ AllProvided'
      /\ work \ {i} \subseteq work' /\ {} \subseteq work'
      /\ \E j \in work' : /\ j.to = i.to /\ j.wallpaper = i.wallpaper
                          /\ j.variant = i.variant /\ j.todo = i.todo
                          /\ j.step = "publish"
  BY <1>2, <1>3, <1>4, <1>5, <1>6, ContinueKeeps
<1>8. Accounted(i)
  BY <1>1, <1>2, <1>6, <1>7 DEF Accounted, Carries
<1>9. /\ lost \subseteq lost' /\ lost' \subseteq Wallpaper \X Variant
      /\ known' \subseteq Wallpaper /\ objects' \subseteq Wallpaper \X Preset
      /\ rows' \in [Wallpaper -> [Preset -> Nat]] /\ faults' \in 0..MaxFaults
  BY <1>1, <1>2 DEF TypeOK, WellFormed
<1> QED
  BY <1>2, <1>3, <1>7, <1>8, <1>9, StepKeeps

\* The wallpaper found stays known.
LEMMA FindParentInductive ==
  ASSUME InductiveInv, NEW i \in work, FindParent(i)
  PROVE  InductiveInv'
<1>1. /\ i \in Delivery /\ WellFormed(i) /\ Provided(i)
      /\ i.wallpaper \in Wallpaper /\ i.variant \in Variant
      /\ Carries(i) \subseteq Variant /\ TypeOK
  BY InHand DEF InductiveInv
<1>2. /\ i.to = "media.variant" /\ i.step = "start"
      /\ Continue(i, "insert", {})
      /\ UNCHANGED <<uploads, known, rows, objects, gatewayVars, lost, faults>>
      /\ i.wallpaper \in known
  BY DEF FindParent, Handles, mediaVars
<1>3. Grows
  BY <1>1, <1>2 DEF Grows
<1> DEFINE k == [i EXCEPT !.step = "insert"]
<1>4. /\ k = [i EXCEPT !.step = "insert"]
      /\ k.to = i.to /\ k.wallpaper = i.wallpaper
      /\ k.variant = i.variant /\ k.step = "insert"
  BY <1>1 DEF Delivery
<1> HIDE DEF k
<1>5. Provided(k)'
  BY <1>1, <1>2, <1>3, <1>4 DEF Provided, Grows
<1>6. \A j \in {} : WellFormed(j) /\ Provided(j)'
  OBVIOUS
<1>7. /\ Handlers' /\ AllProvided'
      /\ work \ {i} \subseteq work' /\ {} \subseteq work'
      /\ \E j \in work' : /\ j.to = i.to /\ j.wallpaper = i.wallpaper
                          /\ j.variant = i.variant /\ j.todo = i.todo
                          /\ j.step = "insert"
  BY <1>2, <1>3, <1>4, <1>5, <1>6, ContinueKeeps
<1>8. Accounted(i)
  BY <1>1, <1>2, <1>6, <1>7 DEF Accounted, Carries
<1>9. /\ lost \subseteq lost' /\ lost' \subseteq Wallpaper \X Variant
      /\ known' \subseteq Wallpaper /\ objects' \subseteq Wallpaper \X Preset
      /\ rows' \in [Wallpaper -> [Preset -> Nat]] /\ faults' \in 0..MaxFaults
  BY <1>1, <1>2 DEF TypeOK, WellFormed
<1> QED
  BY <1>2, <1>3, <1>7, <1>8, <1>9, StepKeeps

\* A skipped variant is recorded as lost.
LEMMA SkipVariantInductive ==
  ASSUME InductiveInv, NEW i \in work, SkipVariant(i)
  PROVE  InductiveInv'
<1>1. /\ i \in Delivery /\ WellFormed(i) /\ Provided(i)
      /\ i.wallpaper \in Wallpaper /\ i.variant \in Variant
      /\ Carries(i) \subseteq Variant /\ TypeOK
  BY InHand DEF InductiveInv
<1>2. /\ i.to = "media.variant" /\ i.step = "start"
      /\ Continue(i, "ack", {})
      /\ UNCHANGED <<uploads, known, rows, objects, gatewayVars, faults>>
      /\ Lose(i.wallpaper, {i.variant})
  BY DEF SkipVariant, Handles, mediaVars
<1>3. Grows
  BY <1>1, <1>2 DEF Grows
<1> DEFINE k == [i EXCEPT !.step = "ack"]
<1>4. /\ k = [i EXCEPT !.step = "ack"]
      /\ k.to = i.to /\ k.wallpaper = i.wallpaper
      /\ k.variant = i.variant /\ k.step = "ack"
  BY <1>1 DEF Delivery
<1> HIDE DEF k
<1>5. Provided(k)'
  BY <1>1, <1>2, <1>3, <1>4 DEF Provided, Grows
<1>6. \A j \in {} : WellFormed(j) /\ Provided(j)'
  OBVIOUS
<1>7. /\ Handlers' /\ AllProvided'
      /\ work \ {i} \subseteq work' /\ {} \subseteq work'
      /\ \E j \in work' : /\ j.to = i.to /\ j.wallpaper = i.wallpaper
                          /\ j.variant = i.variant /\ j.todo = i.todo
                          /\ j.step = "ack"
  BY <1>2, <1>3, <1>4, <1>5, <1>6, ContinueKeeps
<1>8. Accounted(i)
  BY <1>1, <1>2, <1>6, <1>7 DEF Accounted, Carries, Lose
<1>9. /\ lost \subseteq lost' /\ lost' \subseteq Wallpaper \X Variant
      /\ known' \subseteq Wallpaper /\ objects' \subseteq Wallpaper \X Preset
      /\ rows' \in [Wallpaper -> [Preset -> Nat]] /\ faults' \in 0..MaxFaults
  BY <1>1, <1>2 DEF TypeOK, WellFormed, Lose
<1> QED
  BY <1>2, <1>3, <1>7, <1>8, <1>9, StepKeeps

\* The row is there before the variant is announced.
LEMMA InsertVariantInductive ==
  ASSUME InductiveInv, NEW i \in work, InsertVariant(i)
  PROVE  InductiveInv'
<1>1. /\ i \in Delivery /\ WellFormed(i) /\ Provided(i)
      /\ i.wallpaper \in Wallpaper /\ i.variant \in Variant
      /\ Carries(i) \subseteq Variant /\ TypeOK
  BY InHand DEF InductiveInv
<1>2. /\ i.to = "media.variant" /\ i.step = "insert"
      /\ Continue(i, "publish", {})
      /\ UNCHANGED <<uploads, known, objects, gatewayVars, lost, faults>>
      /\ rows' = [rows EXCEPT ![i.wallpaper][i.variant] = @ + 1]
  BY DEF InsertVariant, Handles, mediaVars
<1>3. Grows
  BY <1>1, <1>2 DEF Grows, TypeOK, WellFormed
<1> DEFINE k == [i EXCEPT !.step = "publish"]
<1>4. /\ k = [i EXCEPT !.step = "publish"]
      /\ k.to = i.to /\ k.wallpaper = i.wallpaper
      /\ k.variant = i.variant /\ k.step = "publish"
  BY <1>1 DEF Delivery
<1> HIDE DEF k
<1>5. Provided(k)'
  BY <1>1, <1>2, <1>3, <1>4 DEF Provided, Grows, TypeOK, WellFormed
<1>6. \A j \in {} : WellFormed(j) /\ Provided(j)'
  OBVIOUS
<1>7. /\ Handlers' /\ AllProvided'
      /\ work \ {i} \subseteq work' /\ {} \subseteq work'
      /\ \E j \in work' : /\ j.to = i.to /\ j.wallpaper = i.wallpaper
                          /\ j.variant = i.variant /\ j.todo = i.todo
                          /\ j.step = "publish"
  BY <1>2, <1>3, <1>4, <1>5, <1>6, ContinueKeeps
<1>8. Accounted(i)
  BY <1>1, <1>2, <1>6, <1>7 DEF Accounted, Carries
<1>9. /\ lost \subseteq lost' /\ lost' \subseteq Wallpaper \X Variant
      /\ known' \subseteq Wallpaper /\ objects' \subseteq Wallpaper \X Preset
      /\ rows' \in [Wallpaper -> [Preset -> Nat]] /\ faults' \in 0..MaxFaults
  BY <1>1, <1>2 DEF TypeOK, WellFormed
<1> QED
  BY <1>2, <1>3, <1>7, <1>8, <1>9, StepKeeps

\* What is announced can be served, and the event carries it on.
LEMMA PublishAvailableInductive ==
  ASSUME InductiveInv, NEW i \in work, PublishAvailable(i)
  PROVE  InductiveInv'
<1>1. /\ i \in Delivery /\ WellFormed(i) /\ Provided(i)
      /\ i.wallpaper \in Wallpaper /\ i.variant \in Variant
      /\ Carries(i) \subseteq Variant /\ TypeOK
  BY InHand DEF InductiveInv
<1> DEFINE new == Event(i, "gateway.variant", i.variant)
<1>2. /\ i.to \in {"media.uploaded", "media.variant"} /\ i.step = "publish"
      /\ Continue(i, "ack", new)
      /\ UNCHANGED <<uploads, known, rows, objects, gatewayVars, lost, faults>>
  BY DEF PublishAvailable, Handles, mediaVars, MediaPublishes
<1>3. Grows
  BY <1>1, <1>2 DEF Grows
<1> DEFINE k == [i EXCEPT !.step = "ack"]
<1>4. /\ k = [i EXCEPT !.step = "ack"]
      /\ k.to = i.to /\ k.wallpaper = i.wallpaper
      /\ k.variant = i.variant /\ k.step = "ack"
  BY <1>1 DEF Delivery
<1> HIDE DEF k
<1>5. Provided(k)'
  BY <1>1, <1>2, <1>3, <1>4 DEF Provided, Grows
<1>6. /\ \A j \in new : WellFormed(j) /\ Provided(j)'
      /\ \E j \in new : /\ j.to = "gateway.variant" /\ j.wallpaper = i.wallpaper
                        /\ j.variant = i.variant /\ j.step = "start"
  <2>1. Servable(i.wallpaper, i.variant)
    BY <1>1, <1>2, CatalogAssumption DEF Provided, Servable, WellFormed
  <2> QED
    BY <1>1, <1>3, <2>1, EventProvided
<1> HIDE DEF new
<1>7. /\ Handlers' /\ AllProvided'
      /\ work \ {i} \subseteq work' /\ new \subseteq work'
      /\ \E j \in work' : /\ j.to = i.to /\ j.wallpaper = i.wallpaper
                          /\ j.variant = i.variant /\ j.todo = i.todo
                          /\ j.step = "ack"
  BY <1>2, <1>3, <1>4, <1>5, <1>6, ContinueKeeps
<1>8. Accounted(i)
  BY <1>1, <1>2, <1>6, <1>7 DEF Accounted, Carries
<1>9. /\ lost \subseteq lost' /\ lost' \subseteq Wallpaper \X Variant
      /\ known' \subseteq Wallpaper /\ objects' \subseteq Wallpaper \X Preset
      /\ rows' \in [Wallpaper -> [Preset -> Nat]] /\ faults' \in 0..MaxFaults
  BY <1>1, <1>2 DEF TypeOK, WellFormed
<1> QED
  BY <1>2, <1>3, <1>7, <1>8, <1>9, StepKeeps

\* The file is there before the variant is announced.
LEMMA PublishVariantInductive ==
  ASSUME InductiveInv, NEW i \in work, PublishVariant(i)
  PROVE  InductiveInv'
<1>1. /\ i \in Delivery /\ WellFormed(i) /\ Provided(i)
      /\ i.wallpaper \in Wallpaper /\ i.variant \in Variant
      /\ Carries(i) \subseteq Variant /\ TypeOK
  BY InHand DEF InductiveInv
<1> DEFINE new == Event(i, "media.variant", i.variant)
<1>2. /\ i.to = "generator" /\ i.step = "publish"
      /\ Continue(i, "start", new)
      /\ UNCHANGED <<uploads, known, rows, objects, gatewayVars, lost, faults>>
  BY DEF PublishVariant, Handles, mediaVars
<1>3. Grows
  BY <1>1, <1>2 DEF Grows
<1> DEFINE k == [i EXCEPT !.step = "start"]
<1>4. /\ k = [i EXCEPT !.step = "start"]
      /\ k.to = i.to /\ k.wallpaper = i.wallpaper
      /\ k.variant = i.variant /\ k.step = "start"
  BY <1>1 DEF Delivery
<1> HIDE DEF k
<1>5. Provided(k)'
  BY <1>1, <1>2, <1>3, <1>4 DEF Provided, Grows
<1>6. /\ \A j \in new : WellFormed(j) /\ Provided(j)'
      /\ \E j \in new : /\ j.to = "media.variant" /\ j.wallpaper = i.wallpaper
                        /\ j.variant = i.variant /\ j.step = "start"
  <2>1. i.variant \in Preset /\ <<i.wallpaper, i.variant>> \in objects
    BY <1>1, <1>2, CatalogAssumption DEF Provided, WellFormed
  <2> QED
    BY <1>1, <1>3, <2>1, EventProvided
<1> HIDE DEF new
<1>7. /\ Handlers' /\ AllProvided'
      /\ work \ {i} \subseteq work' /\ new \subseteq work'
      /\ \E j \in work' : /\ j.to = i.to /\ j.wallpaper = i.wallpaper
                          /\ j.variant = i.variant /\ j.todo = i.todo
                          /\ j.step = "start"
  BY <1>2, <1>3, <1>4, <1>5, <1>6, ContinueKeeps
<1>8. Accounted(i)
  BY <1>1, <1>2, <1>6, <1>7 DEF Accounted, Carries
<1>9. /\ lost \subseteq lost' /\ lost' \subseteq Wallpaper \X Variant
      /\ known' \subseteq Wallpaper /\ objects' \subseteq Wallpaper \X Preset
      /\ rows' \in [Wallpaper -> [Preset -> Nat]] /\ faults' \in 0..MaxFaults
  BY <1>1, <1>2 DEF TypeOK, WellFormed
<1> QED
  BY <1>2, <1>3, <1>7, <1>8, <1>9, StepKeeps

\* Nothing is left to generate.
LEMMA GeneratorDoneInductive ==
  ASSUME InductiveInv, NEW i \in work, GeneratorDone(i)
  PROVE  InductiveInv'
<1>1. /\ i \in Delivery /\ WellFormed(i) /\ Provided(i)
      /\ i.wallpaper \in Wallpaper /\ i.variant \in Variant
      /\ Carries(i) \subseteq Variant /\ TypeOK
  BY InHand DEF InductiveInv
<1>2. /\ i.to = "generator" /\ i.step = "start"
      /\ Continue(i, "ack", {})
      /\ UNCHANGED <<uploads, known, rows, objects, gatewayVars, lost, faults>>
      /\ i.todo = {}
  BY DEF GeneratorDone, Handles, mediaVars
<1>3. Grows
  BY <1>1, <1>2 DEF Grows
<1> DEFINE k == [i EXCEPT !.step = "ack"]
<1>4. /\ k = [i EXCEPT !.step = "ack"]
      /\ k.to = i.to /\ k.wallpaper = i.wallpaper
      /\ k.variant = i.variant /\ k.step = "ack"
  BY <1>1 DEF Delivery
<1> HIDE DEF k
<1>5. Provided(k)'
  BY <1>1, <1>2, <1>3, <1>4 DEF Provided, Grows
<1>6. \A j \in {} : WellFormed(j) /\ Provided(j)'
  OBVIOUS
<1>7. /\ Handlers' /\ AllProvided'
      /\ work \ {i} \subseteq work' /\ {} \subseteq work'
      /\ \E j \in work' : /\ j.to = i.to /\ j.wallpaper = i.wallpaper
                          /\ j.variant = i.variant /\ j.todo = i.todo
                          /\ j.step = "ack"
  BY <1>2, <1>3, <1>4, <1>5, <1>6, ContinueKeeps
<1>8. Accounted(i)
  BY <1>1, <1>2, <1>6, <1>7 DEF Accounted, Carries
<1>9. /\ lost \subseteq lost' /\ lost' \subseteq Wallpaper \X Variant
      /\ known' \subseteq Wallpaper /\ objects' \subseteq Wallpaper \X Preset
      /\ rows' \in [Wallpaper -> [Preset -> Nat]] /\ faults' \in 0..MaxFaults
  BY <1>1, <1>2 DEF TypeOK, WellFormed
<1> QED
  BY <1>2, <1>3, <1>7, <1>8, <1>9, StepKeeps

\* An acknowledged handler carried nothing any more.
LEMMA AckInductive ==
  ASSUME InductiveInv, NEW i \in work, Ack(i)
  PROVE  InductiveInv'
<1>1. Grows /\ Accounted(i)
  <2>1. Carries(i) = {}
    BY DEF Ack, Carries
  <2>2. Accounted(i)
    BY <2>1 DEF Accounted
  <2>3. Grows
    BY DEF Ack, mediaVars, Grows
  <2> QED
    BY <2>2, <2>3
<1>2. \A j \in work' \ work : WellFormed(j) /\ Provided(j)'
  BY DEF Ack
<1>3. Handlers' /\ AllProvided'
  BY <1>1, <1>2, WorkKeeps DEF InductiveInv
<1> QED
  BY <1>1, <1>3, StepKeeps DEF Ack, mediaVars, InductiveInv, TypeOK

\* A handler that cannot go on fails like any other.
LEMMA FailingInductive ==
  ASSUME InductiveInv, NEW i \in work,
         HandlerFails(i) \/ NotAnImage(i) \/ DocumentMissing(i)
  PROVE  InductiveInv'
<1>1. /\ Fail(i)
      /\ UNCHANGED <<uploads, mediaVars, objects, gatewayVars>>
      /\ faults' \in 0..MaxFaults
  BY CatalogAssumption
  DEF HandlerFails, NotAnImage, DocumentMissing, Fault, InductiveInv, TypeOK
<1> QED
  BY <1>1, FailKeeps

\* The generator works on one of its presets; the others remain to be done.
LEMMA GeneratePresetInductive ==
  ASSUME InductiveInv, NEW i \in work, GeneratePreset(i)
  PROVE  InductiveInv'
<1>1. /\ i \in Delivery /\ WellFormed(i) /\ TypeOK
      /\ i.wallpaper \in Wallpaper
  BY InHand DEF InductiveInv
<1>2. PICK p \in i.todo :
        /\ objects' = objects \cup {<<i.wallpaper, p>>}
        /\ work' = (work \ {i}) \cup
             {[i EXCEPT !.variant = p, !.todo = @ \ {p}, !.step = "publish"]}
  BY DEF GeneratePreset
<1>3. /\ i.to = "generator" /\ i.step = "start"
      /\ UNCHANGED <<uploads, known, rows, gatewayVars, lost, faults>>
  BY DEF GeneratePreset, Handles, mediaVars
<1>4. p \in Applicable[i.wallpaper] /\ p \in Preset
  BY <1>1, <1>3, CatalogAssumption DEF WellFormed
<1>5. Grows
  BY <1>2, <1>3 DEF Grows
<1> DEFINE k == [i EXCEPT !.variant = p, !.todo = @ \ {p}, !.step = "publish"]
<1>6. /\ k \in Delivery /\ k.to = "generator" /\ k.wallpaper = i.wallpaper
      /\ k.variant = p /\ k.todo = i.todo \ {p} /\ k.step = "publish"
  BY <1>1, <1>3, <1>4 DEF Delivery, Variant
<1>7. work' = (work \ {i}) \cup {k}
  BY <1>2
<1> HIDE DEF k
<1>8. WellFormed(k) /\ Provided(k)'
  BY <1>1, <1>2, <1>3, <1>4, <1>6 DEF WellFormed, Provided
<1>9. \A j \in work' \ work : WellFormed(j) /\ Provided(j)'
  BY <1>7, <1>8
<1>10. Handlers' /\ AllProvided'
  BY <1>5, <1>9, WorkKeeps DEF InductiveInv
<1>11. Accounted(i)
  BY <1>3, <1>6, <1>7 DEF Accounted, Carries
<1>12. objects' \subseteq Wallpaper \X Preset
  BY <1>1, <1>2, <1>4 DEF TypeOK
<1> QED
  BY <1>1, <1>3, <1>5, <1>7, <1>10, <1>11, <1>12, StepKeeps DEF TypeOK

\* A preset that fails is recorded as lost; the others remain to be done.
LEMMA PresetFailsInductive ==
  ASSUME InductiveInv, NEW i \in work, PresetFails(i)
  PROVE  InductiveInv'
<1>1. /\ i \in Delivery /\ WellFormed(i) /\ TypeOK
      /\ i.wallpaper \in Wallpaper /\ i.variant \in Variant
  BY InHand DEF InductiveInv
<1>2. /\ i.to = "generator" /\ faults' \in 0..MaxFaults
      /\ UNCHANGED <<uploads, known, rows, objects, gatewayVars>>
  BY <1>1, CatalogAssumption DEF PresetFails, Fault, mediaVars, TypeOK
<1>3. Grows
  BY <1>2 DEF Grows
<1>4. PICK p \in Variant, s \in {"start"}, T \in SUBSET i.todo :
        /\ work' = (work \ {i}) \cup {[i EXCEPT !.todo = T, !.step = s]}
        /\ Lose(i.wallpaper, {p})
        /\ Carries(i) \subseteq T \cup {p}
  <2>1. ASSUME NEW p \in i.todo, i.step = "start",
               work' = (work \ {i}) \cup {[i EXCEPT !.todo = @ \ {p}]},
               Lose(i.wallpaper, {p})
        PROVE  \E q \in Variant, s \in {"start"}, T \in SUBSET i.todo :
                 /\ work' = (work \ {i}) \cup {[i EXCEPT !.todo = T, !.step = s]}
                 /\ Lose(i.wallpaper, {q})
                 /\ Carries(i) \subseteq T \cup {q}
    <3>1. p \in Variant
      BY <1>1, <1>2, CatalogAssumption DEF WellFormed, Variant
    <3>2. [i EXCEPT !.todo = @ \ {p}] =
            [i EXCEPT !.todo = i.todo \ {p}, !.step = "start"]
      BY <1>1, <2>1 DEF Delivery
    <3>3. Carries(i) \subseteq (i.todo \ {p}) \cup {p}
      BY <1>2, <2>1 DEF Carries
    <3> QED
      BY <2>1, <3>1, <3>2, <3>3
  <2>2. ASSUME i.step = "publish", Continue(i, "start", {}),
               Lose(i.wallpaper, {i.variant})
        PROVE  \E q \in Variant, s \in {"start"}, T \in SUBSET i.todo :
                 /\ work' = (work \ {i}) \cup {[i EXCEPT !.todo = T, !.step = s]}
                 /\ Lose(i.wallpaper, {q})
                 /\ Carries(i) \subseteq T \cup {q}
    <3>1. [i EXCEPT !.step = "start"] =
            [i EXCEPT !.todo = i.todo, !.step = "start"]
      BY <1>1 DEF Delivery
    <3>2. Carries(i) \subseteq i.todo \cup {i.variant}
      BY <1>2 DEF Carries
    <3>3. work' = (work \ {i}) \cup {[i EXCEPT !.step = "start"]}
      BY <2>2 DEF Continue
    <3> QED
      BY <1>1, <2>2, <3>1, <3>2, <3>3
  <2> QED
    BY <2>1, <2>2 DEF PresetFails
<1> DEFINE k == [i EXCEPT !.todo = T, !.step = s]
<1>5. /\ k \in Delivery /\ k.to = "generator" /\ k.wallpaper = i.wallpaper
      /\ k.variant = i.variant /\ k.todo = T /\ k.step = "start"
  BY <1>1, <1>2 DEF Delivery
<1>6. work' = (work \ {i}) \cup {k}
  BY <1>4
<1> HIDE DEF k
<1>7. WellFormed(k) /\ Provided(k)'
  BY <1>1, <1>2, <1>5 DEF WellFormed, Provided
<1>8. \A j \in work' \ work : WellFormed(j) /\ Provided(j)'
  BY <1>6, <1>7
<1>9. Handlers' /\ AllProvided'
  BY <1>3, <1>8, WorkKeeps DEF InductiveInv
<1>10. Accounted(i)
  BY <1>4, <1>5, <1>6 DEF Accounted, Carries, Lose
<1>11. lost \subseteq lost' /\ lost' \subseteq Wallpaper \X Variant
  BY <1>1, <1>4 DEF Lose, TypeOK
<1> QED
  BY <1>1, <1>2, <1>3, <1>6, <1>9, <1>10, <1>11, StepKeeps DEF TypeOK

\* The colors of an image are published; they carry no variant.
LEMMA ExtractColorsInductive ==
  ASSUME InductiveInv, NEW i \in work, ExtractColors(i)
  PROVE  InductiveInv'
<1> DEFINE new == IF i.wallpaper \in Image
                  THEN Event(i, "gateway.colors", i.variant) ELSE {}
           k == [i EXCEPT !.step = "ack"]
<1>1. /\ i \in Delivery /\ i.variant \in Variant /\ TypeOK
  BY InHand DEF InductiveInv
<1>2. /\ i.to = "colors" /\ Continue(i, "ack", new)
      /\ UNCHANGED <<uploads, known, rows, objects, gatewayVars, lost, faults>>
  BY DEF ExtractColors, Handles, mediaVars
<1>3. Grows
  BY <1>2 DEF Grows
<1>4. k = [i EXCEPT !.step = "ack"] /\ k.to = "colors"
  BY <1>1, <1>2 DEF Delivery
<1>5. \A j \in new : WellFormed(j) /\ Provided(j)'
  BY <1>1, <1>3, EventProvided
<1> HIDE DEF k, new
<1>6. Provided(k)'
  BY <1>4 DEF Provided
<1>7. Handlers' /\ AllProvided' /\ work \ {i} \subseteq work'
  BY <1>2, <1>3, <1>4, <1>5, <1>6, ContinueKeeps
<1>8. Accounted(i)
  BY <1>2 DEF Accounted, Carries
<1> QED
  BY <1>1, <1>2, <1>3, <1>7, <1>8, StepKeeps DEF TypeOK

\* A handler of the gateway that finishes leaves the deliveries in order.
LEMMA GatewayKeeps ==
  ASSUME InductiveInv, NEW i \in work, Continue(i, "ack", {}),
         i.to \in {"gateway.uploaded", "gateway.variant", "gateway.colors"},
         UNCHANGED <<known, rows, objects>>
  PROVE  Grows /\ Handlers' /\ AllProvided' /\ work \ {i} \subseteq work'
<1> DEFINE k == [i EXCEPT !.step = "ack"]
<1>1. i \in Delivery /\ Provided(i)
  BY InHand
<1>2. Grows
  BY DEF Grows
<1>3. /\ k = [i EXCEPT !.step = "ack"] /\ k.to = i.to
      /\ k.wallpaper = i.wallpaper /\ k.variant = i.variant
  BY <1>1 DEF Delivery
<1> HIDE DEF k
<1>4. Provided(k)'
  BY <1>1, <1>3 DEF Provided, Servable
<1>5. \A j \in {} : WellFormed(j) /\ Provided(j)'
  OBVIOUS
<1> QED
  BY <1>2, <1>3, <1>4, <1>5, ContinueKeeps

\* Writing the whole document records every variant it had as lost.
LEMMA UpsertDocumentInductive ==
  ASSUME InductiveInv, NEW i \in work, UpsertDocument(i)
  PROVE  InductiveInv'
<1>1. i.wallpaper \in Wallpaper /\ TypeOK
  BY InHand DEF InductiveInv
<1>2. /\ i.to = "gateway.uploaded" /\ Continue(i, "ack", {})
      /\ UNCHANGED <<uploads, known, rows, objects, faults>>
      /\ indexed' = indexed \cup {i.wallpaper}
      /\ listed' = [listed EXCEPT ![i.wallpaper] = [v \in Variant |-> 0]]
      /\ colored' = colored \ {i.wallpaper}
      /\ lost' = lost \cup
           ({i.wallpaper} \X {v \in Variant : listed[i.wallpaper][v] > 0})
  BY DEF UpsertDocument, Handles, mediaVars, Lose
<1>3. Grows /\ Handlers' /\ AllProvided' /\ work \ {i} \subseteq work'
  BY <1>2, GatewayKeeps
<1>4. \A w \in Wallpaper, v \in Variant :
        /\ listed'[w][v] > 0 => listed[w][v] > 0
        /\ listed[w][v] > 0 => listed'[w][v] > 0 \/ <<w, v>> \in lost'
  BY <1>1, <1>2 DEF TypeOK
<1>5. TypeOK'
  BY <1>1, <1>2, <1>3 DEF TypeOK, Handlers, WellFormed
<1>6. IndexedIsServable'
  BY <1>3, <1>4, ListingStable DEF InductiveInv
<1>7. Accounted(i) /\ lost \subseteq lost'
  BY <1>2 DEF Accounted, Carries
<1>8. NothingVanishes'
  BY <1>2, <1>3, <1>4, <1>7, NothingVanishesStep DEF InductiveInv
<1> QED
  BY <1>3, <1>5, <1>6, <1>8 DEF InductiveInv

\* A variant is listed as its event arrives, which vouches for it.
LEMMA AddVariantInductive ==
  ASSUME InductiveInv, NEW i \in work, AddVariant(i)
  PROVE  InductiveInv'
<1>1. /\ i.wallpaper \in Wallpaper /\ i.variant \in Variant
      /\ Provided(i) /\ TypeOK
  BY InHand DEF InductiveInv
<1>2. /\ i.to = "gateway.variant" /\ Continue(i, "ack", {})
      /\ UNCHANGED <<uploads, known, rows, objects, indexed, colored, lost, faults>>
      /\ listed' = [listed EXCEPT ![i.wallpaper][i.variant] = @ + 1]
  BY DEF AddVariant, Handles, mediaVars
<1>3. Grows /\ Handlers' /\ AllProvided' /\ work \ {i} \subseteq work'
  BY <1>2, GatewayKeeps
<1>4. \A w \in Wallpaper, v \in Variant :
        /\ listed[w][v] > 0 => listed'[w][v] > 0
        /\ listed'[w][v] > 0 =>
             listed[w][v] > 0 \/ (w = i.wallpaper /\ v = i.variant)
  BY <1>1, <1>2 DEF TypeOK
<1>5. TypeOK'
  BY <1>1, <1>2, <1>3 DEF TypeOK, Handlers, WellFormed
<1>6. IndexedIsServable'
  BY <1>1, <1>2, <1>3, <1>4, ServableStable
  DEF InductiveInv, IndexedIsServable, Provided
<1>7. listed'[i.wallpaper][i.variant] > 0
  BY <1>1, <1>2 DEF TypeOK
<1>8. Accounted(i)
  BY <1>2, <1>7 DEF Accounted, Carries
<1>9. NothingVanishes'
  BY <1>2, <1>3, <1>4, <1>8, NothingVanishesStep DEF InductiveInv
<1> QED
  BY <1>3, <1>5, <1>6, <1>9 DEF InductiveInv

\* Color data touches no variant.
LEMMA AddColorDataInductive ==
  ASSUME InductiveInv, NEW i \in work, AddColorData(i)
  PROVE  InductiveInv'
<1>1. i.wallpaper \in Wallpaper /\ TypeOK
  BY InHand DEF InductiveInv
<1>2. /\ i.to = "gateway.colors" /\ Continue(i, "ack", {})
      /\ i.wallpaper \in indexed /\ colored' = colored \cup {i.wallpaper}
      /\ UNCHANGED <<uploads, known, rows, objects, indexed, listed, lost, faults>>
  BY DEF AddColorData, Handles, mediaVars
<1>3. Grows /\ Handlers' /\ AllProvided' /\ work \ {i} \subseteq work'
  BY <1>2, GatewayKeeps
<1>4. TypeOK'
  BY <1>1, <1>2, <1>3 DEF TypeOK, Handlers, WellFormed
<1>5. IndexedIsServable'
  BY <1>2, <1>3, ListingStable DEF InductiveInv
<1>6. Accounted(i)
  BY <1>2 DEF Accounted, Carries
<1>7. NothingVanishes'
  BY <1>2, <1>3, <1>6, NothingVanishesStep DEF InductiveInv
<1> QED
  BY <1>3, <1>4, <1>5, <1>7 DEF InductiveInv

\* A new upload is carried by the media service, as the original, and by the
\* A first delivery of wallpaper.uploaded vouches for nothing yet.
LEMMA UploadedProperties ==
  ASSUME NEW c \in UploadedConsumer, NEW w \in Wallpaper, NEW n \in Nat
  PROVE  LET d == FirstDelivery(c, w, Original, <<n>>) IN
         /\ WellFormed(d) /\ Provided(d)'
         /\ d.to = c /\ d.wallpaper = w /\ d.variant = Original
         /\ d.step = "start"
         /\ d.todo = IF c = "generator" THEN Applicable[w] ELSE {}
<1> DEFINE o == <<n>>
           d == FirstDelivery(c, w, Original, o)
<1>1. o \in Seq(Nat) /\ c \in Consumer /\ Original \in Variant
  BY DEF Consumer, Variant
<1> HIDE DEF o
<1>2. /\ d \in Delivery /\ d.to = c /\ d.wallpaper = w
      /\ d.variant = Original /\ d.step = "start"
      /\ d.todo = IF c = "generator" THEN Applicable[w] ELSE {}
  BY <1>1, FirstDeliveryProperties
<1> HIDE DEF d
<1>3. WellFormed(d) /\ Provided(d)'
  BY <1>2 DEF WellFormed, Provided, UploadedConsumer
<1> QED
  BY <1>2, <1>3 DEF d, o

\* An upload adds one delivery for each consumer; two of them carry everything
\* the image is expected to be found under.
LEMMA UploadInductive ==
  ASSUME InductiveInv, NEW w \in Wallpaper, Upload(w)
  PROVE  InductiveInv'
<1>1. TypeOK /\ Handlers /\ AllProvided
  BY DEF InductiveInv
<1>2. PICK n \in Nat : n = uploads[w]
  BY <1>1, CatalogAssumption DEF TypeOK
<1> DEFINE D(c) == FirstDelivery(c, w, Original, <<n>>)
<1>3. /\ uploads' = [uploads EXCEPT ![w] = @ + 1]
      /\ work' = work \cup {D(c) : c \in UploadedConsumer}
      /\ UNCHANGED <<known, rows, objects, indexed, listed, colored, lost, faults>>
      /\ n < MaxUploaded
  BY <1>2 DEF Upload, mediaVars, gatewayVars
<1>4. Grows
  BY <1>3 DEF Grows
<1>5. \A c \in UploadedConsumer :
        /\ WellFormed(D(c)) /\ Provided(D(c))'
        /\ D(c).to = c /\ D(c).wallpaper = w /\ D(c).variant = Original
        /\ D(c).step = "start"
        /\ D(c).todo = IF c = "generator" THEN Applicable[w] ELSE {}
  BY UploadedProperties
<1>6. \A j \in work' \ work : \E c \in UploadedConsumer : j = D(c)
  BY <1>3
<1>7. \A j \in work' \ work : WellFormed(j) /\ Provided(j)'
  BY <1>5, <1>6
<1> HIDE DEF D
<1>8. Handlers' /\ AllProvided'
  BY <1>1, <1>4, <1>7, WorkKeeps
<1>9. TypeOK'
  BY <1>1, <1>2, <1>3, <1>8, CatalogAssumption DEF TypeOK, Handlers, WellFormed
<1>10. IndexedIsServable'
  BY <1>3, <1>4, ListingStable DEF InductiveInv
<1>11. NothingVanishes'
  <2> SUFFICES ASSUME NEW u \in Image, uploads'[u] > 0, NEW v \in Expected(u)
               PROVE  \/ listed'[u][v] > 0
                      \/ \E j \in work' : j.wallpaper = u /\ v \in Carries(j)
                      \/ <<u, v>> \in lost'
    BY DEF NothingVanishes
  <2>1. CASE u = w
    <3>1. CASE v = Original
      <4>1. D("media.uploaded") \in work' /\ D("media.uploaded").wallpaper = w
        BY <1>3, <1>5 DEF UploadedConsumer
      <4>2. Original \in Carries(D("media.uploaded"))
        BY <1>5 DEF Carries, UploadedConsumer
      <4> QED
        BY <2>1, <3>1, <4>1, <4>2
    <3>2. CASE v \in Applicable[w]
      <4>1. D("generator") \in work' /\ D("generator").wallpaper = w
        BY <1>3, <1>5 DEF UploadedConsumer
      <4>2. v \in Carries(D("generator"))
        BY <1>5, <3>2 DEF Carries, UploadedConsumer
      <4> QED
        BY <2>1, <4>1, <4>2
    <3> QED
      BY <2>1, <3>1, <3>2 DEF Expected
  <2>2. CASE u # w
    <3>1. uploads[u] > 0
      BY <1>1, <1>3, <2>2, CatalogAssumption DEF TypeOK
    <3> QED
      BY <1>3, <3>1 DEF InductiveInv, NothingVanishes
  <2> QED
    BY <2>1, <2>2
<1> QED
  BY <1>8, <1>9, <1>10, <1>11 DEF InductiveInv

\* Nothing was uploaded, so the invariant holds.
LEMMA InitInductive == ASSUME Init PROVE InductiveInv
  BY CatalogAssumption
  DEF Init, InductiveInv, TypeOK, Handlers, AllProvided, IndexedIsServable,
      NothingVanishes

\* Every step of every service preserves the invariant.
LEMMA NextInductive == ASSUME InductiveInv, [Next]_vars PROVE InductiveInv'
<1>1. CASE UNCHANGED vars
  BY <1>1
  DEF vars, mediaVars, gatewayVars, InductiveInv, TypeOK, Handlers, AllProvided,
      Provided, Servable, IndexedIsServable, NothingVanishes
<1>2. ASSUME NEW i \in work, HandlerStep(i)
      PROVE  InductiveInv'
  BY <1>2, UpsertWallpaperInductive, FindParentInductive, SkipVariantInductive,
     InsertVariantInductive, PublishAvailableInductive, FailingInductive,
     GeneratePresetInductive, PublishVariantInductive, GeneratorDoneInductive,
     ExtractColorsInductive, UpsertDocumentInductive, AddVariantInductive,
     AddColorDataInductive, AckInductive
  DEF HandlerStep, MediaStep, WorkerStep, GatewayStep
<1> QED
  BY <1>1, <1>2, UploadInductive, FailingInductive, PresetFailsInductive DEF Next

\* The invariant holds in every reachable state.
THEOREM CatalogInvariance == Spec => []InductiveInv
  BY InitInductive, NextInductive, PTL DEF Spec

-----------------------------------------------------------------------------
(* What follows.                                                            *)

\* Every variable has its type, and no message is delivered more often than its
\* consumer allows.
THEOREM CatalogTypeCorrect == Spec => []TypeOK
<1>1. InductiveInv => TypeOK
  BY DEF InductiveInv
<1> QED
  BY <1>1, CatalogInvariance, PTL

\* A variant in a search result can be served, in whatever order four services
\* handle, repeat or give up their events.
THEOREM IndexedServable == Spec => []IndexedIsServable
<1>1. InductiveInv => IndexedIsServable
  BY DEF InductiveInv
<1> QED
  BY <1>1, CatalogInvariance, PTL

\* No variant of an uploaded image vanishes but in one of the steps that
\* discard it.
THEOREM NoVariantVanishes == Spec => []NothingVanishes
<1>1. InductiveInv => NothingVanishes
  BY DEF InductiveInv
<1> QED
  BY <1>1, CatalogInvariance, PTL
=============================================================================
