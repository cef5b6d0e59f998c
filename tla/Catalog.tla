------------------------------ MODULE Catalog ------------------------------
(***************************************************************************)
(* From wallpaper.uploaded to the search index: the media service, the     *)
(* variant generator, the color extractor and the gateway, which know each *)
(* other only through events.                                              *)
(*                                                                         *)
(* work holds the deliveries somebody has to handle, one record per        *)
(* consumer and event, with the step its handler is at. Consumers run at   *)
(* their own pace, so events of different consumers are handled in any     *)
(* order. A handler that fails, dies, or whose acknowledgement is lost     *)
(* starts over with the next attempt, as EventConsumer has it in detail,   *)
(* until MaxDeliver deliveries were made.                                  *)
(***************************************************************************)
EXTENDS Naturals, Sequences, FiniteSets

CONSTANTS
  Wallpaper,
  Image,       \* wallpapers with fileType image; the others are videos
  Preset,      \* resolution presets
  Applicable,  \* presets ResolutionMatcherService selects for a wallpaper
  Original,    \* the variant that is the uploaded file itself
  MaxDeliver,  \* deliveries of a message before it is given up
  MaxUploaded, \* bound: wallpaper.uploaded events per wallpaper
  MaxFaults    \* bound: failures, crashes and lost acknowledgements

ASSUME CatalogAssumption ==
  /\ Image \subseteq Wallpaper
  /\ Original \notin Preset
  /\ Applicable \in [Wallpaper -> SUBSET Preset]
  /\ \A w \in Wallpaper \ Image : Applicable[w] = {}
  /\ MaxDeliver \in Nat \ {0}
  /\ MaxUploaded \in Nat
  /\ MaxFaults \in Nat

Variant == {Original} \cup Preset

\* What an image is expected to be found under.
Expected(w) == {Original} \cup Applicable[w]

VARIABLES
  uploads,  \* wallpaper.uploaded events the ingestor published
  work,     \* deliveries to be handled or being handled
  known,    \* media: rows of table wallpapers
  rows,     \* media: rows of table variants, counted by variant
  objects,  \* bucket: variant files
  indexed,  \* gateway: wallpapers with a document
  listed,   \* gateway: entries of a document's variants, counted by variant
  colored,  \* gateway: documents with color data
  lost,     \* history: variants a step discarded, see Lose
  faults    \* faults so far

mediaVars   == <<known, rows>>
gatewayVars == <<indexed, listed, colored>>
vars == <<uploads, work, mediaVars, objects, gatewayVars, lost, faults>>

\* The durable consumers of wallpaper.uploaded, and those of the other events.
UploadedConsumer == {"media.uploaded", "generator", "colors", "gateway.uploaded"}
Consumer ==
  UploadedConsumer \cup {"media.variant", "gateway.variant", "gateway.colors"}

\* Consumers whose handler writes to the gateway's index.
GatewayUpdate == {"gateway.variant", "gateway.colors"}

\* origin names an event by the deliveries that led to it; variant is the one
\* the event is about, or the generator works on; todo are its further presets.
Delivery == [to : Consumer, wallpaper : Wallpaper, variant : Variant,
             origin : Seq(Nat), attempt : 1..MaxDeliver,
             step : {"start", "insert", "publish", "ack"}, todo : SUBSET Preset]

Init ==
  /\ uploads = [w \in Wallpaper |-> 0]
  /\ work = {}
  /\ known = {}
  /\ rows = [w \in Wallpaper |-> [v \in Preset |-> 0]]
  /\ objects = {}
  /\ indexed = {}
  /\ listed = [w \in Wallpaper |-> [v \in Variant |-> 0]]
  /\ colored = {}
  /\ lost = {}
  /\ faults = 0

FirstDelivery(c, w, v, o) ==
  [to |-> c, wallpaper |-> w, variant |-> v, origin |-> o, attempt |-> 1,
   step |-> "start", todo |-> IF c = "generator" THEN Applicable[w] ELSE {}]

\* The ingestor announces w, at least once if at all.
Upload(w) ==
  /\ uploads[w] < MaxUploaded
  /\ uploads' = [uploads EXCEPT ![w] = @ + 1]
  /\ work' = work \cup
       {FirstDelivery(c, w, Original, <<uploads[w]>>) : c \in UploadedConsumer}
  /\ UNCHANGED <<mediaVars, objects, gatewayVars, lost, faults>>
-----------------------------------------------------------------------------
(* Handlers in general.                                                     *)

Handles(i, c, s) == i.to = c /\ i.step = s

\* The handler of i goes on at step s and has published the events in new.
Continue(i, s, new) ==
  work' = (work \ {i}) \cup {[i EXCEPT !.step = s]} \cup new

\* An event published by the handler of i, for its consumer c.
Event(i, c, v) ==
  {FirstDelivery(c, i.wallpaper, v, Append(i.origin, i.attempt))}

Lose(w, V) == lost' = lost \cup ({w} \X V)

\* The variants that do not get any further without the handler of i.
Carries(i) ==
  IF i.step = "ack" THEN {} ELSE
    CASE i.to = "generator" ->
           i.todo \cup (IF i.step = "publish" THEN {i.variant} ELSE {})
      [] i.to \in {"media.uploaded", "media.variant", "gateway.variant"} ->
           {i.variant}
      [] OTHER -> {}

\* Mutant of Redeliverable: the consumer is configured without redelivery.
NoRedelivery(i) == FALSE

Redeliverable(i) == i.attempt < MaxDeliver

\* The next delivery of the message starts from the beginning.
NextAttempt(i) ==
  [FirstDelivery(i.to, i.wallpaper,
                 IF i.to = "generator" THEN Original ELSE i.variant, i.origin)
     EXCEPT !.attempt = i.attempt + 1]

\* Mutant of Fail: the error is swallowed and the message acknowledged.
FailSwallowed(i) == work' = work \ {i} /\ UNCHANGED lost

\* The handler of i throws, or its answer never arrives.
Fail(i) ==
  IF Redeliverable(i)
  THEN work' = (work \ {i}) \cup {NextAttempt(i)} /\ UNCHANGED lost
  ELSE work' = work \ {i} /\ Lose(i.wallpaper, Carries(i))

Fault == faults < MaxFaults /\ faults' = faults + 1

\* An external call fails or the process dies, before the handler of i takes
\* its next step; at "ack" its work is done and the acknowledgement is lost.
HandlerFails(i) ==
  /\ Fault
  /\ Fail(i)
  /\ UNCHANGED <<uploads, mediaVars, objects, gatewayVars>>

Ack(i) ==
  /\ i.step = "ack"
  /\ work' = work \ {i}
  /\ UNCHANGED <<uploads, mediaVars, objects, gatewayVars, lost, faults>>
-----------------------------------------------------------------------------
(* The media service.                                                       *)

UpsertWallpaper(i) ==
  /\ Handles(i, "media.uploaded", "start")
  /\ known' = known \cup {i.wallpaper}
  /\ Continue(i, "publish", {})
  /\ UNCHANGED <<uploads, rows, objects, gatewayVars, lost, faults>>

\* A variant whose wallpaper is known is inserted under a fresh id.
FindParent(i) ==
  /\ Handles(i, "media.variant", "start")
  /\ i.wallpaper \in known
  /\ Continue(i, "insert", {})
  /\ UNCHANGED <<uploads, mediaVars, objects, gatewayVars, lost, faults>>

\* Otherwise the handler warns and returns: the event is acknowledged.
SkipVariant(i) ==
  /\ Handles(i, "media.variant", "start")
  /\ i.wallpaper \notin known
  /\ Continue(i, "ack", {})
  /\ Lose(i.wallpaper, {i.variant})
  /\ UNCHANGED <<uploads, mediaVars, objects, gatewayVars, faults>>

InsertVariant(i) ==
  /\ Handles(i, "media.variant", "insert")
  /\ rows' = [rows EXCEPT ![i.wallpaper][i.variant] = @ + 1]
  /\ Continue(i, "publish", {})
  /\ UNCHANGED <<uploads, known, objects, gatewayVars, lost, faults>>

MediaPublishes(i) == i.to \in {"media.uploaded", "media.variant"} /\ i.step = "publish"

\* publishUploadedEvent: wallpaper.variant.available.
PublishAvailable(i) ==
  /\ MediaPublishes(i)
  /\ i.wallpaper \in Image
  /\ Continue(i, "ack", Event(i, "gateway.variant", i.variant))
  /\ UNCHANGED <<uploads, mediaVars, objects, gatewayVars, lost, faults>>

\* A video has none of the formats: the handler throws on every attempt.
NotAnImage(i) ==
  /\ MediaPublishes(i)
  /\ i.wallpaper \notin Image
  /\ Fail(i)
  /\ UNCHANGED <<uploads, mediaVars, objects, gatewayVars, faults>>

MediaStep(i) ==
  \/ UpsertWallpaper(i) \/ FindParent(i) \/ SkipVariant(i) \/ InsertVariant(i)
  \/ PublishAvailable(i) \/ NotAnImage(i)
-----------------------------------------------------------------------------
(* The variant generator and the color extractor.                           *)

\* Mutant of GeneratePreset: the event is published before the file is put.
PublishBeforePut(i) ==
  /\ Handles(i, "generator", "start")
  /\ \E p \in i.todo :
       LET j == [i EXCEPT !.variant = p, !.todo = @ \ {p}] IN
       work' = (work \ {i}) \cup {[j EXCEPT !.step = "publish"]}
                 \cup Event(i, "media.variant", p)
  /\ UNCHANGED <<uploads, mediaVars, objects, gatewayVars, lost, faults>>

\* generateSingleVariant, for one preset after the other.
GeneratePreset(i) ==
  /\ Handles(i, "generator", "start")
  /\ \E p \in i.todo :
       /\ objects' = objects \cup {<<i.wallpaper, p>>}
       /\ work' = (work \ {i}) \cup
            {[i EXCEPT !.variant = p, !.todo = @ \ {p}, !.step = "publish"]}
  /\ UNCHANGED <<uploads, mediaVars, gatewayVars, lost, faults>>

PublishVariant(i) ==
  /\ Handles(i, "generator", "publish")
  /\ Continue(i, "start", Event(i, "media.variant", i.variant))
  /\ UNCHANGED <<uploads, mediaVars, objects, gatewayVars, lost, faults>>

\* The catch of the loop: the other presets continue, nothing is thrown.
PresetFails(i) ==
  /\ i.to = "generator"
  /\ Fault
  /\ \/ /\ i.step = "start"
        /\ \E p \in i.todo :
             /\ work' = (work \ {i}) \cup {[i EXCEPT !.todo = @ \ {p}]}
             /\ Lose(i.wallpaper, {p})
     \/ /\ i.step = "publish"
        /\ Continue(i, "start", {})
        /\ Lose(i.wallpaper, {i.variant})
  /\ UNCHANGED <<uploads, mediaVars, objects, gatewayVars>>

GeneratorDone(i) ==
  /\ Handles(i, "generator", "start")
  /\ i.todo = {}
  /\ Continue(i, "ack", {})
  /\ UNCHANGED <<uploads, mediaVars, objects, gatewayVars, lost, faults>>

\* extractColors; a video is skipped.
ExtractColors(i) ==
  /\ Handles(i, "colors", "start")
  /\ Continue(i, "ack", IF i.wallpaper \in Image
                        THEN Event(i, "gateway.colors", i.variant) ELSE {})
  /\ UNCHANGED <<uploads, mediaVars, objects, gatewayVars, lost, faults>>

WorkerStep(i) ==
  GeneratePreset(i) \/ PublishVariant(i) \/ GeneratorDone(i) \/ ExtractColors(i)
-----------------------------------------------------------------------------
(* The gateway.                                                             *)

\* The whole document is written, with no variants and no colors.
UpsertDocument(i) ==
  LET w == i.wallpaper IN
  /\ Handles(i, "gateway.uploaded", "start")
  /\ indexed' = indexed \cup {w}
  /\ listed' = [listed EXCEPT ![w] = [v \in Variant |-> 0]]
  /\ colored' = colored \ {w}
  /\ Lose(w, {v \in Variant : listed[w][v] > 0})
  /\ Continue(i, "ack", {})
  /\ UNCHANGED <<uploads, mediaVars, objects, faults>>

\* addVariant appends, whether or not the variant is there already.
AddVariant(i) ==
  /\ Handles(i, "gateway.variant", "start")
  /\ i.wallpaper \in indexed
  /\ listed' = [listed EXCEPT ![i.wallpaper][i.variant] = @ + 1]
  /\ Continue(i, "ack", {})
  /\ UNCHANGED <<uploads, mediaVars, objects, indexed, colored, lost, faults>>

AddColorData(i) ==
  /\ Handles(i, "gateway.colors", "start")
  /\ i.wallpaper \in indexed
  /\ colored' = colored \cup {i.wallpaper}
  /\ Continue(i, "ack", {})
  /\ UNCHANGED <<uploads, mediaVars, objects, indexed, listed, lost, faults>>

\* There is no document to update yet: 404, on every attempt until there is.
DocumentMissing(i) ==
  /\ i.to \in GatewayUpdate
  /\ i.step = "start"
  /\ i.wallpaper \notin indexed
  /\ Fail(i)
  /\ UNCHANGED <<uploads, mediaVars, objects, gatewayVars, faults>>

GatewayStep(i) ==
  UpsertDocument(i) \/ AddVariant(i) \/ AddColorData(i) \/ DocumentMissing(i)
-----------------------------------------------------------------------------
HandlerStep(i) == MediaStep(i) \/ WorkerStep(i) \/ GatewayStep(i) \/ Ack(i)

Next ==
  \/ \E w \in Wallpaper : Upload(w)
  \/ \E i \in work : HandlerStep(i) \/ HandlerFails(i) \/ PresetFails(i)

Spec == Init /\ [][Next]_vars

ConsumerStep(c) == \E i \in work : i.to = c /\ HandlerStep(i)

\* Every consumer works off what it was sent.
Fairness == \A c \in Consumer : WF_vars(ConsumerStep(c))

FairSpec == Spec /\ Fairness
-----------------------------------------------------------------------------
(* Properties.                                                              *)

\* Every variable has its type, and no message is delivered more often than its
\* consumer allows.
TypeOK ==
  /\ uploads \in [Wallpaper -> 0..MaxUploaded]
  /\ \A i \in work : i \in Delivery
  /\ known \subseteq Wallpaper
  /\ rows \in [Wallpaper -> [Preset -> Nat]]
  /\ objects \subseteq Wallpaper \X Preset
  /\ indexed \subseteq Wallpaper
  /\ listed \in [Wallpaper -> [Variant -> Nat]]
  /\ colored \subseteq indexed
  /\ lost \subseteq Wallpaper \X Variant
  /\ faults \in 0..MaxFaults

\* The media service has what it needs to serve variant v of w.
Servable(w, v) ==
  /\ w \in known
  /\ v # Original => rows[w][v] > 0 /\ <<w, v>> \in objects

\* A variant in a search result can be served: the media service has its rows
\* and the bucket its file, although four services act on their own events
\* (put before wallpaper.variant.uploaded, insert before variant.available).
IndexedIsServable ==
  \A w \in Wallpaper, v \in Variant : listed[w][v] > 0 => Servable(w, v)

\* Nothing vanishes between the services: an image that was uploaded is listed
\* under every variant, or some delivery still carries the variant, or it was
\* lost in one of the steps that discard one: a preset that failed, a variant
\* skipped for want of its wallpaper, a message given up, a document
\* overwritten. A failure, a crash or a lost acknowledgement alone loses none.
NothingVanishes ==
  \A w \in Image : uploads[w] > 0 =>
    \A v \in Expected(w) :
      \/ listed[w][v] > 0
      \/ \E i \in work : i.wallpaper = w /\ v \in Carries(i)
      \/ <<w, v>> \in lost

\* Every uploaded wallpaper gets its document, whatever fails, as long as there
\* are fewer faults than deliveries.
EventuallySearchable ==
  \A w \in Wallpaper : uploads[w] > 0 ~> w \in indexed

=============================================================================
