------------------------------ MODULE Serving ------------------------------
(***************************************************************************)
(* GET /wallpapers/:id of the media service: the query parameters, the     *)
(* wallpaper's row, the choice of a source by the variants recorded, the   *)
(* file from the bucket, the original in place of a variant whose file     *)
(* cannot be had, and the resize. Meanwhile the generator stores renderings*)
(* of the same wallpaper and the consumer records them.                    *)
(*                                                                         *)
(* One wallpaper: requests for others touch other rows and other files.    *)
(***************************************************************************)
EXTENDS Renditions

CONSTANTS
  Original,    \* the file that was uploaded; others are renderings of presets
  Uploaded,    \* sizes the wallpaper may have been uploaded in
  Widths,      \* values of the query parameters w and h
  Heights,
  MaxWidth,    \* the largest the route accepts
  MaxHeight,
  MaxFaults    \* bound: reads of the bucket that fail

ASSUME ServingAssumption ==
  /\ Original \notin Preset
  /\ Uploaded \subseteq Size
  /\ Widths \subseteq Nat
  /\ Heights \subseteq Nat
  /\ MaxFaults \in Nat

File    == {Original} \union Preset
Fit     == {"contain", "cover", "fill"}
Request == [width : Widths, height : Heights, fit : Fit]

VARIABLES
  original,  \* size of the wallpaper
  known,     \* it has a row in table wallpapers
  rows,      \* presets recorded in table variants
  files,     \* its files in the bucket
  step,      \* the next step of the request
  request,   \* what is asked for
  source,    \* the file chosen to answer from
  answer,    \* how it was answered
  faults     \* failed reads so far

storeVars == <<original, known, rows, files>>
vars == <<storeVars, step, request, source, answer, faults>>

NoAnswer == [status |-> "none"]
Sent(s)  == [status |-> "sent", size |-> s]
Answer   ==
  {[status |-> a] : a \in {"none", "invalid", "unknown", "missing"}}
    \union [status : {"sent"}, size : Size]

Init ==
  /\ original \in Uploaded
  /\ known = FALSE
  /\ rows = {}
  /\ files = {Original}
  /\ step = "idle"
  /\ request \in Request
  /\ source = Original
  /\ answer = NoAnswer
  /\ faults = 0

-----------------------------------------------------------------------------
(* The wallpaper becomes known and gets its variants.                       *)

\* wallpaper.uploaded arrives: the row is upserted.
LearnWallpaper ==
  /\ ~known
  /\ known' = TRUE
  /\ UNCHANGED <<original, rows, files, step, request, source, answer, faults>>

\* The generator puts the rendering of a preset.
StoreVariant(p) ==
  /\ Original \in files
  /\ p \notin files
  /\ p \in ApplicablePresets(original)
  /\ files' = files \union {p}
  /\ UNCHANGED <<original, known, rows, step, request, source, answer, faults>>

\* handleEvent skips a variant whose wallpaper it does not know.
HasParent == known

\* wallpaper.variant.uploaded arrives: a row with the dimensions of the preset.
RecordVariant(p) ==
  /\ p \in files \ rows
  /\ HasParent
  /\ rows' = rows \union {p}
  /\ UNCHANGED <<original, known, files, step, request, source, answer, faults>>

\* A file is gone from the bucket (the media service expects it of variants).
LoseFile(f) ==
  /\ f \in files
  /\ files' = files \ {f}
  /\ UNCHANGED <<original, known, rows, step, request, source, answer, faults>>

-----------------------------------------------------------------------------
(* The request.                                                             *)

Respond(a) == answer' = a /\ step' = "done"

\* ResizeQuerySchema: given dimensions are within 1..MaxWidth, 1..MaxHeight.
Valid(r) ==
  /\ r.width = Absent \/ r.width \in 1 .. MaxWidth
  /\ r.height = Absent \/ r.height \in 1 .. MaxHeight

Validate ==
  /\ step = "idle"
  /\ IF Valid(request)
       THEN step' = "find" /\ UNCHANGED answer
       ELSE Respond([status |-> "invalid"])
  /\ UNCHANGED <<storeVars, request, source, faults>>

FindWallpaper ==
  /\ step = "find"
  /\ IF known
       THEN step' = "select" /\ UNCHANGED answer
       ELSE Respond([status |-> "unknown"])
  /\ UNCHANGED <<storeVars, request, source, faults>>

\* The dimensions variants are sought by: the original's where none is given.
Wanted(r) ==
  [width  |-> IF r.width = Absent THEN original.width ELSE r.width,
   height |-> IF r.height = Absent THEN original.height ELSE r.height]

Upscales(r) ==
  /\ r.fit # "fill"
  /\ Wanted(r).width > original.width \/ Wanted(r).height > original.height

\* Mutant of LargeEnough: a dimension that is not given is not compared.
LargeEnoughAsGiven(p, r) ==
  p.width >= r.width /\ p.height >= r.height

LargeEnough(p, r) ==
  p.width >= Wanted(r).width /\ p.height >= Wanted(r).height

\* findSmallestSuitable; between variants of one area the database chooses.
SmallestSuitable(r) ==
  LET suitable == {p \in rows : LargeEnough(p, r)}
  IN {p \in suitable : \A q \in suitable : Area(p) <= Area(q)}

SelectSource ==
  /\ step = "select"
  /\ IF Resizes(request) /\ ~Upscales(request) /\ SmallestSuitable(request) # {}
       THEN source' \in SmallestSuitable(request)
       ELSE source' = Original
  /\ step' = "get"
  /\ UNCHANGED <<storeVars, request, answer, faults>>

SizeOf(f) == IF f = Original THEN original ELSE Rendered(f, original)

\* The source is read, resized if a dimension is given, and streamed.
GetSource ==
  /\ step \in {"get", "fallback"}
  /\ source \in files
  /\ Respond(Sent(Resized(SizeOf(source), request)))
  /\ UNCHANGED <<storeVars, request, source, faults>>

\* Mutant of Fallback: the file of the variant is tried again.
FallbackToVariant ==
  /\ step' = "get"
  /\ UNCHANGED <<source, answer>>

\* Mutant of Fallback: there is none, a missing variant is a missing wallpaper.
NoFallback ==
  /\ Respond([status |-> "missing"])
  /\ UNCHANGED source

\* A variant that cannot be had is replaced by the original.
Fallback ==
  /\ step' = "fallback"
  /\ source' = Original
  /\ UNCHANGED answer

\* The read throws: the file is gone, or the bucket fails.
GetFails ==
  /\ step \in {"get", "fallback"}
  /\ IF source \in files
       THEN faults < MaxFaults /\ faults' = faults + 1
       ELSE UNCHANGED faults
  /\ IF source \in Preset
       THEN Fallback
       ELSE Respond([status |-> "missing"]) /\ UNCHANGED source
  /\ UNCHANGED <<storeVars, request>>

RequestStep == Validate \/ FindWallpaper \/ SelectSource \/ GetSource \/ GetFails

StoreStep ==
  \/ LearnWallpaper
  \/ \E p \in Preset : StoreVariant(p) \/ RecordVariant(p)
  \/ \E f \in File : LoseFile(f)

Next == RequestStep \/ StoreStep

Spec == Init /\ [][Next]_vars

\* The handler of a request goes on: each of its calls returns or throws.
FairSpec == Spec /\ WF_vars(RequestStep)

-----------------------------------------------------------------------------
(* Properties.                                                              *)

\* Every variable has its type; variants are recorded of a known wallpaper only.
TypeOK ==
  /\ original \in Uploaded
  /\ known \in BOOLEAN
  /\ rows \subseteq (IF known THEN Preset ELSE {})
  /\ files \subseteq File
  /\ step \in {"idle", "find", "select", "get", "fallback", "done"}
  /\ request \in Request
  /\ source \in File
  /\ step = "fallback" => source = Original
  /\ answer \in Answer
  /\ faults \in 0 .. MaxFaults

Near(m, n, k) == m - n \in (-k) .. k

Elongated(s) == s.width > 2 * s.height \/ s.height > 2 * s.width

\* The choice of a source is invisible: a contained or stretched image has the
\* size the original would have given, but for a pixel of rounding twice, or two
\* where an image is more than twice as long as it is wide; although variants are
\* recorded larger than they were rendered (selectSource, resizeImage).
SameAsFromOriginal ==
  answer.status = "sent" /\ request.fit # "cover" =>
    LET expected == Resized(original, request)
        rounding == IF Elongated(original) THEN 2 ELSE 1
    IN  /\ Near(answer.size.width, expected.width, rounding)
        /\ Near(answer.size.height, expected.height, rounding)

\* The fallback of getWallpaperResized: while the original is in the bucket and
\* reads of it succeed, no lost variant makes a known wallpaper a missing one.
MissingOnlyWithoutOriginal ==
  answer.status = "missing" => Original \notin files \/ faults > 0

\* Every request is answered, whatever files are lost while it is handled.
RequestIsAnswered == <>(step = "done")
=============================================================================
