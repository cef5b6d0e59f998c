--------------------------- MODULE ServingProofs ---------------------------
(***************************************************************************)
(* Proofs about Serving, for any categories, presets, original and request: *)
(* a size is always one of an image, the fallback to the original, and that  *)
(* an answer does not show which source it was made from.                    *)
(***************************************************************************)
EXTENDS Serving, NaturalsInduction, WellFoundedInduction, TLAPS

----------------------------------------------------------------------------
(* Sizes.                                                                  *)

Positive == Nat \ {0}

LEMMA MaxOfOne ==
  ASSUME NEW n \in Int
  PROVE  Max({1, n}) \in Positive
<1> DEFINE S == {1, n}
<1>1. \E m \in S : \A k \in S : m >= k
  BY DEF S
<1>2. PICK m \in S : m = Max(S)
  BY <1>1 DEF Max
<1>3. Max(S) \in S /\ \A k \in S : Max(S) >= k
  BY <1>1 DEF Max
<1> QED
  BY <1>3 DEF Positive

LEMMA MinOfTwo ==
  ASSUME NEW m \in Positive, NEW n \in Positive
  PROVE  Min({m, n}) \in Positive
<1>1. \E k \in {m, n} : \A j \in {m, n} : k <= j
  BY DEF Positive
<1>2. Min({m, n}) \in {m, n}
  BY <1>1 DEF Min
<1> QED
  BY <1>2

\* Rounding never leaves an image without pixels.
LEMMA PixelsArePositive ==
  ASSUME NEW a \in Nat, NEW b \in Positive
  PROVE  Pixels(a, b) \in Positive
<1>1. 2 * a + b \in Int /\ 2 * b \in Nat /\ 2 * b > 0
  BY DEF Positive
<1>2. (2 * a + b) \div (2 * b) \in Int
  BY <1>1
<1> QED
  BY <1>2, MaxOfOne DEF Pixels

LEMMA ByWidthIsSize ==
  ASSUME NEW s \in Size, NEW w \in Positive
  PROVE  ByWidth(s, w) \in Size
<1>1. s.height * w \in Nat /\ s.width \in Positive
  BY DEF Size, Positive
<1>2. Pixels(s.height * w, s.width) \in Positive
  BY <1>1, PixelsArePositive
<1> QED
  BY <1>2 DEF ByWidth, Size, Positive

LEMMA ByHeightIsSize ==
  ASSUME NEW s \in Size, NEW h \in Positive
  PROVE  ByHeight(s, h) \in Size
<1>1. s.width * h \in Nat /\ s.height \in Positive
  BY DEF Size, Positive
<1>2. Pixels(s.width * h, s.height) \in Positive
  BY <1>1, PixelsArePositive
<1> QED
  BY <1>2 DEF ByHeight, Size, Positive

LEMMA ContainIsSize ==
  ASSUME NEW s \in Size, NEW r, r.width \in Nat, r.height \in Nat, Resizes(r)
  PROVE  Contain(s, r) \in Size
<1>1. CASE WidthBinds(s, r)
  <2>1. r.width \in Positive
    BY <1>1 DEF WidthBinds, Resizes, Absent, Positive
  <2> QED
    BY <1>1, <2>1, ByWidthIsSize DEF Contain
<1>2. CASE ~WidthBinds(s, r)
  <2>1. r.height \in Positive
    BY <1>2 DEF WidthBinds, Absent, Positive
  <2> QED
    BY <1>2, <2>1, ByHeightIsSize DEF Contain
<1> QED
  BY <1>1, <1>2

LEMMA CoverIsSize ==
  ASSUME NEW s \in Size, NEW r, r.width \in Nat, r.height \in Nat, Resizes(r)
  PROVE  Cover(s, r) \in Size
<1>1. CASE r.width = Absent \/ r.height = Absent
  BY <1>1, ContainIsSize DEF Cover
<1>2. CASE r.width # Absent /\ r.height # Absent
  <2> DEFINE scaled == IF WidthBinds(s, r) THEN ByHeight(s, r.height) ELSE ByWidth(s, r.width)
  <2>1. r.width \in Positive /\ r.height \in Positive
    BY <1>2 DEF Absent, Positive
  <2>2. scaled \in Size
    BY <2>1, ByWidthIsSize, ByHeightIsSize
  <2>3. Cover(s, r) = [width |-> Min({scaled.width, r.width}), height |-> Min({scaled.height, r.height})]
    BY <1>2 DEF Cover
  <2> HIDE DEF scaled
  <2>4. Min({scaled.width, r.width}) \in Positive /\ Min({scaled.height, r.height}) \in Positive
    BY <2>1, <2>2, MinOfTwo DEF Size, Positive
  <2> QED
    BY <2>3, <2>4 DEF Size, Positive
<1> QED
  BY <1>1, <1>2

LEMMA ResizedIsSize ==
  ASSUME NEW s \in Size, NEW r \in Request
  PROVE  Resized(s, r) \in Size
<1> r.width \in Nat /\ r.height \in Nat /\ r.fit \in Fit
  BY ServingAssumption DEF Request
<1>1. CASE ~Resizes(r)
  BY <1>1 DEF Resized
<1>2. CASE Resizes(r) /\ r.fit = "contain"
  BY <1>2, ContainIsSize DEF Resized
<1>3. CASE Resizes(r) /\ r.fit = "cover"
  BY <1>3, CoverIsSize DEF Resized
<1>4. CASE Resizes(r) /\ r.fit = "fill"
  <2>1. Fill(s, r) \in Size
    BY DEF Fill, Size, Absent
  <2> QED
    BY <1>4, <2>1 DEF Resized
<1> QED
  BY <1>1, <1>2, <1>3, <1>4 DEF Fit

LEMMA PresetIsSize == Preset \subseteq Size
<1>1. \A i \in DOMAIN Categories : Categories[i] \in Category
  BY RenditionsAssumption
<1> QED
  BY <1>1 DEF Preset, Category

LEMMA SourceIsSize ==
  ASSUME original \in Size, NEW f \in File
  PROVE  SizeOf(f) \in Size
<1>1. CASE f = Original
  BY <1>1 DEF SizeOf
<1>2. CASE f # Original
  <2> DEFINE r == [width |-> f.width, height |-> f.height]
  <2>1. f \in Size
    BY <1>2, PresetIsSize DEF File
  <2>2. r.width \in Nat /\ r.height \in Nat /\ Resizes(r)
    BY <2>1 DEF Size, Resizes, Absent
  <2> QED
    BY <1>2, <2>2, ContainIsSize DEF SizeOf, Rendered
<1> QED
  BY <1>1, <1>2

----------------------------------------------------------------------------
(* Types.                                                                  *)

LEMMA TypeInit == Init => TypeOK
<1> SUFFICES ASSUME Init PROVE TypeOK
  OBVIOUS
<1>1. NoAnswer \in Answer /\ 0 \in 0 .. MaxFaults
  BY ServingAssumption DEF NoAnswer, Answer
<1> QED
  BY <1>1 DEF Init, TypeOK, File

LEMMA TypeStep == TypeOK /\ [Next]_vars => TypeOK'
<1> SUFFICES ASSUME TypeOK, [Next]_vars PROVE TypeOK'
  OBVIOUS
<1> USE ServingAssumption DEF TypeOK, storeVars
<1>1. CASE LearnWallpaper
  BY <1>1 DEF LearnWallpaper
<1>2. ASSUME NEW p \in Preset, StoreVariant(p) PROVE TypeOK'
  BY <1>2 DEF StoreVariant, File
<1>3. ASSUME NEW p \in Preset, RecordVariant(p) PROVE TypeOK'
  BY <1>3 DEF RecordVariant, HasParent
<1>4. ASSUME NEW f \in File, LoseFile(f) PROVE TypeOK'
  BY <1>4 DEF LoseFile
<1>5. CASE Validate \/ FindWallpaper
  BY <1>5 DEF Validate, FindWallpaper, Respond, Answer
<1>6. CASE SelectSource
  BY <1>6 DEF SelectSource, SmallestSuitable, File
<1>7. CASE GetSource
  <2>1. Resized(SizeOf(source), request) \in Size
    BY SourceIsSize, ResizedIsSize
  <2>2. Sent(Resized(SizeOf(source), request)) \in Answer
    BY <2>1 DEF Sent, Answer
  <2> QED
    BY <1>7, <2>2 DEF GetSource, Respond
<1>8. CASE GetFails
  BY <1>8 DEF GetFails, Fallback, Respond, Answer, File
<1>9. CASE UNCHANGED vars
  BY <1>9 DEF vars
<1> QED
  BY <1>1, <1>2, <1>3, <1>4, <1>5, <1>6, <1>7, <1>8, <1>9 DEF Next, StoreStep, RequestStep

\* Every answer has a size an image can have, and variants are recorded of a
\* known wallpaper only (media service: handleEvent, resizeImage).
THEOREM TypeCorrect == Spec => []TypeOK
  BY TypeInit, TypeStep, PTL DEF Spec

----------------------------------------------------------------------------
(* The fallback.                                                           *)

ServingInv == TypeOK /\ MissingOnlyWithoutOriginal

LEMMA ServingStep == ServingInv /\ [Next]_vars => ServingInv'
<1> SUFFICES ASSUME ServingInv, [Next]_vars PROVE MissingOnlyWithoutOriginal'
  BY TypeStep DEF ServingInv
<1> TypeOK
  BY DEF ServingInv
<1> USE ServingAssumption DEF ServingInv, MissingOnlyWithoutOriginal, storeVars
<1>1. CASE StoreStep
  BY <1>1 DEF StoreStep, LearnWallpaper, StoreVariant, RecordVariant, LoseFile
<1>2. CASE Validate \/ FindWallpaper \/ SelectSource
  BY <1>2 DEF Validate, FindWallpaper, SelectSource, Respond
<1>3. CASE GetSource
  BY <1>3 DEF GetSource, Respond, Sent
<1>4. CASE GetFails
  <2>1. CASE source \in Preset
    BY <1>4, <2>1 DEF GetFails, Fallback, TypeOK
  <2>2. CASE source \notin Preset
    <3>1. source = Original
      BY <2>2 DEF TypeOK, File
    <3> QED
      BY <1>4, <2>2, <3>1 DEF GetFails, TypeOK
  <2> QED
    BY <2>1, <2>2
<1>5. CASE UNCHANGED vars
  BY <1>5 DEF vars
<1> QED
  BY <1>1, <1>2, <1>3, <1>4, <1>5 DEF Next, RequestStep

\* A lost variant never makes a known wallpaper a missing one.
THEOREM MissingIsMissing == Spec => []MissingOnlyWithoutOriginal
<1>1. Init => ServingInv
  BY TypeInit DEF Init, ServingInv, MissingOnlyWithoutOriginal, NoAnswer
<1>2. ServingInv => MissingOnlyWithoutOriginal
  BY DEF ServingInv
<1> QED
  BY <1>1, <1>2, ServingStep, PTL DEF Spec

----------------------------------------------------------------------------
(* Rounding, once and twice.                                               *)

LEMMA TimesAtMost ==
  ASSUME NEW x \in Int, NEW y \in Int, x <= y, NEW c \in Nat
  PROVE  c * x <= c * y
<1>1. c * (y - x) \in Nat /\ c * (y - x) = c * y - c * x
  OBVIOUS
<1> QED
  BY <1>1

LEMMA TimesLess ==
  ASSUME NEW x \in Int, NEW y \in Int, x < y, NEW c \in Positive
  PROVE  c * x < c * y
<1>1. c * (y - x - 1) \in Nat /\ c * (y - x - 1) = c * y - c * x - c
  BY DEF Positive
<1> QED
  BY <1>1 DEF Positive

LEMMA Cancel ==
  ASSUME NEW x \in Int, NEW y \in Int, NEW c \in Positive, c * x < c * y
  PROVE  x < y
<1> SUFFICES ASSUME y <= x PROVE FALSE
  OBVIOUS
<1> QED
  BY TimesAtMost DEF Positive

LEMMA QuotientBounds ==
  ASSUME NEW a \in Nat, NEW d \in Positive
  PROVE  /\ a \div d \in Nat
         /\ d * (a \div d) <= a
         /\ a < d * (a \div d) + d
<1> DEFINE q == a \div d
           m == a % d
<1>1. q \in Int /\ m \in 0 .. d - 1 /\ a = d * q + m
  BY DEF Positive
<1> HIDE DEF q, m
<1>2. q >= 0
  <2> SUFFICES ASSUME q < 0 PROVE FALSE
    BY <1>1
  <2>1. d * (-1 - q) \in Nat /\ d * (-1 - q) = -d - d * q
    BY <1>1 DEF Positive
  <2> QED
    BY <1>1, <2>1 DEF Positive
<1> QED
  BY <1>1, <1>2 DEF q, Positive

\* The pixels are the nearest to the quotient, unless that is none at all.
LEMMA PixelsAreNearest ==
  ASSUME NEW a \in Nat, NEW b \in Positive
  PROVE  /\ Pixels(a, b) \in Positive
         /\ 2 * a < 2 * (b * Pixels(a, b)) + b
         /\ Pixels(a, b) = 1 \/ 2 * (b * Pixels(a, b)) <= 2 * a + b
<1> DEFINE d == 2 * b
           q == (2 * a + b) \div d
<1>1. 2 * a + b \in Nat /\ d \in Positive
  BY DEF Positive
<1>2. q \in Nat /\ d * q <= 2 * a + b /\ 2 * a + b < d * q + d
  BY <1>1, QuotientBounds
<1> HIDE DEF q
<1>3. d * q = 2 * (b * q)
  BY <1>2 DEF Positive
<1>4. Max({1, q}) = IF q >= 1 THEN q ELSE 1
  BY <1>2 DEF Max
<1>5. Pixels(a, b) = Max({1, q})
  BY DEF Pixels, q
<1>6. CASE q >= 1
  BY <1>2, <1>3, <1>4, <1>5, <1>6 DEF Positive
<1>7. CASE q = 0
  BY <1>2, <1>3, <1>4, <1>5, <1>7 DEF Positive
<1> QED
  BY <1>2, <1>6, <1>7

LEMMA PixelsAtMost ==
  ASSUME NEW a \in Nat, NEW b \in Positive, NEW n \in Positive,
         2 * a < 2 * (b * n) + b
  PROVE  Pixels(a, b) <= n
<1> DEFINE k == Pixels(a, b)
<1>1. k \in Positive /\ (k = 1 \/ 2 * (b * k) <= 2 * a + b)
  BY PixelsAreNearest
<1> HIDE DEF k
<1>2. CASE k = 1
  BY <1>2 DEF k, Positive
<1>3. CASE 2 * (b * k) <= 2 * a + b
  <2>1. b * k < b * (n + 1)
    <3>1. b * (n + 1) = b * n + b
      BY DEF Positive
    <3> QED
      BY <1>1, <1>3, <3>1 DEF Positive
  <2> QED
    BY <1>1, <2>1, Cancel DEF k, Positive
<1> QED
  BY <1>1, <1>2, <1>3

LEMMA PixelsAtLeast ==
  ASSUME NEW a \in Nat, NEW b \in Positive, NEW n \in Int,
         2 * (b * n) <= 2 * a + b
  PROVE  n <= Pixels(a, b)
<1> DEFINE k == Pixels(a, b)
<1>1. k \in Positive /\ 2 * a < 2 * (b * k) + b
  BY PixelsAreNearest
<1> HIDE DEF k
<1>2. b * n < b * (k + 1)
  <2>1. b * (k + 1) = b * k + b
    BY <1>1 DEF Positive
  <2> QED
    BY <1>1, <2>1 DEF Positive
<1> QED
  BY <1>1, <1>2, Cancel DEF k, Positive

\* A image W wide and H high was made P wide and R high, which is rounded; from
\* either an image is made that is to be w wide or h high, whichever is less of it.
Twice(W, H, P, R, w, h, c) ==
  /\ W \in Positive /\ H \in Positive /\ P \in Positive
  /\ w \in 1 .. P /\ h \in Positive /\ c \in Positive
  /\ R = Pixels(H * P, W)
  /\ W <= (c + 1) * H

LEMMA RenderedHeight ==
  ASSUME NEW W, NEW H, NEW P, NEW R, NEW w, NEW h, NEW c, Twice(W, H, P, R, w, h, c)
  PROVE  /\ R \in Positive
         /\ 2 * (H * P) < 2 * (W * R) + W
         /\ R = 1 \/ 2 * (W * R) <= 2 * (H * P) + W
<1>1. H * P \in Nat
  BY DEF Twice, Positive
<1> QED
  BY <1>1, PixelsAreNearest DEF Twice

\* The width binds both times: the heights are a pixel apart at most.
LEMMA WidthTwice ==
  ASSUME NEW W, NEW H, NEW P, NEW R, NEW w, NEW h, NEW c, Twice(W, H, P, R, w, h, c)
  PROVE  Near(Pixels(R * w, P), Pixels(H * w, W), 1)
<1> DEFINE k == Pixels(R * w, P)
           e == Pixels(H * w, W)
<1> W \in Positive /\ H \in Positive /\ P \in Positive /\ w \in Positive /\ w <= P
  BY DEF Twice, Positive
<1>1. /\ R \in Positive
      /\ 2 * (H * P) < 2 * (W * R) + W
      /\ R = 1 \/ 2 * (W * R) <= 2 * (H * P) + W
  BY RenderedHeight
<1>2. R * w \in Nat /\ H * w \in Nat
  BY <1>1 DEF Positive
<1>3. k \in Positive /\ 2 * (R * w) < 2 * (P * k) + P
  BY <1>2, PixelsAreNearest
<1>4. e \in Positive /\ 2 * (H * w) < 2 * (W * e) + W
  BY <1>2, PixelsAreNearest
<1> HIDE DEF k, e
<1>5. W * w <= W * P
  BY TimesAtMost DEF Positive
<1>6. k <= e + 1
  <2>1. 2 * (R * w) < 2 * (P * (e + 1)) + P
    <3>1. CASE R = 1
      <4>1. P * (e + 1) = P * e + P /\ P * e \in Nat
        BY <1>4 DEF Positive
      <4> QED
        BY <3>1, <4>1 DEF Positive
    <3>2. CASE 2 * (W * R) <= 2 * (H * P) + W
      <4>1. w * (2 * (W * R)) <= w * (2 * (H * P) + W)
        BY <1>1, <3>2, TimesAtMost DEF Positive
      <4>2. P * (2 * (H * w)) < P * (2 * (W * e) + W)
        BY <1>4, TimesLess DEF Positive
      <4>3. /\ w * (2 * (W * R)) = W * (2 * (R * w))
            /\ w * (2 * (H * P) + W) = P * (2 * (H * w)) + W * w
            /\ P * (2 * (W * e) + W) + W * P = W * (2 * (P * e) + 2 * P)
        BY <1>1, <1>4 DEF Positive
      <4>4. W * (2 * (R * w)) < W * (2 * (P * e) + 2 * P)
        BY <1>1, <1>4, <1>5, <4>1, <4>2, <4>3 DEF Positive
      <4>5. 2 * (R * w) < 2 * (P * e) + 2 * P
        BY <1>1, <1>4, <4>4, Cancel DEF Positive
      <4> QED
        BY <1>1, <1>4, <4>5 DEF Positive
    <3> QED
      BY <1>1, <3>1, <3>2
  <2>2. e + 1 \in Positive
    BY <1>4 DEF Positive
  <2> QED
    BY <1>2, <2>1, <2>2, PixelsAtMost DEF k
<1>7. e <= k + 1
  <2>1. w * (2 * (H * P)) < w * (2 * (W * R) + W)
    BY <1>1, TimesLess DEF Positive
  <2>2. W * (2 * (R * w)) < W * (2 * (P * k) + P)
    BY <1>1, <1>3, TimesLess DEF Positive
  <2>3. /\ w * (2 * (H * P)) = P * (2 * (H * w))
        /\ w * (2 * (W * R) + W) = W * (2 * (R * w)) + W * w
        /\ W * (2 * (P * k) + P) + W * P = P * (2 * (W * k) + 2 * W)
    BY <1>1, <1>3 DEF Positive
  <2>4. P * (2 * (H * w)) < P * (2 * (W * k) + 2 * W)
    BY <1>1, <1>3, <1>5, <2>1, <2>2, <2>3 DEF Positive
  <2>5. 2 * (H * w) < 2 * (W * k) + 2 * W
    BY <1>3, <2>4, Cancel DEF Positive
  <2>6. W * (k + 1) = W * k + W
    BY <1>3 DEF Positive
  <2>7. 2 * (H * w) < 2 * (W * (k + 1)) + W
    BY <1>3, <2>5, <2>6 DEF Positive
  <2> QED
    BY <1>2, <1>3, <2>7, PixelsAtMost DEF e, Positive
<1> QED
  BY <1>3, <1>4, <1>6, <1>7 DEF Near, k, e, Positive

\* The width binds the image rendered, the height the original.
LEMMA WidthThenHeight ==
  ASSUME NEW W, NEW H, NEW P, NEW R, NEW w, NEW h, NEW c, Twice(W, H, P, R, w, h, c),
         R * w <= P * h, W * h < H * w
  PROVE  Near(w, Pixels(W * h, H), c) /\ Pixels(R * w, P) = h
<1> DEFINE k == Pixels(R * w, P)
           f == Pixels(W * h, H)
<1> /\ W \in Positive /\ H \in Positive /\ P \in Positive /\ w \in Positive /\ w <= P
    /\ h \in Positive /\ c \in Positive
  BY DEF Twice, Positive
<1>1. R \in Positive /\ 2 * (H * P) < 2 * (W * R) + W
  BY RenderedHeight
<1>2. R * w \in Nat /\ W * h \in Nat
  BY <1>1 DEF Positive
<1>3. W * w <= W * P
  BY TimesAtMost DEF Positive
<1>4. w * (2 * (H * P)) < w * (2 * (W * R) + W)
  BY <1>1, TimesLess DEF Positive
<1>5. w * (2 * (H * P)) = P * (2 * (H * w)) /\ w * (2 * (W * R) + W) = W * (2 * (R * w)) + W * w
  BY <1>1 DEF Positive
<1>6. k <= h
  BY <1>1, <1>2, PixelsAtMost DEF Positive
<1>7. h <= k
  <2>1. P * (2 * (W * h)) < P * (2 * (H * w))
    BY TimesLess DEF Positive
  <2>2. P * (2 * (W * h)) = W * (2 * (P * h)) /\ W * (2 * (R * w) + P) = W * (2 * (R * w)) + W * P
    BY <1>1 DEF Positive
  <2>3. W * (2 * (P * h)) < W * (2 * (R * w) + P)
    BY <1>1, <1>3, <1>4, <1>5, <2>1, <2>2 DEF Positive
  <2>4. 2 * (P * h) < 2 * (R * w) + P
    BY <1>1, <2>3, Cancel DEF Positive
  <2> QED
    BY <1>1, <1>2, <2>4, PixelsAtLeast DEF Positive
<1>8. f <= w
  BY <1>2, PixelsAtMost DEF Positive
<1>9. w - c <= f
  <2>1. W * (2 * (R * w)) <= W * (2 * (P * h))
    BY <1>1, TimesAtMost DEF Positive
  <2>2. W * (2 * (P * h)) + W * P = P * (2 * (W * h) + W)
    BY DEF Positive
  <2>3. P * (2 * (H * w)) < P * (2 * (W * h) + W)
    BY <1>1, <1>3, <1>4, <1>5, <2>1, <2>2 DEF Positive
  <2>4. 2 * (H * w) < 2 * (W * h) + W
    BY <2>3, Cancel DEF Positive
  <2>5. (c + 1) * H = H * c + H /\ H * (w - c) = H * w - H * c
    BY DEF Positive
  <2>6. 2 * (H * (w - c)) <= 2 * (W * h) + H
    <3>1. H * c \in Nat /\ H <= H * c
      <4>1. H * 1 <= H * c
        BY TimesAtMost DEF Positive
      <4> QED
        BY <4>1 DEF Positive
    <3> QED
      BY <2>4, <2>5, <3>1 DEF Twice, Positive
  <2>7. w - c \in Int
    BY DEF Positive
  <2> QED
    BY <1>2, <2>6, <2>7, PixelsAtLeast
<1>10. k \in Positive /\ f \in Positive
  BY <1>2, PixelsAreNearest
<1> HIDE DEF k, f
<1>11. k = h
  BY <1>6, <1>7, <1>10 DEF Positive
<1>12. Near(w, f, c)
  BY <1>8, <1>9, <1>10 DEF Near, Positive
<1> QED
  BY <1>11, <1>12 DEF k, f

\* A height that binds the image rendered is less than its own, which was rounded
\* to the nearest pixel: it has more than one.
LEMMA HeightIsLess ==
  ASSUME NEW W, NEW H, NEW P, NEW R, NEW w, NEW h, NEW c, Twice(W, H, P, R, w, h, c),
         P * h < R * w
  PROVE  h < R /\ 2 * (W * R) <= 2 * (H * P) + W
<1> /\ P \in Positive /\ w \in Positive /\ w <= P /\ h \in Positive
  BY DEF Twice, Positive
<1>1. R \in Positive /\ (R = 1 \/ 2 * (W * R) <= 2 * (H * P) + W)
  BY RenderedHeight
<1>2. R * w <= R * P /\ R * P = P * R
  BY <1>1, TimesAtMost DEF Positive
<1>3. P * h < P * R
  BY <1>1, <1>2 DEF Positive
<1>4. h < R
  BY <1>1, <1>3, Cancel DEF Positive
<1> QED
  BY <1>1, <1>4 DEF Positive

\* The height binds the image rendered, the width the original.
LEMMA HeightThenWidth ==
  ASSUME NEW W, NEW H, NEW P, NEW R, NEW w, NEW h, NEW c, Twice(W, H, P, R, w, h, c),
         P * h < R * w, H * w <= W * h
  PROVE  Near(Pixels(P * h, R), w, c) /\ Pixels(H * w, W) = h
<1> DEFINE g == Pixels(P * h, R)
           e == Pixels(H * w, W)
<1> /\ W \in Positive /\ H \in Positive /\ P \in Positive /\ w \in Positive /\ w <= P
    /\ h \in Positive /\ c \in Positive
  BY DEF Twice, Positive
<1>1. R \in Positive /\ 2 * (W * R) <= 2 * (H * P) + W
  BY RenderedHeight, HeightIsLess
<1>2. P * h \in Nat /\ H * w \in Nat
  BY DEF Positive
<1>3. W * w <= W * P
  BY TimesAtMost DEF Positive
<1>4. w * (2 * (W * R)) <= w * (2 * (H * P) + W)
  BY <1>1, TimesAtMost DEF Positive
<1>5. /\ w * (2 * (W * R)) = W * (2 * (R * w))
      /\ w * (2 * (H * P) + W) = P * (2 * (H * w)) + W * w
  BY <1>1 DEF Positive
<1>6. e <= h
  BY <1>2, PixelsAtMost DEF Positive
<1>7. h <= e
  <2>1. W * (2 * (P * h)) < W * (2 * (R * w))
    BY <1>1, TimesLess DEF Positive
  <2>2. W * (2 * (P * h)) = P * (2 * (W * h)) /\ P * (2 * (H * w) + W) = P * (2 * (H * w)) + W * P
    BY DEF Positive
  <2>3. P * (2 * (W * h)) < P * (2 * (H * w) + W)
    BY <1>1, <1>3, <1>4, <1>5, <2>1, <2>2 DEF Positive
  <2>4. 2 * (W * h) < 2 * (H * w) + W
    BY <2>3, Cancel DEF Positive
  <2> QED
    BY <1>2, <2>4, PixelsAtLeast DEF Positive
<1>8. g <= w
  BY <1>1, <1>2, PixelsAtMost DEF Positive
<1>9. w - c <= g
  <2>1. P < (c + 1) * R
    <3>1. P * (H * w) <= P * (W * h) /\ W * (P * h) < W * (R * w)
      BY <1>1, TimesAtMost, TimesLess DEF Positive
    <3>2. P * (H * w) = w * (H * P) /\ P * (W * h) = W * (P * h) /\ W * (R * w) = w * (W * R)
      BY <1>1 DEF Positive
    <3>3. w * (H * P) < w * (W * R)
      BY <1>1, <3>1, <3>2 DEF Positive
    <3>4. H * P < W * R
      BY <1>1, <3>3, Cancel DEF Positive
    <3>5. R * W <= R * ((c + 1) * H)
      BY <1>1, TimesAtMost DEF Twice, Positive
    <3>6. R * W = W * R /\ R * ((c + 1) * H) = H * ((c + 1) * R)
      BY <1>1 DEF Positive
    <3>7. H * P < H * ((c + 1) * R)
      BY <1>1, <3>4, <3>5, <3>6 DEF Positive
    <3> QED
      BY <1>1, <3>7, Cancel DEF Positive
  <2>2. P * (2 * (H * w)) <= P * (2 * (W * h))
    BY TimesAtMost DEF Positive
  <2>3. W * (2 * (R * w)) <= W * (2 * (P * h) + w)
    <3>1. P * (2 * (W * h)) = W * (2 * (P * h)) /\ W * (2 * (P * h) + w) = W * (2 * (P * h)) + W * w
      BY DEF Positive
    <3> QED
      BY <1>1, <1>4, <1>5, <2>2, <3>1 DEF Positive
  <2>4. 2 * (R * w) <= 2 * (P * h) + w
    <3> SUFFICES ASSUME 2 * (P * h) + w < 2 * (R * w) PROVE FALSE
      BY <1>1 DEF Positive
    <3> QED
      BY <1>1, <2>3, TimesLess DEF Positive
  <2>5. /\ (c + 1) * R = R * c + R /\ R * (w - c) = R * w - R * c
        /\ R * c \in Nat /\ R <= R * c
    <3>1. R * 1 <= R * c
      BY <1>1, TimesAtMost DEF Positive
    <3> QED
      BY <1>1, <3>1 DEF Positive
  <2>6. 2 * (R * (w - c)) <= 2 * (P * h) + R
    BY <1>1, <2>1, <2>4, <2>5 DEF Positive
  <2>7. w - c \in Int
    BY DEF Positive
  <2> QED
    BY <1>1, <1>2, <2>6, <2>7, PixelsAtLeast
<1>10. g \in Positive /\ e \in Positive
  BY <1>1, <1>2, PixelsAreNearest
<1> HIDE DEF g, e
<1>11. e = h
  BY <1>6, <1>7, <1>10 DEF Positive
<1>12. Near(g, w, c)
  BY <1>8, <1>9, <1>10 DEF Near, Positive
<1> QED
  BY <1>11, <1>12 DEF g, e

\* The height binds both times: the rounded height is in the quotient's divisor, and
\* the longer the image the more it matters.
LEMMA HeightTwice ==
  ASSUME NEW W, NEW H, NEW P, NEW R, NEW w, NEW h, NEW c, Twice(W, H, P, R, w, h, c),
         P * h < R * w
  PROVE  Near(Pixels(P * h, R), Pixels(W * h, H), c)
<1> DEFINE g == Pixels(P * h, R)
           f == Pixels(W * h, H)
<1> /\ W \in Positive /\ H \in Positive /\ P \in Positive /\ h \in Positive /\ c \in Positive
  BY DEF Twice, Positive
<1>1. R \in Positive /\ 2 * (H * P) < 2 * (W * R) + W /\ 2 * (W * R) <= 2 * (H * P) + W /\ h < R
  BY RenderedHeight, HeightIsLess
<1>2. P * h \in Nat /\ W * h \in Nat
  BY DEF Positive
<1>3. g \in Positive /\ 2 * (P * h) < 2 * (R * g) + R
  BY <1>1, <1>2, PixelsAreNearest
<1>4. f \in Positive /\ 2 * (W * h) < 2 * (H * f) + H
  BY <1>2, PixelsAreNearest
<1> HIDE DEF g, f
<1>5. W * h < (R * H) * (c + 1)
  <2>1. h * W <= h * ((c + 1) * H)
    BY TimesAtMost DEF Twice, Positive
  <2>2. (c + 1) * H \in Positive
    <3>1. (c + 1) * H = c * H + H /\ c * H \in Nat
      BY DEF Positive
    <3> QED
      BY <3>1 DEF Positive
  <2>3. ((c + 1) * H) * h < ((c + 1) * H) * R
    BY <1>1, <2>2, TimesLess DEF Positive
  <2>4. h * W = W * h /\ ((c + 1) * H) * h = h * ((c + 1) * H) /\ ((c + 1) * H) * R = (R * H) * (c + 1)
    BY <1>1 DEF Positive
  <2> QED
    BY <1>1, <2>1, <2>3, <2>4 DEF Positive
<1>6. g <= f + c
  <2>1. h * (2 * (H * P)) < h * (2 * (W * R) + W) /\ R * (2 * (W * h)) < R * (2 * (H * f) + H)
    BY <1>1, <1>4, TimesLess DEF Positive
  <2>2. /\ h * (2 * (H * P)) = H * (2 * (P * h))
        /\ h * (2 * (W * R) + W) = R * (2 * (W * h)) + W * h
        /\ R * (2 * (H * f) + H) + (R * H) * (c + 1) = H * (2 * (R * f) + R * c + 2 * R)
    BY <1>1, <1>4 DEF Positive
  <2>3. H * (2 * (P * h)) < H * (2 * (R * f) + R * c + 2 * R)
    BY <1>1, <1>4, <1>5, <2>1, <2>2 DEF Positive
  <2>4. 2 * (P * h) < 2 * (R * f) + R * c + 2 * R
    BY <1>1, <1>4, <2>3, Cancel DEF Positive
  <2>5. R * (f + c) = R * f + R * c /\ R * c \in Nat /\ R <= R * c
    <3>1. R * 1 <= R * c
      BY <1>1, TimesAtMost DEF Positive
    <3> QED
      BY <1>1, <1>4, <3>1 DEF Positive
  <2>6. 2 * (P * h) < 2 * (R * (f + c)) + R
    BY <1>1, <1>4, <2>4, <2>5 DEF Positive
  <2>7. f + c \in Positive
    BY <1>4 DEF Positive
  <2> QED
    BY <1>1, <1>2, <2>6, <2>7, PixelsAtMost DEF g
<1>7. f <= g + c
  <2>1. h * (2 * (W * R)) <= h * (2 * (H * P) + W) /\ H * (2 * (P * h)) < H * (2 * (R * g) + R)
    BY <1>1, <1>3, TimesAtMost, TimesLess DEF Positive
  <2>2. /\ h * (2 * (W * R)) = R * (2 * (W * h))
        /\ h * (2 * (H * P) + W) = H * (2 * (P * h)) + W * h
        /\ H * (2 * (R * g) + R) + (R * H) * (c + 1) = R * (2 * (H * g) + H * c + 2 * H)
    BY <1>1, <1>3 DEF Positive
  <2>3. R * (2 * (W * h)) < R * (2 * (H * g) + H * c + 2 * H)
    BY <1>1, <1>3, <1>5, <2>1, <2>2 DEF Positive
  <2>4. 2 * (W * h) < 2 * (H * g) + H * c + 2 * H
    BY <1>1, <1>3, <2>3, Cancel DEF Positive
  <2>5. H * (g + c) = H * g + H * c /\ H * c \in Nat /\ H <= H * c
    <3>1. H * 1 <= H * c
      BY TimesAtMost DEF Positive
    <3> QED
      BY <1>3, <3>1 DEF Positive
  <2>6. 2 * (W * h) < 2 * (H * (g + c)) + H
    BY <1>3, <2>4, <2>5 DEF Positive
  <2>7. g + c \in Positive
    BY <1>3 DEF Positive
  <2> QED
    BY <1>2, <2>6, <2>7, PixelsAtMost DEF f
<1>8. Near(g, f, c)
  BY <1>3, <1>4, <1>6, <1>7 DEF Near, Positive
<1> QED
  BY <1>8 DEF g, f

LEMMA PixelsOfMultiple ==
  ASSUME NEW n \in Positive, NEW b \in Positive
  PROVE  Pixels(b * n, b) = n /\ Pixels(n * b, b) = n
<1>1. b * n \in Nat /\ n * b = b * n
  BY DEF Positive
<1>2. Pixels(b * n, b) <= n /\ n <= Pixels(b * n, b)
  BY <1>1, PixelsAtMost, PixelsAtLeast DEF Positive
<1>3. Pixels(b * n, b) \in Positive
  BY <1>1, PixelsAreNearest
<1> QED
  BY <1>1, <1>2, <1>3 DEF Positive

----------------------------------------------------------------------------
(* An image made of a rendering.                                           *)

\* A request that gives both dimensions, or a preset.
Given(r) == r.width \in Positive /\ r.height \in Positive

Smaller(p, s) == p.width < s.width /\ p.height < s.height

NearSize(a, b, c) == Near(a.width, b.width, c) /\ Near(a.height, b.height, c)

LEMMA ContainByWidth ==
  ASSUME NEW s \in Size, NEW r, Given(r), r.width < s.width,
         s.height * r.width <= s.width * r.height
  PROVE  Contain(s, r) = [width |-> r.width, height |-> Pixels(s.height * r.width, s.width)]
<1>1. WidthBinds(s, r)
  BY DEF WidthBinds, Given, Size, Absent, Positive
<1> QED
  BY <1>1 DEF Contain, ByWidth, Given, Size, Positive

LEMMA ContainByHeight ==
  ASSUME NEW s \in Size, NEW r, Given(r), r.height < s.height,
         s.width * r.height < s.height * r.width
  PROVE  Contain(s, r) = [width |-> Pixels(s.width * r.height, s.height), height |-> r.height]
<1>1. ~ WidthBinds(s, r)
  BY DEF WidthBinds, Given, Size, Absent, Positive
<1> QED
  BY <1>1 DEF Contain, ByHeight, Given, Size, Positive

\* Where the width bound the rendering.
LEMMA OfRenderedByWidth ==
  ASSUME NEW s \in Size, NEW p, Given(p), Smaller(p, s), NEW c \in Positive,
         s.width <= (c + 1) * s.height,
         NEW r, Given(r), r.width <= p.width, r.height <= p.height,
         s.height * p.width <= s.width * p.height
  PROVE  NearSize(Contain(Contain(s, p), r), Contain(s, r), c)
<1> DEFINE W == s.width
           H == s.height
           P == p.width
           w == r.width
           h == r.height
           R == Pixels(H * P, W)
           t == Contain(s, p)
<1>1. W \in Positive /\ H \in Positive /\ P \in Positive /\ w \in Positive /\ h \in Positive
  BY DEF Size, Given, Positive
<1>2. t = [width |-> P, height |-> R]
  BY ContainByWidth DEF Smaller
<1>3. Twice(W, H, P, R, w, h, c)
  BY <1>1 DEF Twice, Positive
<1>4. R \in Positive
  BY <1>3, RenderedHeight
<1>5. w < W /\ h < H
  BY <1>1, p.height \in Positive DEF Smaller, Given, Size, Positive
<1>6. t \in Size
  BY <1>1, <1>2, <1>4 DEF Size, Positive
<1>7. H * w <= W * h => Contain(s, r) = [width |-> w, height |-> Pixels(H * w, W)]
  BY <1>5, ContainByWidth
<1>8. W * h < H * w => Contain(s, r) = [width |-> Pixels(W * h, H), height |-> h]
  BY <1>5, ContainByHeight
<1>9. R * w <= P * h => Contain(t, r) = [width |-> w, height |-> Pixels(R * w, P)]
  <2> SUFFICES ASSUME R * w <= P * h
               PROVE  Contain(t, r) = [width |-> w, height |-> Pixels(R * w, P)]
    OBVIOUS
  <2>1. CASE w < P
    BY <1>2, <1>6, <2>1, ContainByWidth
  <2>2. CASE w = P
    <3>1. WidthBinds(t, r)
      BY <1>1, <1>2, <1>4 DEF WidthBinds, Absent, Positive
    <3>2. Contain(t, r) = t
      BY <1>1, <1>2, <2>2, <3>1 DEF Contain, ByWidth, Positive
    <3> QED
      BY <1>1, <1>2, <1>4, <2>2, <3>2, PixelsOfMultiple
  <2>3. w <= P
    OBVIOUS
  <2> QED
    BY <1>1, <2>1, <2>2, <2>3 DEF Positive
<1>10. P * h < R * w => Contain(t, r) = [width |-> Pixels(P * h, R), height |-> h]
  <2> SUFFICES ASSUME P * h < R * w
               PROVE  Contain(t, r) = [width |-> Pixels(P * h, R), height |-> h]
    OBVIOUS
  <2>1. h < R
    BY <1>3, HeightIsLess
  <2> QED
    BY <1>2, <1>6, <2>1, ContainByHeight
<1>11. /\ P * h \in Nat /\ R * w \in Nat /\ W * h \in Nat /\ H * w \in Nat
  BY <1>1, <1>4 DEF Positive
<1> HIDE DEF W, H, P, R, w, h, t
<1>12. \A n \in Positive : Near(n, n, c)
  BY DEF Near, Positive
<1>13. CASE R * w <= P * h /\ H * w <= W * h
  <2>1. Near(Pixels(R * w, P), Pixels(H * w, W), 1)
    BY <1>3, WidthTwice
  <2>2. Pixels(R * w, P) \in Positive /\ Pixels(H * w, W) \in Positive
    BY <1>1, <1>11, PixelsAreNearest
  <2>3. Near(Pixels(R * w, P), Pixels(H * w, W), c)
    BY <2>1, <2>2 DEF Near, Positive
  <2> QED
    BY <1>1, <1>7, <1>9, <1>12, <1>13, <2>3 DEF NearSize, t
<1>14. CASE R * w <= P * h /\ W * h < H * w
  <2>1. Near(w, Pixels(W * h, H), c) /\ Pixels(R * w, P) = h
    BY <1>3, <1>14, WidthThenHeight
  <2> QED
    BY <1>1, <1>8, <1>9, <1>12, <1>14, <2>1 DEF NearSize, t
<1>15. CASE P * h < R * w /\ H * w <= W * h
  <2>1. Near(Pixels(P * h, R), w, c) /\ Pixels(H * w, W) = h
    BY <1>3, <1>15, HeightThenWidth
  <2> QED
    BY <1>1, <1>7, <1>10, <1>12, <1>15, <2>1 DEF NearSize, t
<1>16. CASE P * h < R * w /\ W * h < H * w
  <2>1. Near(Pixels(P * h, R), Pixels(W * h, H), c)
    BY <1>3, <1>16, HeightTwice
  <2> QED
    BY <1>1, <1>8, <1>10, <1>12, <1>16, <2>1 DEF NearSize, t
<1> QED
  BY <1>11, <1>13, <1>14, <1>15, <1>16

\* An image turned on its side.
Turned(s) == [width |-> s.height, height |-> s.width]

\* To contain is the same for an image on its side.
LEMMA ContainTurned ==
  ASSUME NEW s \in Size, NEW r, Given(r)
  PROVE  Contain(Turned(s), Turned(r)) = Turned(Contain(s, r))
<1> DEFINE W == s.width
           H == s.height
           w == r.width
           h == r.height
<1>1. W \in Positive /\ H \in Positive /\ w \in Positive /\ h \in Positive
  BY DEF Size, Given, Positive
<1>2. W * h \in Nat /\ H * w \in Nat
  BY <1>1 DEF Positive
<1>3. WidthBinds(s, r) <=> H * w <= W * h
  BY <1>1, <1>2 DEF WidthBinds, Absent, Positive
<1>4. WidthBinds(Turned(s), Turned(r)) <=> W * h <= H * w
  BY <1>1, <1>2 DEF WidthBinds, Turned, Absent, Positive
<1>5. Contain(s, r) = IF H * w <= W * h THEN ByWidth(s, w) ELSE ByHeight(s, h)
  BY <1>3 DEF Contain
<1>6. Contain(Turned(s), Turned(r)) =
        IF W * h <= H * w THEN ByWidth(Turned(s), h) ELSE ByHeight(Turned(s), w)
  BY <1>4 DEF Contain, Turned
<1>7. /\ ByWidth(Turned(s), h) = Turned(ByHeight(s, h))
      /\ ByHeight(Turned(s), w) = Turned(ByWidth(s, w))
  BY DEF ByWidth, ByHeight, Turned
<1>8. CASE W * h # H * w
  BY <1>2, <1>5, <1>6, <1>7, <1>8
<1>9. CASE W * h = H * w
  <2>1. ByHeight(s, h) = ByWidth(s, w)
    <3>1. Pixels(W * h, H) = w /\ Pixels(H * w, W) = h
      BY <1>1, <1>9, PixelsOfMultiple
    <3>2. h >= H <=> w >= W
      <4>1. ASSUME h >= H, w < W PROVE FALSE
        <5>1. W * H <= W * h /\ H * w < H * W
          BY <1>1, <4>1, TimesAtMost, TimesLess DEF Positive
        <5>2. W * H = H * W
          BY <1>1 DEF Positive
        <5> QED
          BY <1>1, <1>2, <1>9, <5>1, <5>2 DEF Positive
      <4>2. ASSUME w >= W, h < H PROVE FALSE
        <5>1. H * W <= H * w /\ W * h < W * H
          BY <1>1, <4>2, TimesAtMost, TimesLess DEF Positive
        <5>2. W * H = H * W
          BY <1>1 DEF Positive
        <5> QED
          BY <1>1, <1>2, <1>9, <5>1, <5>2 DEF Positive
      <4> QED
        BY <1>1, <4>1, <4>2 DEF Positive
    <3>3. CASE h >= H
      BY <3>2, <3>3 DEF ByWidth, ByHeight
    <3>4. CASE ~ (h >= H)
      BY <3>1, <3>2, <3>4 DEF ByWidth, ByHeight
    <3> QED
      BY <3>3, <3>4
  <2> QED
    BY <1>2, <1>5, <1>6, <1>7, <1>9, <2>1
<1> QED
  BY <1>8, <1>9

LEMMA ContainIsSizeGiven ==
  ASSUME NEW s \in Size, NEW r, Given(r)
  PROVE  Contain(s, r) \in Size
<1>1. r.width \in Nat /\ r.height \in Nat /\ Resizes(r)
  BY DEF Given, Resizes, Absent, Positive
<1> QED
  BY <1>1, ContainIsSize

\* How far rounding twice may be off.
LEMMA OfRendered ==
  ASSUME NEW s \in Size, NEW p, Given(p), Smaller(p, s), NEW c \in Positive,
         s.width <= (c + 1) * s.height, s.height <= (c + 1) * s.width,
         NEW r, Given(r), r.width <= p.width, r.height <= p.height
  PROVE  NearSize(Contain(Contain(s, p), r), Contain(s, r), c)
<1>1. CASE s.height * p.width <= s.width * p.height
  BY <1>1, OfRenderedByWidth
<1>2. CASE s.width * p.height <= s.height * p.width
  <2> DEFINE ts == Turned(s)
             tp == Turned(p)
             tr == Turned(r)
  <2>1. ts \in Size /\ Given(tp) /\ Given(tr) /\ Smaller(tp, ts)
    BY DEF Turned, Size, Given, Smaller
  <2>2. /\ ts.width <= (c + 1) * ts.height
        /\ tr.width <= tp.width /\ tr.height <= tp.height
        /\ ts.height * tp.width <= ts.width * tp.height
    BY <1>2 DEF Turned
  <2> HIDE DEF ts, tp, tr
  <2>3. NearSize(Contain(Contain(ts, tp), tr), Contain(ts, tr), c)
    BY <2>1, <2>2, OfRenderedByWidth
  <2>4. Contain(s, p) \in Size
    BY ContainIsSizeGiven
  <2>5. /\ Contain(ts, tp) = Turned(Contain(s, p))
        /\ Contain(ts, tr) = Turned(Contain(s, r))
        /\ Contain(Turned(Contain(s, p)), tr) = Turned(Contain(Contain(s, p), r))
    BY <2>4, ContainTurned DEF ts, tp, tr
  <2>6. NearSize(Turned(Contain(Contain(s, p), r)), Turned(Contain(s, r)), c)
    BY <2>3, <2>5
  <2> QED
    BY <2>6 DEF NearSize, Turned
<1>3. s.height * p.width \in Nat /\ s.width * p.height \in Nat
  BY DEF Size, Given, Positive
<1> QED
  BY <1>1, <1>2, <1>3

----------------------------------------------------------------------------
(* The choice of a source.                                                 *)

\* What a set of numbers has, its least has.
LEMMA MinIsIn ==
  ASSUME NEW S, S \subseteq Nat, S # {}
  PROVE  Min(S) \in S
<1> DEFINE R == OpToRel(<, Nat)
<1>1. IsWellFoundedOn(R, Nat)
  BY NatLessThanWellFounded
<1>2. \A x, y \in Nat : <<x, y>> \in R <=> x < y
  BY DEF OpToRel
<1> HIDE DEF R
<1>3. PICK m \in S : \A y \in S : ~ (<<y, m>> \in R)
  BY <1>1, WFMin
<1>4. \A y \in S : m <= y
  <2>1. m \in Nat /\ \A y \in S : y \in Nat /\ ~ (y < m)
    BY <1>2, <1>3
  <2> QED
    BY <2>1
<1> QED
  BY <1>3, <1>4 DEF Min

\* Presets are rendered of larger images, and of none that is very long.
LEMMA ApplicablePreset ==
  ASSUME NEW s \in Size, NEW p \in ApplicablePresets(s)
  PROVE  /\ p \in Preset /\ Smaller(p, s)
         /\ s.width <= 3 * s.height /\ s.height <= 3 * s.width
<1> DEFINE matching == {i \in DOMAIN Categories : InCategory(Categories[i], s)}
<1>1. matching \subseteq Nat
  BY RenditionsAssumption
<1>2. matching # {} /\ p \in Categories[Min(matching)].presets /\ Smaller(p, s)
  BY DEF ApplicablePresets, Smaller
<1>3. PICK i \in matching : i = Min(matching)
  BY <1>1, <1>2, MinIsIn
<1>4. p \in Preset
  BY <1>2, <1>3 DEF Preset
<1> DEFINE num == Categories[i].num
           den == Categories[i].den
           tol == Categories[i].tolerance
           W   == s.width
           H   == s.height
<1>5. Categories[i] \in Category
  BY RenditionsAssumption
<1>6. num \in Positive /\ den \in Positive /\ tol \in Nat /\ W \in Positive /\ H \in Positive
  BY <1>5 DEF Category, Size, Positive
<1>7. (100 + tol) * num <= 300 * den /\ 100 * den <= 3 * ((100 - tol) * num)
  BY RenditionsAssumption
<1>8. 100 * (den * W - num * H) \in (-(tol * num * H)) .. tol * num * H
  BY <1>3 DEF InCategory
<1> HIDE DEF num, den, tol, W, H
<1>9. W <= 3 * H
  <2>1. H * ((100 + tol) * num) <= H * (300 * den)
    BY <1>6, <1>7, TimesAtMost DEF Positive
  <2>2. /\ H * ((100 + tol) * num) = 100 * (num * H) + tol * num * H
        /\ H * (300 * den) = 100 * (den * (3 * H))
    BY <1>6 DEF Positive
  <2>3. ASSUME 3 * H < W PROVE FALSE
    <3>1. den * (3 * H) < den * W
      BY <1>6, <2>3, TimesLess DEF Positive
    <3> QED
      BY <1>6, <1>8, <2>1, <2>2, <3>1 DEF Positive
  <2> QED
    BY <1>6, <2>3 DEF Positive
<1>10. H <= 3 * W
  <2>1. H * (100 * den) <= H * (3 * ((100 - tol) * num))
    BY <1>6, <1>7, TimesAtMost DEF Positive
  <2>2. /\ H * (100 * den) = 100 * (den * H)
        /\ H * (3 * ((100 - tol) * num)) = 3 * (100 * (num * H) - tol * num * H)
    BY <1>6 DEF Positive
  <2>3. ASSUME 3 * W < H PROVE FALSE
    <3>1. den * (3 * W) < den * H /\ den * (3 * W) = 3 * (den * W)
      BY <1>6, <2>3, TimesLess DEF Positive
    <3> QED
      BY <1>6, <1>8, <2>1, <2>2, <3>1 DEF Positive
  <2> QED
    BY <1>6, <2>3 DEF Positive
<1> QED
  BY <1>2, <1>4, <1>9, <1>10 DEF W, H

\* What is recorded or stored of the wallpaper are presets that apply to it, and a
\* variant was chosen because both dimensions of the request are within it.
Chosen ==
  /\ rows \subseteq ApplicablePresets(original)
  /\ files \ {Original} \subseteq ApplicablePresets(original)
  /\ source # Original => source \in rows /\ LargeEnough(source, request)

\* What is sent of a source that was chosen is what would be sent of the original.
LEMMA SentAsFromOriginal ==
  ASSUME TypeOK, Chosen, request.fit # "cover"
  PROVE  NearSize(Resized(SizeOf(source), request), Resized(original, request),
                  IF Elongated(original) THEN 2 ELSE 1)
<1> DEFINE c == IF Elongated(original) THEN 2 ELSE 1
           s == original
           p == source
           r == request
           P == [width |-> p.width, height |-> p.height]
<1>1. s \in Size /\ r \in Request /\ r.width \in Nat /\ r.height \in Nat /\ r.fit \in Fit
  BY ServingAssumption DEF TypeOK, Request
<1>2. \A a \in Size : NearSize(a, a, c)
  BY DEF NearSize, Near, Size
<1>3. CASE p = Original
  <2>1. Resized(s, r) \in Size
    BY <1>1, ResizedIsSize
  <2> QED
    BY <1>2, <1>3, <2>1 DEF SizeOf
<1>4. CASE p # Original
  <2>1. p \in ApplicablePresets(s) /\ LargeEnough(p, r)
    BY <1>4 DEF Chosen
  <2>2. p \in Size /\ Smaller(p, s) /\ s.width <= 3 * s.height /\ s.height <= 3 * s.width
    BY <1>1, <2>1, ApplicablePreset, PresetIsSize
  <2>3. r.width # Absent /\ r.width <= p.width /\ r.height # Absent /\ r.height <= p.height
    BY <1>1, <2>1, <2>2 DEF LargeEnough, Wanted, Smaller, Size
  <2>4. Resizes(r) /\ Given(r) /\ Given(P)
    BY <1>1, <2>2, <2>3 DEF Resizes, Given, Absent, Size, Positive
  <2>5. SizeOf(p) = Contain(s, P)
    BY <1>4 DEF SizeOf, Rendered
  <2>6. CASE r.fit = "contain"
    <3>1. c \in Positive /\ s.width <= (c + 1) * s.height /\ s.height <= (c + 1) * s.width
      BY <1>1, <2>2 DEF Elongated, Size, Positive
    <3>2. Smaller(P, s) /\ r.width <= P.width /\ r.height <= P.height
      BY <2>2, <2>3 DEF Smaller
    <3> HIDE DEF c, P
    <3>3. NearSize(Contain(Contain(s, P), r), Contain(s, r), c)
      BY <1>1, <2>4, <3>1, <3>2, OfRendered
    <3>4. \A a : Resized(a, r) = Contain(a, r)
      BY <2>4, <2>6 DEF Resized
    <3> QED
      BY <2>5, <3>3, <3>4 DEF c
  <2>7. CASE r.fit = "fill"
    <3>1. Resized(SizeOf(p), r) = Fill(SizeOf(p), r) /\ Resized(s, r) = Fill(s, r)
      BY <2>4, <2>7 DEF Resized
    <3>2. \A a : Fill(a, r) = [width |-> r.width, height |-> r.height]
      BY <2>3 DEF Fill
    <3>3. [width |-> r.width, height |-> r.height] \in Size
      BY <2>4 DEF Given, Size, Positive
    <3> QED
      BY <1>2, <3>1, <3>2, <3>3
  <2> QED
    BY <1>1, <2>6, <2>7 DEF Fit
<1> QED
  BY <1>3, <1>4

SourceInv == TypeOK /\ Chosen /\ SameAsFromOriginal

LEMMA SourceInit == Init => SourceInv
<1> SUFFICES ASSUME Init PROVE SourceInv
  OBVIOUS
<1> QED
  BY TypeInit DEF Init, SourceInv, Chosen, SameAsFromOriginal, NoAnswer

LEMMA ChosenStep == TypeOK /\ Chosen /\ [Next]_vars => Chosen'
<1> SUFFICES ASSUME TypeOK, Chosen, [Next]_vars PROVE Chosen'
  OBVIOUS
<1> USE ServingAssumption DEF Chosen, storeVars
<1>1. original' = original /\ request' = request
  BY DEF Next, StoreStep, RequestStep, LearnWallpaper, StoreVariant, RecordVariant, LoseFile,
         Validate, FindWallpaper, SelectSource, GetSource, GetFails, vars
<1>2. /\ ApplicablePresets(original)' = ApplicablePresets(original)
      /\ \A p : LargeEnough(p, request)' = LargeEnough(p, request)
  BY <1>1 DEF ApplicablePresets, LargeEnough, Wanted
<1>3. CASE LearnWallpaper
  BY <1>1, <1>2, <1>3 DEF LearnWallpaper
<1>4. ASSUME NEW p \in Preset, StoreVariant(p) PROVE Chosen'
  BY <1>1, <1>2, <1>4 DEF StoreVariant
<1>5. ASSUME NEW p \in Preset, RecordVariant(p) PROVE Chosen'
  BY <1>1, <1>2, <1>5 DEF RecordVariant
<1>6. ASSUME NEW f \in File, LoseFile(f) PROVE Chosen'
  BY <1>1, <1>2, <1>6 DEF LoseFile
<1>7. CASE Validate \/ FindWallpaper \/ GetSource
  BY <1>1, <1>2, <1>7 DEF Validate, FindWallpaper, GetSource
<1>8. CASE SelectSource
  BY <1>1, <1>2, <1>8 DEF SelectSource, SmallestSuitable
<1>9. CASE GetFails
  BY <1>1, <1>2, <1>9 DEF GetFails, Fallback
<1>10. CASE UNCHANGED vars
  BY <1>1, <1>2, <1>10 DEF vars
<1> QED
  BY <1>3, <1>4, <1>5, <1>6, <1>7, <1>8, <1>9, <1>10 DEF Next, StoreStep, RequestStep

LEMMA SourceStep == SourceInv /\ [Next]_vars => SourceInv'
<1> SUFFICES ASSUME SourceInv, [Next]_vars PROVE SameAsFromOriginal'
  BY TypeStep, ChosenStep DEF SourceInv
<1> TypeOK /\ Chosen /\ SameAsFromOriginal
  BY DEF SourceInv
<1> USE DEF storeVars
<1>1. original' = original /\ request' = request
  BY DEF Next, StoreStep, RequestStep, LearnWallpaper, StoreVariant, RecordVariant, LoseFile,
         Validate, FindWallpaper, SelectSource, GetSource, GetFails, vars
<1>2. CASE GetSource
  <2>1. answer'.size = Resized(SizeOf(source), request)
    BY <1>2 DEF GetSource, Respond, Sent
  <2>2. request'.fit # "cover" =>
          NearSize(answer'.size, Resized(original, request), IF Elongated(original) THEN 2 ELSE 1)
    BY <1>1, <2>1, SentAsFromOriginal
  <2> QED
    BY <1>1, <2>2 DEF SameAsFromOriginal, NearSize
<1>3. CASE ~ GetSource
  <2>1. answer' = answer \/ answer'.status # "sent"
    BY <1>3 DEF Next, StoreStep, RequestStep, LearnWallpaper, StoreVariant, RecordVariant, LoseFile,
                Validate, FindWallpaper, SelectSource, GetFails, Fallback, Respond, vars
  <2> QED
    BY <1>1, <2>1 DEF SameAsFromOriginal
<1> QED
  BY <1>2, <1>3

\* Whatever variants exist, an image that is contained or stretched has the size the
\* original would have given, to a pixel, or two where the image is long (VariantSelectorService).
THEOREM SourceIsInvisible == Spec => []SameAsFromOriginal
<1>1. SourceInv => SameAsFromOriginal
  BY DEF SourceInv
<1> QED
  BY <1>1, SourceInit, SourceStep, PTL DEF Spec

=============================================================================
