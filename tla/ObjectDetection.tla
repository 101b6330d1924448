--------------------------- MODULE ObjectDetection ---------------------------
(***************************************************************************)
(* models/serving/vision/object_detection: the letterbox of the            *)
(* preprocessor, and the confidence filter, class-aware suppression and    *)
(* scale recovery of the postprocessor, for one image.  The model between  *)
(* them is external.  argsort is not stable: among equal scores any order  *)
(* may come out.                                                           *)
(***************************************************************************)
EXTENDS Integers, FiniteSets

CONSTANTS
    Images,             \* <<input_height, input_width>> of the images
    OutputHeight, OutputWidth,
    Rows,               \* what the model may detect: [box, class, score]
    ConfidenceThreshold,
    NmsThreshold,       \* <<p, q>>, the fraction p / q
    MaxDetections,
    MaxRows             \* bound: rows of an image

ASSUME DetectionAssumption ==
    /\ Images \subseteq (Nat \ {0}) \X (Nat \ {0})
    /\ OutputHeight \in Nat \ {0} /\ OutputWidth \in Nat \ {0}
    /\ Rows \subseteq [box : [x1 : Int, y1 : Int, x2 : Int, y2 : Int], class : Int, score : Int]
    /\ NmsThreshold \in Nat \X (Nat \ {0}) /\ ConfidenceThreshold \in Int

Larger(a, b) == IF a > b THEN a ELSE b
Smaller(a, b) == IF a < b THEN a ELSE b

----------------------------------------------------------------------------
(* letterbox_batch                                                          *)

\* Fault: the larger ratio is taken, and the clamps hide it.
Scale_Larger(height, width) ==
    IF OutputHeight * width >= OutputWidth * height
    THEN <<OutputHeight, height>> ELSE <<OutputWidth, width>>

\* min(output_height / input_height, output_width / input_width), a fraction.
Scale(height, width) ==
    IF OutputHeight * width <= OutputWidth * height
    THEN <<OutputHeight, height>> ELSE <<OutputWidth, width>>

\* round(n / d), to even from the middle.
Round(n, d) ==
    LET floor == n \div d
        twice == 2 * (n % d)
    IN  IF twice > d \/ (twice = d /\ floor % 2 = 1) THEN floor + 1 ELSE floor

Resized(side, limit, scale) == Larger(1, Smaller(limit, Round(side * scale[1], scale[2])))

\* The metadata of IMAGE_METADATA and the size of the image in the letterbox.
Letterbox(height, width) ==
    LET scale == Scale(height, width)
        resized_height == Resized(height, OutputHeight, scale)
        resized_width == Resized(width, OutputWidth, scale)
    IN  [scale |-> scale, height |-> height, width |-> width,
         resized_height |-> resized_height, resized_width |-> resized_width,
         pad_y |-> (OutputHeight - resized_height) \div 2,
         pad_x |-> (OutputWidth - resized_width) \div 2]

\* _bilinear_resize samples the sides at evenly spaced points, ends included:
\* where pixel u of a side lies in the resized image, a fraction.
Sampled(u, side, resized) == IF side = 1 THEN <<0, 1>> ELSE <<u * (resized - 1), side - 1>>

\* (x - pad) / scale, clipped to 0..side, for x = n / d: a fraction.  The test of
\* the metadata before it never fails on what the preprocessor gives.
Recover(n, d, pad, scale, side) ==
    LET m == (n - pad * d) * scale[2]
        e == d * scale[1]
    IN  <<Larger(0, Smaller(m, side * e)), e>>

----------------------------------------------------------------------------
(* _nms and postprocess_batch                                               *)

Span(low, high) == Larger(0, high - low)
Area(b) == Span(b.x1, b.x2) * Span(b.y1, b.y2)
Intersection(a, b) ==
    Span(Larger(a.x1, b.x1), Smaller(a.x2, b.x2)) * Span(Larger(a.y1, b.y1), Smaller(a.y2, b.y2))
Union(a, b) == Area(a) + Area(b) - Intersection(a, b)

\* iou > threshold; without an area the iou is 0.
Overlaps(a, b) ==
    /\ Union(a, b) > 0
    /\ Intersection(a, b) * NmsThreshold[2] > NmsThreshold[1] * Union(a, b)

VARIABLES
    phase,
    metadata,  \* what the preprocessor gives to the postprocessor
    rows,      \* the rows of DETECTIONS
    classes,   \* np.unique(class_ids) still to do
    order,     \* the candidates of this class that are left
    selected,  \* kept by _nms
    output,    \* kept after [:max_detections]
    boxes      \* BBOXES: the boxes of output, recovered

detectionVars == <<phase, metadata, rows, classes, order, selected, output, boxes>>

\* The confidence filter.  Rows are integers: isfinite is left out.
Valid(r) == r.score >= ConfidenceThreshold
Candidates == {r \in rows : Valid(r)}
Highest(r, S) == r \in S /\ \A s \in S : s.score <= r.score

DetectionInit ==
    /\ phase = "letterbox" /\ metadata \in {Letterbox(i[1], i[2]) : i \in Images}
    /\ rows = {} /\ classes = {} /\ order = {} /\ selected = {} /\ output = {}
    /\ boxes = <<>>

\* YOLOX, and the confidence filter.
Detect ==
    /\ phase = "letterbox" /\ phase' = "class"
    /\ rows' \in SUBSET Rows /\ Cardinality(rows') <= MaxRows
    /\ classes' = {r.class : r \in {s \in rows' : Valid(s)}}
    /\ UNCHANGED <<metadata, order, selected, output, boxes>>

\* for class_id in np.unique(class_ids)
NextClass ==
    /\ phase = "class"
    /\ IF classes = {} THEN phase' = "truncate" /\ UNCHANGED <<classes, order>>
       ELSE \E c \in classes :
               /\ \A d \in classes : c <= d
               /\ classes' = classes \ {c} /\ order' = {r \in Candidates : r.class = c}
               /\ phase' = "suppress"
    /\ UNCHANGED <<metadata, rows, selected, output, boxes>>

\* Fault: the current box is compared with the next one only.
Suppress_NextOnly ==
    /\ phase = "suppress"
    /\ IF order = {} THEN phase' = "class" /\ UNCHANGED <<order, selected>>
       ELSE \E r \in order :
               /\ Highest(r, order) /\ selected' = selected \cup {r}
               /\ order' = {s \in order \ {r} :
                                ~(Overlaps(r.box, s.box) /\ Highest(s, order \ {r}))}
               /\ UNCHANGED phase
    /\ UNCHANGED <<metadata, rows, classes, output, boxes>>

\* while order.size: the current box is kept, and what overlaps it goes.
Suppress ==
    /\ phase = "suppress"
    /\ IF order = {} THEN phase' = "class" /\ UNCHANGED <<order, selected>>
       ELSE \E r \in order :
               /\ Highest(r, order) /\ selected' = selected \cup {r}
               /\ order' = {s \in order \ {r} : ~Overlaps(r.box, s.box)}
               /\ UNCHANGED phase
    /\ UNCHANGED <<metadata, rows, classes, output, boxes>>

\* Fault: the boxes are cut off in the order in which _nms found them.
Truncate_Unsorted ==
    /\ phase = "truncate"
    /\ IF output = selected \/ Cardinality(output) = MaxDetections
       THEN phase' = "recover" /\ UNCHANGED output
       ELSE \E r \in selected \ output :
               /\ \A s \in selected \ output : r.class <= s.class
               /\ output' = output \cup {r} /\ UNCHANGED phase
    /\ UNCHANGED <<metadata, rows, classes, order, selected, boxes>>

\* selected[np.argsort(filtered_scores[selected])[::-1]][:max_detections]
Truncate ==
    /\ phase = "truncate"
    /\ IF output = selected \/ Cardinality(output) = MaxDetections
       THEN phase' = "recover" /\ UNCHANGED output
       ELSE \E r \in selected \ output :
               /\ Highest(r, selected \ output)
               /\ output' = output \cup {r} /\ UNCHANGED phase
    /\ UNCHANGED <<metadata, rows, classes, order, selected, boxes>>

\* Fault: height and width of the metadata are read the other way round.
RecoveredBox_Swapped(b) ==
    LET m == metadata
        x(at) == Recover(at, 1, m.pad_x, m.scale, m.height)[1]
        y(at) == Recover(at, 1, m.pad_y, m.scale, m.width)[1]
    IN  [x1 |-> x(b.x1), y1 |-> y(b.y1), x2 |-> x(b.x2), y2 |-> y(b.y2)]

\* A box in the image, in parts of scale[1] of a pixel.
RecoveredBox(b) ==
    LET m == metadata
        x(at) == Recover(at, 1, m.pad_x, m.scale, m.width)[1]
        y(at) == Recover(at, 1, m.pad_y, m.scale, m.height)[1]
    IN  [x1 |-> x(b.x1), y1 |-> y(b.y1), x2 |-> x(b.x2), y2 |-> y(b.y2)]

\* The boxes of the result are put back into the image.
RecoverBoxes ==
    /\ phase = "recover" /\ phase' = "done"
    /\ boxes' = [r \in output |-> RecoveredBox(r.box)]
    /\ UNCHANGED <<metadata, rows, classes, order, selected, output>>

DetectionNext == Detect \/ NextClass \/ Suppress \/ Truncate \/ RecoverBoxes

DetectionSpec == DetectionInit /\ [][DetectionNext]_detectionVars

----------------------------------------------------------------------------

\* The box lies in the image, so that nothing of it is clipped.
Uncut(b) ==
    LET m == metadata
        inside(at, pad, side) == (at - pad) * m.scale[2] \in 0..(side * m.scale[1])
    IN  /\ inside(b.x1, m.pad_x, m.width) /\ inside(b.x2, m.pad_x, m.width)
        /\ inside(b.y1, m.pad_y, m.height) /\ inside(b.y2, m.pad_y, m.height)

\* Two boxes of one class in the result do not overlap by more than the
\* threshold, however ties are ordered: not as they were detected, and not as
\* they are returned, unless one of them reached out of the image.  The clip
\* comes after the suppression and may make such boxes overlap more, or
\* coincide (postprocessor/1/model.py:9-36, 61-73).
NoDuplicates ==
    \A r, s \in output : r # s /\ r.class = s.class =>
        /\ ~Overlaps(r.box, s.box)
        /\ phase = "done" /\ Uncut(r.box) /\ Uncut(s.box) => ~Overlaps(boxes[r], boxes[s])

\* A candidate that is not in the result overlaps one of its class that is and
\* has at least its score, or the result is full of detections that are no
\* worse (postprocessor/1/model.py:29-36, 61-62).
NothingMissed ==
    phase = "done" => \A r \in Candidates \ output :
        \/ \E s \in output : s.class = r.class /\ s.score >= r.score /\ Overlaps(s.box, r.box)
        \/ Cardinality(output) = MaxDetections /\ \A s \in output : s.score >= r.score

\* Where a pixel u of a side lies in the letterbox is recovered to within a
\* pixel of the image or of the letterbox, whichever is larger, and half a pixel
\* of the letterbox for the rounding.
Recovered(u, side, resized, pad) ==
    LET scale == metadata.scale
        at == Sampled(u, side, resized)
        x == Recover(at[1] + pad * at[2], at[2], pad, scale, side)
        error == Larger(x[1] - u * x[2], u * x[2] - x[1])  \* of x[2]
    IN  2 * error * scale[1] <= (2 * Larger(scale[1], scale[2]) + scale[2]) * x[2]

\* The image lies in the letterbox, and what the postprocessor makes of its
\* pixels' places is where they were, although the size in the letterbox and the
\* padding are rounded and the scale that it divides by is not
\* (preprocessor/1/model.py:43-57, postprocessor/1/model.py:67-73).
RecoveryInvertsLetterbox ==
    LET m == metadata IN
    /\ m.pad_x + m.resized_width <= OutputWidth /\ m.pad_y + m.resized_height <= OutputHeight
    /\ \A u \in 0..(m.width - 1) : Recovered(u, m.width, m.resized_width, m.pad_x)
    /\ \A v \in 0..(m.height - 1) : Recovered(v, m.height, m.resized_height, m.pad_y)

=============================================================================
