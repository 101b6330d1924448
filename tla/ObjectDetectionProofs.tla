------------------------ MODULE ObjectDetectionProofs ------------------------
(***************************************************************************)
(* The suppression of ObjectDetection for any rows, any threshold and any  *)
(* order of equal scores: what is kept does not overlap, and whatever is   *)
(* dropped is covered by something at least as good.  The letterbox for    *)
(* any images and any output size: its inverse undoes it.                  *)
(***************************************************************************)
EXTENDS ObjectDetection, TLAPS

BoxType == [x1 : Int, y1 : Int, x2 : Int, y2 : Int]
RowType == [box : BoxType, class : Int, score : Int]

TypeOK ==
    /\ phase \in {"letterbox", "class", "suppress", "truncate", "recover", "done"}
    /\ rows \in SUBSET Rows
    /\ order \subseteq Candidates /\ selected \subseteq Candidates /\ output \subseteq selected

\* Where the loops are says what is still to do.
PhaseInv ==
    /\ phase = "letterbox" => selected = {}
    /\ phase \notin {"truncate", "recover", "done"} => output = {}
    /\ phase # "suppress" => order = {}
    /\ phase \in {"truncate", "recover", "done"} => classes = {}
    /\ \A r \in order \cup selected : r.class \notin classes
    /\ \A r, s \in order : r.class = s.class

SameClass(r, s) == r.class = s.class

\* What is kept is apart from what else is kept and from what is left.
ApartInv ==
    /\ \A r, s \in selected : r # s /\ SameClass(r, s) => ~Overlaps(r.box, s.box)
    /\ \A r \in selected, s \in order : SameClass(r, s) => ~Overlaps(r.box, s.box)

Covers(s, r) == SameClass(s, r) /\ s.score >= r.score /\ Overlaps(s.box, r.box)

\* Every candidate is still to come, left, kept, or covered by one that is kept.
CoveredInv ==
    \A r \in Candidates :
        \/ r.class \in classes
        \/ r \in order \cup selected
        \/ \E s \in selected : Covers(s, r)

\* The cut takes the best first.
CutInv ==
    /\ \A r \in selected \ output, s \in output : s.score >= r.score
    /\ phase \in {"recover", "done"} => output = selected \/ Cardinality(output) = MaxDetections

Inv == TypeOK /\ PhaseInv /\ ApartInv /\ CoveredInv /\ CutInv

\* Compared in either direction, two boxes overlap or they do not.
LEMMA OverlapsSymmetric ==
    ASSUME NEW a \in BoxType, NEW b \in BoxType
    PROVE  Overlaps(a, b) <=> Overlaps(b, a)
<1>1. Intersection(a, b) = Intersection(b, a)
  BY DEF BoxType, Intersection, Span, Larger, Smaller
<1>2. Area(a) \in Int /\ Area(b) \in Int /\ Intersection(a, b) \in Int
  BY DEF BoxType, Area, Intersection, Span, Larger, Smaller
<1>3. Union(a, b) = Union(b, a)
  BY <1>1, <1>2 DEF Union
<1>. QED
  BY <1>1, <1>3 DEF Overlaps

\* Rows are typed: every candidate is one.
LEMMA CandidateTyped ==
    ASSUME TypeOK, NEW r \in Candidates
    PROVE  r \in RowType /\ r.box \in BoxType /\ r.score \in Int
<1>1. r \in Rows
  BY DEF TypeOK, Candidates
<1>. QED
  BY <1>1, DetectionAssumption DEF RowType, BoxType

LEMMA InitInv == DetectionInit => Inv
BY DEF DetectionInit, Inv, TypeOK, PhaseInv, ApartInv, CoveredInv, CutInv, Candidates

LEMMA DetectInv == Inv /\ Detect => Inv'
<1> SUFFICES ASSUME Inv, Detect PROVE Inv'
  OBVIOUS
<1> USE DEF Inv, Detect
<1>1. order = {} /\ selected = {} /\ output = {}
  BY DEF PhaseInv
<1>2. TypeOK'
  BY <1>1 DEF TypeOK
<1>3. PhaseInv'
  BY <1>1 DEF PhaseInv
<1>4. ApartInv'
  BY <1>1 DEF ApartInv
<1>5. CoveredInv'
  BY DEF CoveredInv, Candidates
<1>6. CutInv'
  BY <1>1 DEF CutInv
<1>. QED
  BY <1>2, <1>3, <1>4, <1>5, <1>6

LEMMA NextClassInv == Inv /\ NextClass => Inv'
<1> SUFFICES ASSUME Inv, NextClass PROVE Inv'
  OBVIOUS
<1> USE DEF Inv, NextClass
<1>1. Candidates' = Candidates /\ order = {} /\ output = {}
  BY DEF Candidates, PhaseInv
<1>2. CASE classes = {}
  BY <1>1, <1>2 DEF TypeOK, PhaseInv, ApartInv, CoveredInv, CutInv
<1>3. CASE classes # {}
  <2>1. PICK c \in classes :
            /\ classes' = classes \ {c} /\ order' = {r \in Candidates : r.class = c}
            /\ phase' = "suppress"
    BY <1>3
  <2>2. \A r \in selected, s \in order' : ~SameClass(r, s)
    BY <2>1 DEF PhaseInv, SameClass
  <2>3. TypeOK'
    BY <1>1, <2>1 DEF TypeOK
  <2>4. PhaseInv'
    BY <1>1, <2>1 DEF PhaseInv
  <2>5. ApartInv'
    BY <2>2 DEF ApartInv
  <2>6. CoveredInv'
    BY <1>1, <2>1 DEF CoveredInv
  <2>7. CutInv'
    BY <1>1, <2>1 DEF CutInv
  <2>. QED
    BY <2>3, <2>4, <2>5, <2>6, <2>7
<1>. QED
  BY <1>2, <1>3

LEMMA SuppressInv == Inv /\ Suppress => Inv'
<1> SUFFICES ASSUME Inv, Suppress PROVE Inv'
  OBVIOUS
<1> USE DEF Inv, Suppress
<1>1. Candidates' = Candidates /\ output = {} /\ output' = {}
  BY DEF Candidates, PhaseInv
<1>2. CASE order = {}
  BY <1>1, <1>2 DEF TypeOK, PhaseInv, ApartInv, CoveredInv, CutInv
<1>3. CASE order # {}
  <2>1. PICK r \in order :
            /\ Highest(r, order) /\ selected' = selected \cup {r}
            /\ order' = {s \in order \ {r} : ~Overlaps(r.box, s.box)}
            /\ phase' = phase
    BY <1>3
  <2>2. TypeOK'
    BY <1>1, <2>1 DEF TypeOK
  <2>3. PhaseInv'
    BY <1>1, <2>1 DEF PhaseInv
  <2>4. ApartInv'
    <3>1. \A s \in selected : SameClass(s, r) =>
              ~Overlaps(s.box, r.box) /\ ~Overlaps(r.box, s.box)
      BY CandidateTyped, OverlapsSymmetric DEF ApartInv, TypeOK, SameClass
    <3>. QED
      BY <2>1, <3>1 DEF ApartInv, SameClass
  <2>5. CoveredInv'
    <3>1. ASSUME NEW s \in order, s # r, s \notin order'
          PROVE  Covers(r, s) \/ ~SameClass(r, s)
      BY <2>1, <3>1 DEF Covers, Highest
    <3>2. \A s \in order : SameClass(r, s)
      BY DEF PhaseInv, SameClass
    <3>. QED
      BY <1>1, <2>1, <3>1, <3>2 DEF CoveredInv
  <2>6. CutInv'
    BY <1>1, <2>1 DEF CutInv, PhaseInv
  <2>. QED
    BY <2>2, <2>3, <2>4, <2>5, <2>6
<1>. QED
  BY <1>2, <1>3

LEMMA TruncateInv == Inv /\ Truncate => Inv'
<1> SUFFICES ASSUME Inv, Truncate PROVE Inv'
  OBVIOUS
<1> USE DEF Inv, Truncate
<1>1. Candidates' = Candidates
  BY DEF Candidates
<1>2. TypeOK' /\ PhaseInv' /\ ApartInv' /\ CoveredInv'
  BY <1>1 DEF TypeOK, PhaseInv, ApartInv, CoveredInv
<1>3. CutInv'
  <2>1. CASE output' = output
    BY <2>1 DEF CutInv
  <2>2. CASE output' # output
    <3>1. PICK r \in selected \ output :
              Highest(r, selected \ output) /\ output' = output \cup {r} /\ phase' = phase
      BY <2>2
    <3>. QED
      BY <3>1 DEF CutInv, Highest
  <2>. QED
    BY <2>1, <2>2
<1>. QED
  BY <1>2, <1>3

LEMMA RecoverBoxesInv == Inv /\ RecoverBoxes => Inv'
BY DEF Inv, RecoverBoxes, TypeOK, PhaseInv, ApartInv, CoveredInv, CutInv, Candidates

LEMMA Invariant == DetectionSpec => []Inv
<1>1. Inv /\ UNCHANGED detectionVars => Inv'
  BY DEF detectionVars, Inv, TypeOK, PhaseInv, ApartInv, CoveredInv, CutInv, Candidates
<1>2. Inv /\ [DetectionNext]_detectionVars => Inv'
  BY <1>1, DetectInv, NextClassInv, SuppressInv, TruncateInv, RecoverBoxesInv
     DEF DetectionNext
<1>. QED
  BY <1>2, InitInv, PTL DEF DetectionSpec

\* What is missing from the result is covered by a detection that is at least as
\* good, or had to give way to better ones (postprocessor/1/model.py:29-36, 62).
THEOREM DetectionsComplete == DetectionSpec => []NothingMissed
<1>1. ASSUME Inv, phase = "done", NEW r \in Candidates \ output
      PROVE  \/ \E s \in output : Covers(s, r)
             \/ Cardinality(output) = MaxDetections /\ \A s \in output : s.score >= r.score
  <2>1. r \in selected \/ \E s \in selected : Covers(s, r)
    BY <1>1 DEF Inv, PhaseInv, CoveredInv
  <2>2. \A s \in selected \ output :
            /\ Cardinality(output) = MaxDetections
            /\ \A k \in output : k.score >= s.score
    BY <1>1 DEF Inv, TypeOK, CutInv
  <2>3. CASE r \in selected
    BY <2>2, <2>3
  <2>4. ASSUME NEW s \in selected \ output, Covers(s, r)
        PROVE  \A k \in output : k.score >= r.score
    <3>1. ASSUME NEW k \in output PROVE k.score >= r.score
      <4>1. k.score \in Int /\ s.score \in Int /\ r.score \in Int
        BY <1>1, CandidateTyped DEF Inv, TypeOK
      <4>. QED
        BY <2>2, <2>4, <4>1 DEF Covers
    <3>. QED
      BY <3>1
  <2>. QED
    BY <2>1, <2>2, <2>3, <2>4
<1>2. Inv => NothingMissed
  BY <1>1 DEF NothingMissed, Covers, SameClass
<1>. QED
  BY <1>2, Invariant, PTL

----------------------------------------------------------------------------
(* The letterbox and its inverse                                            *)

Positive == Nat \ {0}

\* What products of integers do to an order.
LEMMA TimesMonotone ==
    ASSUME NEW m \in Int, NEW n \in Int, NEW k \in Nat, m <= n
    PROVE  m * k <= n * k /\ k * m <= k * n
  OBVIOUS

\* A factor can be taken out of an order.
LEMMA TimesCancel ==
    ASSUME NEW m \in Int, NEW n \in Int, NEW k \in Positive, m * k <= n * k
    PROVE  m <= n
<1>1. CASE n < m
  <2>1. (n + 1) * k <= m * k
    BY <1>1, TimesMonotone DEF Positive
  <2>2. (n + 1) * k = n * k + k
    BY DEF Positive
  <2> QED
    BY <2>1, <2>2 DEF Positive
<1> QED
  BY <1>1

\* What is rounded is at most half a unit away, and no more than a whole bound.
LEMMA RoundFacts ==
    ASSUME NEW n \in Nat, NEW d \in Positive
    PROVE  /\ Round(n, d) \in Nat
           /\ 2 * (Round(n, d) * d - n) <= d /\ 2 * (n - Round(n, d) * d) <= d
           /\ \A limit \in Nat : n <= limit * d => Round(n, d) <= limit
<1> DEFINE f == n \div d
           q == n % d
<1>1. f \in Nat /\ q \in 0..(d - 1) /\ n = f * d + q
  BY DEF Positive
<1>2. Round(n, d) = IF 2 * q > d \/ (2 * q = d /\ f % 2 = 1) THEN f + 1 ELSE f
  BY DEF Round
<1> HIDE DEF f, q
<1>3. (f + 1) * d = f * d + d /\ f * d \in Nat /\ d \in Nat
  BY <1>1 DEF Positive
<1>4. \/ Round(n, d) = f /\ 2 * q <= d
      \/ Round(n, d) = f + 1 /\ 2 * q >= d
  BY <1>1, <1>2, <1>3
<1>5. 2 * (Round(n, d) * d - n) <= d /\ 2 * (n - Round(n, d) * d) <= d
  BY <1>1, <1>3, <1>4
<1>6. ASSUME NEW limit \in Nat, n <= limit * d PROVE Round(n, d) <= limit
  <2>1. f * d <= limit * d
    BY <1>1, <1>3, <1>6
  <2>2. f <= limit
    BY <1>1, <2>1, TimesCancel
  <2>3. CASE f = limit
    BY <1>1, <1>2, <1>3, <1>6, <2>3
  <2>4. CASE f # limit
    BY <1>1, <1>4, <2>2, <2>4
  <2> QED
    BY <2>3, <2>4
<1> QED
  BY <1>1, <1>4, <1>5, <1>6

\* The scale is the one at which the image just fits.
LEMMA ScaleFits ==
    ASSUME NEW height \in Positive, NEW width \in Positive
    PROVE  \E a, b \in Positive :
               /\ Scale(height, width) = <<a, b>>
               /\ height * a <= OutputHeight * b /\ width * a <= OutputWidth * b
<1>1. OutputHeight \in Positive /\ OutputWidth \in Positive
  BY DetectionAssumption DEF Positive
<1>2. CASE OutputHeight * width <= OutputWidth * height
  <2>1. Scale(height, width) = <<OutputHeight, height>>
    BY <1>2 DEF Scale
  <2>2. /\ height * OutputHeight <= OutputHeight * height
        /\ width * OutputHeight = OutputHeight * width
    BY <1>1 DEF Positive
  <2> QED
    BY <1>1, <1>2, <2>1, <2>2
<1>3. CASE ~(OutputHeight * width <= OutputWidth * height)
  <2>1. Scale(height, width) = <<OutputWidth, width>>
    BY <1>3 DEF Scale
  <2>2. /\ width * OutputWidth <= OutputWidth * width
        /\ height * OutputWidth = OutputWidth * height
        /\ OutputHeight * width \in Int /\ OutputWidth * height \in Int
    BY <1>1 DEF Positive
  <2> QED
    BY <1>1, <1>3, <2>1, <2>2
<1> QED
  BY <1>2, <1>3

\* A side of the image in the letterbox: rounded, and at least a pixel.
LEMMA ResizedFacts ==
    ASSUME NEW side \in Positive, NEW limit \in Positive, NEW a \in Positive, NEW b \in Positive,
           side * a <= limit * b
    PROVE  LET resized == Resized(side, limit, <<a, b>>) IN
           /\ resized \in 1..limit
           /\ \/ 2 * (resized * b - side * a) <= b /\ 2 * (side * a - resized * b) <= b
              \/ resized = 1 /\ 2 * (side * a) <= b
<1> DEFINE round == Round(side * a, b)
<1>1. side * a \in Nat
  BY DEF Positive
<1>2. /\ round \in Nat /\ round <= limit
      /\ 2 * (round * b - side * a) <= b /\ 2 * (side * a - round * b) <= b
  BY <1>1, RoundFacts DEF Positive
<1>3. Resized(side, limit, <<a, b>>) = Larger(1, Smaller(limit, round))
  BY DEF Resized
<1> HIDE DEF round
<1>4. Smaller(limit, round) = round
  BY <1>2 DEF Smaller, Positive
<1>5. CASE round = 0
  <2>1. Resized(side, limit, <<a, b>>) = 1
    BY <1>3, <1>4, <1>5 DEF Larger
  <2>2. 2 * (side * a) <= b
    BY <1>1, <1>2, <1>5 DEF Positive
  <2> QED
    BY <2>1, <2>2 DEF Positive
<1>6. CASE round # 0
  <2>1. Resized(side, limit, <<a, b>>) = round
    BY <1>2, <1>3, <1>4, <1>6 DEF Larger
  <2> QED
    BY <1>2, <1>6, <2>1 DEF Positive
<1> QED
  BY <1>2, <1>5, <1>6

\* How far apart the steps from pixel to pixel of the image and of the letterbox
\* are, in parts of a pixel: the rounding, and the half pixel at either end.
LEMMA StepError ==
    ASSUME NEW side \in Positive, NEW resized \in Positive, NEW a \in Positive, NEW b \in Positive,
           \/ 2 * (resized * b - side * a) <= b /\ 2 * (side * a - resized * b) <= b
           \/ resized = 1 /\ 2 * (side * a) <= b
    PROVE  /\ 2 * ((resized - 1) * b - (side - 1) * a) <= 2 * Larger(a, b) + b
           /\ 2 * ((side - 1) * a - (resized - 1) * b) <= 2 * Larger(a, b) + b
<1>1. /\ (resized - 1) * b = resized * b - b /\ (side - 1) * a = side * a - a
      /\ resized * b \in Nat /\ side * a \in Nat /\ (side - 1) * a \in Nat
      /\ a \in Nat /\ b \in Nat
  BY DEF Positive
<1>2. Larger(a, b) \in Nat /\ a <= Larger(a, b) /\ b <= Larger(a, b)
  BY <1>1 DEF Larger
<1>3. CASE 2 * (resized * b - side * a) <= b /\ 2 * (side * a - resized * b) <= b
  BY <1>1, <1>2, <1>3
<1>4. CASE resized = 1 /\ 2 * (side * a) <= b
  <2>1. resized * b = b
    BY <1>1, <1>4
  <2> QED
    BY <1>1, <1>2, <1>4, <2>1
<1> QED
  BY <1>3, <1>4

\* Clipping never takes a place further away from one inside the image.
LEMMA ClippingHelps ==
    ASSUME NEW m \in Nat, NEW at \in Nat, NEW end \in Nat, at <= end, NEW bound \in Int,
           2 * (m - at) <= bound, 2 * (at - m) <= bound
    PROVE  LET x == Larger(0, Smaller(m, end)) IN
           x \in Nat /\ 2 * Larger(x - at, at - x) <= bound
  BY DEF Larger, Smaller

\* One side of an image: the error grows with the distance from the edge, and at
\* the far end it is still that of one step.
LEMMA SideRecovered ==
    ASSUME NEW side \in Positive, NEW limit \in Positive, NEW a \in Positive, NEW b \in Positive,
           side * a <= limit * b, metadata.scale = <<a, b>>, NEW pad \in Nat,
           NEW u \in 0..(side - 1)
    PROVE  Recovered(u, side, Resized(side, limit, <<a, b>>), pad)
<1> DEFINE resized == Resized(side, limit, <<a, b>>)
           s == side - 1
           K == 2 * Larger(a, b) + b
           D == (resized - 1) * b - s * a
<1>0. resized \in Positive /\ s \in Nat /\ u \in Nat /\ u <= s
  BY ResizedFacts DEF Positive
<1>1. 2 * D <= K /\ 2 * (-D) <= K /\ D \in Int /\ K \in Nat
  <2>1. \/ 2 * (resized * b - side * a) <= b /\ 2 * (side * a - resized * b) <= b
        \/ resized = 1 /\ 2 * (side * a) <= b
    BY ResizedFacts
  <2>2. resized * b \in Nat /\ (resized - 1) * b \in Nat /\ s * a \in Nat
    BY <1>0 DEF Positive
  <2>3. 2 * D <= K /\ 2 * ((side - 1) * a - (resized - 1) * b) <= K
    <3> HIDE DEF resized
    <3> QED
      BY <1>0, <2>1, StepError
  <2>4. Larger(a, b) \in Nat /\ a \in Nat /\ b \in Nat
    BY DEF Larger, Positive
  <2> HIDE DEF resized
  <2> QED
    BY <2>2, <2>3, <2>4
<1>2. CASE side = 1
  <2>1. u = 0 /\ Sampled(u, side, resized) = <<0, 1>>
    BY <1>2 DEF Sampled
  <2>2. Recover(0 + pad * 1, 1, pad, <<a, b>>, side) = <<0, a>>
    BY <1>2 DEF Recover, Larger, Smaller, Positive
  <2>3. K * a \in Nat /\ a \in Nat
    BY <1>1 DEF Positive
  <2> QED
    BY <2>1, <2>2, <2>3 DEF Recovered, Larger
<1>3. CASE side # 1
  <2> DEFINE e == s * a
             m == (u * (resized - 1)) * b
             x == Larger(0, Smaller(m, side * e))
             error == Larger(x - u * e, u * e - x)
  <2>1. e \in Nat /\ m \in Nat /\ side * e \in Nat /\ u * e \in Nat /\ u * e <= side * e
    BY <1>0, TimesMonotone DEF Positive
  <2>2. Recover(u * (resized - 1) + pad * s, s, pad, <<a, b>>, side) = <<x, e>>
    <3>1. (u * (resized - 1) + pad * s) - pad * s = u * (resized - 1)
      BY <1>0 DEF Positive
    <3> QED
      BY <3>1 DEF Recover
  <2>3. m - u * e = u * D /\ u * e - m = u * (-D)
    BY <1>0 DEF Positive
  <2> HIDE DEF resized, s, K, D
  <2>4. 2 * (m - u * e) <= u * K /\ 2 * (u * e - m) <= u * K
    <3>1. u * (2 * D) <= u * K /\ u * (2 * (-D)) <= u * K
      BY <1>0, <1>1, TimesMonotone
    <3>2. u * (2 * D) = 2 * (u * D) /\ u * (2 * (-D)) = 2 * (u * (-D))
      BY <1>0, <1>1
    <3> QED
      BY <2>3, <3>1, <3>2
  <2>5. 2 * error <= u * K /\ error \in Nat
    <3>1. u * K \in Int /\ u * e \in Nat
      BY <1>0, <1>1, <2>1
    <3>2. x \in Nat /\ 2 * error <= u * K
      BY <2>1, <2>4, <3>1, ClippingHelps
    <3>3. error \in Nat
      BY <3>1, <3>2 DEF Larger
    <3> QED
      BY <3>2, <3>3
  <2> HIDE DEF x, m, error
  <2>6. 2 * error * a <= K * e
    <3>1. (2 * error) * a <= (u * K) * a
      BY <1>0, <1>1, <2>5, TimesMonotone DEF Positive
    <3>2. (u * K) * a = K * (u * a)
      BY <1>0, <1>1 DEF Positive
    <3>3. u * a <= s * a /\ u * a \in Nat /\ s * a \in Nat
      BY <1>0, TimesMonotone DEF Positive
    <3>4. K * (u * a) <= K * (s * a)
      BY <1>1, <3>3, TimesMonotone
    <3>5. 2 * error * a \in Int /\ (u * K) * a \in Int /\ K * (s * a) \in Int
      BY <1>0, <1>1, <2>5 DEF Positive
    <3>6. \A p, q, r \in Int : p <= q /\ q <= r => p <= r
      OBVIOUS
    <3>7. (u * K) * a <= K * (s * a)
      BY <3>2, <3>4, Zenon
    <3> QED
      BY <3>1, <3>5, <3>6, <3>7, Zenon
  <2>7. Sampled(u, side, resized) = <<u * (resized - 1), s>>
    BY <1>3 DEF Sampled, s
  <2> HIDE DEF e
  <2>8. Recovered(u, side, resized, pad) <=> 2 * error * a <= K * e
    BY <2>2, <2>7 DEF Recovered, error, K
  <2> QED
    BY <2>6, <2>8 DEF resized
<1> QED
  BY <1>2, <1>3

\* The metadata are those of an image, from the first state on.
LetterboxInv == \E i \in Images : metadata = Letterbox(i[1], i[2])

LEMMA LetterboxInvariant == DetectionSpec => []LetterboxInv
<1>1. DetectionInit => LetterboxInv
  BY DEF DetectionInit, LetterboxInv
<1>2. LetterboxInv /\ [DetectionNext]_detectionVars => LetterboxInv'
  BY DEF LetterboxInv, DetectionNext, Detect, NextClass, Suppress, Truncate, RecoverBoxes,
         detectionVars
<1>. QED
  BY <1>1, <1>2, PTL DEF DetectionSpec

\* Sides and padding of an image in the letterbox.
LEMMA LetterboxTyped ==
    ASSUME LetterboxInv
    PROVE  /\ metadata.width \in Nat /\ metadata.height \in Nat
           /\ metadata.pad_x \in Int /\ metadata.pad_y \in Int
<1>1. PICK height \in Positive, width \in Positive : metadata = Letterbox(height, width)
  BY DetectionAssumption DEF LetterboxInv, Positive
<1>2. PICK a \in Positive, b \in Positive :
          /\ Scale(height, width) = <<a, b>>
          /\ height * a <= OutputHeight * b /\ width * a <= OutputWidth * b
  BY ScaleFits
<1> DEFINE rh == Resized(height, OutputHeight, <<a, b>>)
           rw == Resized(width, OutputWidth, <<a, b>>)
<1>3. OutputHeight \in Positive /\ OutputWidth \in Positive
  BY DetectionAssumption DEF Positive
<1>4. rh \in Int /\ rw \in Int
  BY <1>2, <1>3, ResizedFacts
<1>5. /\ metadata.height = height /\ metadata.width = width
      /\ metadata.pad_y = (OutputHeight - rh) \div 2 /\ metadata.pad_x = (OutputWidth - rw) \div 2
  BY <1>1, <1>2 DEF Letterbox
<1> HIDE DEF rh, rw
<1> QED
  BY <1>3, <1>4, <1>5 DEF Positive

LEMMA LetterboxRecovers == LetterboxInv => RecoveryInvertsLetterbox
<1> SUFFICES ASSUME LetterboxInv PROVE RecoveryInvertsLetterbox
  OBVIOUS
<1>1. PICK height \in Positive, width \in Positive : metadata = Letterbox(height, width)
  BY DetectionAssumption DEF LetterboxInv, Positive
<1>2. PICK a \in Positive, b \in Positive :
          /\ Scale(height, width) = <<a, b>>
          /\ height * a <= OutputHeight * b /\ width * a <= OutputWidth * b
  BY ScaleFits
<1> DEFINE rh == Resized(height, OutputHeight, <<a, b>>)
           rw == Resized(width, OutputWidth, <<a, b>>)
<1>3. OutputHeight \in Positive /\ OutputWidth \in Positive
  BY DetectionAssumption DEF Positive
<1>4. /\ metadata.scale = <<a, b>> /\ metadata.height = height /\ metadata.width = width
      /\ metadata.resized_height = rh /\ metadata.resized_width = rw
      /\ metadata.pad_y = (OutputHeight - rh) \div 2 /\ metadata.pad_x = (OutputWidth - rw) \div 2
  BY <1>1, <1>2 DEF Letterbox
<1>5. rh \in 1..OutputHeight /\ rw \in 1..OutputWidth
  BY <1>2, <1>3, ResizedFacts
<1>6. /\ metadata.pad_y \in Nat /\ metadata.pad_y + rh <= OutputHeight
      /\ metadata.pad_x \in Nat /\ metadata.pad_x + rw <= OutputWidth
  <2> HIDE DEF rh, rw
  <2> QED
    BY <1>3, <1>4, <1>5 DEF Positive
<1>7. \A u \in 0..(width - 1) : Recovered(u, width, rw, metadata.pad_x)
  BY <1>2, <1>3, <1>4, <1>6, SideRecovered
<1>8. \A v \in 0..(height - 1) : Recovered(v, height, rh, metadata.pad_y)
  BY <1>2, <1>3, <1>4, <1>6, SideRecovered
<1> HIDE DEF rh, rw
<1> QED
  BY <1>4, <1>6, <1>7, <1>8 DEF RecoveryInvertsLetterbox

\* For every image and every size of the letterbox, the resized image fits into
\* it, and what the postprocessor makes of the places of its pixels is where they
\* were (preprocessor/1/model.py:43-57, postprocessor/1/model.py:67-73).
THEOREM LetterboxInverted == DetectionSpec => []RecoveryInvertsLetterbox
  BY LetterboxInvariant, LetterboxRecovers, PTL

----------------------------------------------------------------------------
(* What is returned.                                                        *)

\* A factor that is common to both sides of an order.
LEMMA TimesOrder ==
    ASSUME NEW m \in Int, NEW n \in Int, NEW k \in Positive
    PROVE  (k * m <= k * n <=> m <= n) /\ (k * m < k * n <=> m < n)
<1>1. k * m = m * k /\ k * n = n * k
  BY DEF Positive
<1>2. k \in Nat
  BY DEF Positive
<1>3. m <= n => k * m <= k * n
  BY <1>2, TimesMonotone
<1>4. n <= m => k * n <= k * m
  BY <1>2, TimesMonotone
<1>5. k * m <= k * n => m <= n
  BY <1>1, TimesCancel
<1>6. k * n <= k * m => n <= m
  BY <1>1, TimesCancel
<1>7. k * m \in Int /\ k * n \in Int
  BY <1>2
<1> QED
  BY <1>3, <1>4, <1>5, <1>6, <1>7

\* at, in the image, is from in the letterbox, under a change of scale and origin.
Scaled(at, from, k, p) == at = (from - p) * k

\* Lengths, and the ends of intersections, under such a change.
LEMMA EndsScaled ==
    ASSUME NEW k \in Positive, NEW p \in Int, NEW m \in Int, NEW n \in Int,
           NEW mm, Scaled(mm, m, k, p), NEW nn, Scaled(nn, n, k, p)
    PROVE  /\ Scaled(Larger(mm, nn), Larger(m, n), k, p)
           /\ Scaled(Smaller(mm, nn), Smaller(m, n), k, p)
           /\ Scaled(Span(mm, nn), Span(m, n), k, 0)
<1>0. mm = (m - p) * k /\ nn = (n - p) * k
  BY DEF Scaled
<1>1. mm \in Int /\ nn \in Int /\ (nn - mm) = k * (n - m)
  BY <1>0 DEF Positive
<1>2. mm <= nn <=> m <= n
  <2>1. mm = k * (m - p) /\ nn = k * (n - p) /\ m - p \in Int /\ n - p \in Int
    BY <1>0 DEF Positive
  <2>2. mm <= nn <=> m - p <= n - p
    BY <2>1, TimesOrder
  <2> QED
    BY <2>2
<1>3. k * 0 = 0 /\ k * (n - m) \in Int
  BY DEF Positive
<1>4. Span(mm, nn) = IF 0 > nn - mm THEN 0 ELSE nn - mm
  BY DEF Span, Larger
<1>5. Span(m, n) = IF 0 > n - m THEN 0 ELSE n - m
  BY DEF Span, Larger
<1>6. Span(mm, nn) = k * Span(m, n)
  <2>1. CASE m <= n
    BY <1>1, <1>2, <1>4, <1>5, <2>1
  <2>2. CASE ~(m <= n)
    BY <1>1, <1>2, <1>3, <1>4, <1>5, <2>2
  <2> QED
    BY <2>1, <2>2
<1>7. /\ Scaled(Larger(mm, nn), Larger(m, n), k, p)
      /\ Scaled(Smaller(mm, nn), Smaller(m, n), k, p)
  <2>1. CASE m <= n
    BY <1>0, <1>1, <1>2, <2>1 DEF Larger, Smaller, Scaled
  <2>2. CASE ~(m <= n)
    BY <1>0, <1>1, <1>2, <2>2 DEF Larger, Smaller, Scaled
  <2> QED
    BY <2>1, <2>2
<1>8. Span(m, n) \in Int
  BY DEF Span, Larger
<1>9. Scaled(Span(mm, nn), Span(m, n), k, 0)
  <2>1. k * Span(m, n) = (Span(m, n) - 0) * k
    BY <1>8 DEF Positive
  <2> QED
    BY <1>6, <2>1 DEF Scaled
<1> QED
  BY <1>7, <1>9

Shifted(b, k, px, py) ==
    [x1 |-> (b.x1 - px) * k, y1 |-> (b.y1 - py) * k,
     x2 |-> (b.x2 - px) * k, y2 |-> (b.y2 - py) * k]

\* A length is no less than nothing.
LEMMA SpanTyped ==
    ASSUME NEW m \in Int, NEW n \in Int
    PROVE  Span(m, n) \in Nat /\ Larger(m, n) \in Int /\ Smaller(m, n) \in Int
BY DEF Span, Larger, Smaller

\* Areas grow with the square of the scale.
LEMMA AreaScaled ==
    ASSUME NEW k \in Positive, NEW w \in Nat, NEW h \in Nat,
           NEW ww, Scaled(ww, w, k, 0), NEW hh, Scaled(hh, h, k, 0)
    PROVE  ww * hh = (k * k) * (w * h)
<1>1. ww = k * w /\ hh = k * h
  BY DEF Scaled, Positive
<1>2. (k * w) * (k * h) = (k * k) * (w * h)
  BY DEF Positive
<1> QED
  BY <1>1, <1>2

\* The ratio of intersection and union does not see the scale.
LEMMA RatioScaled ==
    ASSUME NEW q \in Positive, NEW i \in Int, NEW u \in Int, NEW m \in Nat, NEW n \in Nat
    PROVE  /\ q * u > 0 <=> u > 0
           /\ (q * i) * n > m * (q * u) <=> i * n > m * u
<1>1. /\ (q * i) * n = q * (i * n) /\ m * (q * u) = q * (m * u) /\ q * 0 = 0
      /\ i * n \in Int /\ m * u \in Int
  BY DEF Positive
<1>2. q * 0 < q * u <=> 0 < u
  BY TimesOrder
<1>3. q * (m * u) < q * (i * n) <=> m * u < i * n
  BY <1>1, TimesOrder
<1>4. q * u \in Int /\ q * (m * u) \in Int /\ q * (i * n) \in Int
  BY <1>1 DEF Positive
<1> QED
  BY <1>1, <1>2, <1>3, <1>4

\* Boxes overlap in the image as they do in the letterbox.
LEMMA OverlapsScaled ==
    ASSUME NEW a \in BoxType, NEW b \in BoxType, NEW k \in Positive,
           NEW px \in Int, NEW py \in Int
    PROVE  Overlaps(Shifted(a, k, px, py), Shifted(b, k, px, py)) <=> Overlaps(a, b)
<1> DEFINE aa == Shifted(a, k, px, py)
           bb == Shifted(b, k, px, py)
           q == k * k
<1>1. /\ a.x1 \in Int /\ a.y1 \in Int /\ a.x2 \in Int /\ a.y2 \in Int
      /\ b.x1 \in Int /\ b.y1 \in Int /\ b.x2 \in Int /\ b.y2 \in Int
  BY DEF BoxType
<1>2. q \in Positive
  BY DEF Positive
<1>3. /\ Scaled(aa.x1, a.x1, k, px) /\ Scaled(aa.x2, a.x2, k, px)
      /\ Scaled(aa.y1, a.y1, k, py) /\ Scaled(aa.y2, a.y2, k, py)
      /\ Scaled(bb.x1, b.x1, k, px) /\ Scaled(bb.x2, b.x2, k, px)
      /\ Scaled(bb.y1, b.y1, k, py) /\ Scaled(bb.y2, b.y2, k, py)
  BY DEF Shifted, Scaled
<1> HIDE DEF aa, bb
<1>4. Area(aa) = q * Area(a) /\ Area(a) \in Nat
  <2>1. /\ Scaled(Span(aa.x1, aa.x2), Span(a.x1, a.x2), k, 0)
        /\ Scaled(Span(aa.y1, aa.y2), Span(a.y1, a.y2), k, 0)
    BY <1>1, <1>3, EndsScaled
  <2>2. Span(a.x1, a.x2) \in Nat /\ Span(a.y1, a.y2) \in Nat
    BY <1>1, SpanTyped
  <2>3. Area(a) \in Nat
    BY <2>2 DEF Area
  <2> QED
    BY <2>1, <2>2, <2>3, AreaScaled DEF Area
<1>5. Area(bb) = q * Area(b) /\ Area(b) \in Nat
  <2>1. /\ Scaled(Span(bb.x1, bb.x2), Span(b.x1, b.x2), k, 0)
        /\ Scaled(Span(bb.y1, bb.y2), Span(b.y1, b.y2), k, 0)
    BY <1>1, <1>3, EndsScaled
  <2>2. Span(b.x1, b.x2) \in Nat /\ Span(b.y1, b.y2) \in Nat
    BY <1>1, SpanTyped
  <2>3. Area(b) \in Nat
    BY <2>2 DEF Area
  <2> QED
    BY <2>1, <2>2, <2>3, AreaScaled DEF Area
<1>6. Intersection(aa, bb) = q * Intersection(a, b) /\ Intersection(a, b) \in Nat
  <2> DEFINE left == Larger(a.x1, b.x1)
             right == Smaller(a.x2, b.x2)
             top == Larger(a.y1, b.y1)
             bottom == Smaller(a.y2, b.y2)
  <2>1. left \in Int /\ right \in Int /\ top \in Int /\ bottom \in Int
    BY <1>1, SpanTyped
  <2>2. /\ Scaled(Larger(aa.x1, bb.x1), left, k, px)
        /\ Scaled(Smaller(aa.x2, bb.x2), right, k, px)
        /\ Scaled(Larger(aa.y1, bb.y1), top, k, py)
        /\ Scaled(Smaller(aa.y2, bb.y2), bottom, k, py)
    BY <1>1, <1>3, EndsScaled
  <2>3. Intersection(a, b) = Span(left, right) * Span(top, bottom)
    BY DEF Intersection
  <2>4. Intersection(aa, bb) =
            Span(Larger(aa.x1, bb.x1), Smaller(aa.x2, bb.x2))
            * Span(Larger(aa.y1, bb.y1), Smaller(aa.y2, bb.y2))
    BY DEF Intersection
  <2> HIDE DEF left, right, top, bottom
  <2>5. /\ Scaled(Span(Larger(aa.x1, bb.x1), Smaller(aa.x2, bb.x2)), Span(left, right), k, 0)
        /\ Scaled(Span(Larger(aa.y1, bb.y1), Smaller(aa.y2, bb.y2)), Span(top, bottom), k, 0)
    BY <2>1, <2>2, EndsScaled
  <2>6. Span(left, right) \in Nat /\ Span(top, bottom) \in Nat
    BY <2>1, SpanTyped
  <2>7. Intersection(a, b) \in Nat
    BY <2>3, <2>6
  <2> QED
    BY <2>3, <2>4, <2>5, <2>6, <2>7, AreaScaled
<1> HIDE DEF q
<1>7. Union(aa, bb) = q * Union(a, b) /\ Union(a, b) \in Int
  <2> DEFINE x == Area(a)
             y == Area(b)
             z == Intersection(a, b)
  <2>1. x \in Nat /\ y \in Nat /\ z \in Nat /\ q \in Nat
    BY <1>2, <1>4, <1>5, <1>6 DEF Positive
  <2>2. Union(aa, bb) = q * x + q * y - q * z /\ Union(a, b) = x + y - z
    BY <1>4, <1>5, <1>6 DEF Union
  <2> HIDE DEF x, y, z
  <2>3. q * x + q * y - q * z = q * (x + y - z)
    BY <2>1
  <2> QED
    BY <2>1, <2>2, <2>3
<1>8. NmsThreshold[1] \in Nat /\ NmsThreshold[2] \in Nat
  BY DetectionAssumption
<1>9. /\ q * Union(a, b) > 0 <=> Union(a, b) > 0
      /\ (q * Intersection(a, b)) * NmsThreshold[2] > NmsThreshold[1] * (q * Union(a, b))
         <=> Intersection(a, b) * NmsThreshold[2] > NmsThreshold[1] * Union(a, b)
  BY <1>2, <1>6, <1>7, <1>8, RatioScaled
<1>10. Overlaps(aa, bb) <=> Overlaps(a, b)
  BY <1>6, <1>7, <1>9 DEF Overlaps
<1> QED
  BY <1>10 DEF aa, bb

\* A place in the image is recovered without the clip.
LEMMA UncutRecovered ==
    ASSUME NEW at \in Int, NEW pad \in Int, NEW a \in Positive, NEW k \in Positive,
           NEW side \in Nat, (at - pad) * k \in 0..(side * a)
    PROVE  Recover(at, 1, pad, <<a, k>>, side)[1] = (at - pad) * k
<1> DEFINE m == (at - pad) * k
           end == side * a
<1>1. pad * 1 = pad /\ 1 * a = a
  BY DEF Positive
<1>2. Recover(at, 1, pad, <<a, k>>, side)[1] = Larger(0, Smaller(m, end))
  BY <1>1 DEF Recover
<1>3. m \in 0..end /\ end \in Nat
  BY DEF Positive
<1> HIDE DEF m, end
<1>4. Larger(0, Smaller(m, end)) = m
  BY <1>3 DEF Larger, Smaller
<1> QED
  BY <1>2, <1>4 DEF m

\* What is returned are the boxes that were kept, put back into the image.
BoxesInv == phase = "done" => boxes = [r \in output |-> RecoveredBox(r.box)]

LEMMA BoxesInvariant == DetectionSpec => []BoxesInv
<1>1. DetectionInit => BoxesInv
  BY DEF DetectionInit, BoxesInv
<1>2. ASSUME BoxesInv, [DetectionNext]_detectionVars PROVE BoxesInv'
  <2>1. CASE UNCHANGED detectionVars
    BY <1>2, <2>1 DEF BoxesInv, RecoveredBox, detectionVars
  <2>2. CASE RecoverBoxes
    BY <2>2 DEF BoxesInv, RecoveredBox, RecoverBoxes
  <2>3. CASE Detect \/ NextClass \/ Suppress \/ Truncate
    BY <2>3 DEF BoxesInv, Detect, NextClass, Suppress, Truncate
  <2> QED
    BY <1>2, <2>1, <2>2, <2>3 DEF DetectionNext
<1>. QED
  BY <1>1, <1>2, PTL DEF DetectionSpec

\* No two boxes of one class in the result overlap by more than the threshold,
\* as they were detected, nor as they are returned if both lie in the image
\* (postprocessor/1/model.py:9-36, 61-73).
THEOREM DetectionsApart == DetectionSpec => []NoDuplicates
<1>1. ASSUME Inv, LetterboxInv, BoxesInv, NEW r \in output, NEW s \in output, r # s, r.class = s.class
      PROVE  /\ ~Overlaps(r.box, s.box)
             /\ phase = "done" /\ Uncut(r.box) /\ Uncut(s.box)
                  => ~Overlaps(boxes[r], boxes[s])
  <2>1. ~Overlaps(r.box, s.box) /\ r.box \in BoxType /\ s.box \in BoxType
    BY <1>1, CandidateTyped DEF Inv, TypeOK, ApartInv, SameClass
  <2>2. PICK a \in Positive, k \in Positive : metadata.scale = <<a, k>>
    <3>1. PICK height \in Positive, width \in Positive : metadata = Letterbox(height, width)
      BY <1>1, DetectionAssumption DEF LetterboxInv, Positive
    <3> QED
      BY <3>1, ScaleFits DEF Letterbox
  <2>3. /\ metadata.width \in Nat /\ metadata.height \in Nat
        /\ metadata.pad_x \in Int /\ metadata.pad_y \in Int
    BY <1>1, LetterboxTyped
  <2>4. ASSUME NEW b \in BoxType, Uncut(b)
        PROVE  RecoveredBox(b) = Shifted(b, k, metadata.pad_x, metadata.pad_y)
    <3>1. /\ b.x1 \in Int /\ b.y1 \in Int /\ b.x2 \in Int /\ b.y2 \in Int
          /\ (b.x1 - metadata.pad_x) * k \in 0..(metadata.width * a)
          /\ (b.x2 - metadata.pad_x) * k \in 0..(metadata.width * a)
          /\ (b.y1 - metadata.pad_y) * k \in 0..(metadata.height * a)
          /\ (b.y2 - metadata.pad_y) * k \in 0..(metadata.height * a)
      BY <2>2, <2>4 DEF BoxType, Uncut
    <3>2. /\ Recover(b.x1, 1, metadata.pad_x, <<a, k>>, metadata.width)[1]
                = (b.x1 - metadata.pad_x) * k
          /\ Recover(b.x2, 1, metadata.pad_x, <<a, k>>, metadata.width)[1]
                = (b.x2 - metadata.pad_x) * k
          /\ Recover(b.y1, 1, metadata.pad_y, <<a, k>>, metadata.height)[1]
                = (b.y1 - metadata.pad_y) * k
          /\ Recover(b.y2, 1, metadata.pad_y, <<a, k>>, metadata.height)[1]
                = (b.y2 - metadata.pad_y) * k
      BY <2>3, <3>1, UncutRecovered
    <3> QED
      BY <2>2, <3>2 DEF RecoveredBox, Shifted
  <2>5. ASSUME phase = "done", Uncut(r.box), Uncut(s.box)
        PROVE  ~Overlaps(boxes[r], boxes[s])
    <3>1. boxes[r] = RecoveredBox(r.box) /\ boxes[s] = RecoveredBox(s.box)
      BY <1>1, <2>5 DEF BoxesInv
    <3>2. /\ boxes[r] = Shifted(r.box, k, metadata.pad_x, metadata.pad_y)
          /\ boxes[s] = Shifted(s.box, k, metadata.pad_x, metadata.pad_y)
      BY <2>1, <2>4, <2>5, <3>1
    <3> QED
      BY <2>1, <2>3, <3>2, OverlapsScaled
  <2> QED
    BY <2>1, <2>5
<1>2. Inv /\ LetterboxInv /\ BoxesInv => NoDuplicates
  BY <1>1 DEF NoDuplicates
<1>. QED
  BY <1>2, Invariant, LetterboxInvariant, BoxesInvariant, PTL

=============================================================================
