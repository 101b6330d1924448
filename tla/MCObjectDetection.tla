-------------------------- MODULE MCObjectDetection --------------------------
EXTENDS ObjectDetection

SmallImages == {1, 2, 3, 4, 7, 10} \X {1, 2, 3, 5, 8, 13}
Box(x1, x2) == [x1 |-> x1, y1 |-> 0, x2 |-> x2, y2 |-> 2]
SomeRows ==
    [box : {Box(0, 4), Box(1, 5), Box(2, 6)}, class : 1..2, score : 1..2]
    \cup {[box |-> Box(0, 4), class |-> 1, score |-> 0]}
OneThird == <<1, 3>>
=============================================================================
