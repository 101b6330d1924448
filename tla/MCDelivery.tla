------------------------------ MODULE MCDelivery ------------------------------
EXTENDS Delivery, TLC

CONSTANTS c1, c2, o1, o2, v1, v2

TwoConverters == {c1, c2}
TwoOperators == {o1, o2}
TwoInputs == {v1, v2}

Pins == c1 :> v1 @@ c2 :> Unpinned
Scripts == o1 :> "reload" @@ o2 :> "load"

=============================================================================
