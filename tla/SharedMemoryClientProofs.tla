---------------------- MODULE SharedMemoryClientProofs ----------------------
(***************************************************************************)
(* Theorems about SharedMemoryClient, for any sets of callers and closers, *)
(* numbers of calls and of regions of a call.                              *)
(***************************************************************************)
EXTENDS SharedMemoryClient, FiniteSetTheorems, SequenceTheorems, TLAPS

Phase == {"idle", "create", "write", "register", "infer", "clean", "unregister", "pop",
          "destroy", "untrack", "flag", "copy", "close", "done"}

ClientTypes ==
    /\ pc \in [Thread -> Phase] /\ call \in [Callers -> 1..Calls]
    /\ todo \in [Thread -> Seq(Region)]
    /\ tracked \in Seq(Region) /\ handles \in SUBSET Region
    /\ closed \in BOOLEAN /\ gone \in BOOLEAN /\ closing \in SUBSET Closers
    /\ local \in SUBSET Region /\ known \in SUBSET Region
    /\ undestroyed \in SUBSET Region /\ unforgotten \in SUBSET Region

\* The loop of _cleanup_regions has a region at hand.
AtRegion(t) == pc[t] \in {"unregister", "pop", "destroy", "untrack"}

\* How much of its list a thread has, by phase.
ListInv(t) ==
    /\ t \in Callers => pc[t] \notin {"flag", "copy", "close"}
    /\ t \in Closers => pc[t] \notin {"create", "write", "register", "infer"}
    /\ pc[t] \in {"idle", "flag", "copy", "close", "done"} => todo[t] = <<>>
    /\ pc[t] = "create" => Len(todo[t]) < Inputs + Outputs
    /\ pc[t] = "write" => Len(todo[t]) \in 1..Inputs
    /\ pc[t] = "register" => Len(todo[t]) \in 1..(Inputs + Outputs)
    /\ AtRegion(t) => Len(todo[t]) > 0
    /\ t \in Callers => Len(todo[t]) <= Inputs + Outputs

TypeInv == ClientTypes /\ \A t \in Thread : ListInv(t)

\* Sequences as lists: their elements, and that no two are equal.
Has(s, r) == \E i \in 1..Len(s) : s[i] = r
NoneTwice(s) == \A i, j \in 1..Len(s) : s[i] = s[j] => i = j

Listed(r, t) == Has(todo[t], r)
Tracked(r) == Has(tracked, r)

\* t cleans up r first, and then q, or they are the same.
Then(r, q, t) == \E i, j \in 1..Len(todo[t]) : i <= j /\ todo[t][i] = q /\ todo[t][j] = r

\* A region that the client, or a thread, still has.
InUse(r) == r \in handles \/ Tracked(r) \/ \E t \in Thread : Listed(r, t)

\* A call cleans up its own regions only.
OwnRegions == \A t \in Callers, r \in Region : Listed(r, t) => r[1] = t

\* The region that a call creates next is a new one.
Fresh ==
    \A t \in Callers, r \in Region : InUse(r) /\ r[1] = t =>
        /\ r[2] <= call[t]
        /\ pc[t] = "idle" => r[2] < call[t]
        /\ pc[t] \in {"create", "write", "register"} /\ r[2] = call[t] => r[3] <= Len(todo[t])

\* Regions are tracked once.
Distinct == NoneTwice(tracked)

\* t has taken the handle of its region, and has yet to take it off the list.
Holds(t) == pc[t] \in {"destroy", "untrack"}

\* Somebody will clean up every region that is left.
Covered ==
    /\ \A r \in handles : Tracked(r) /\ \E t \in Thread : Listed(r, t)
    /\ \A r \in Region : Tracked(r) /\ r \notin handles =>
           \E t \in Thread : Holds(t) /\ Current(t) = r
    /\ \A r \in local : r \in undestroyed \/ r \in handles \/
           \E t \in Thread : pc[t] = "destroy" /\ Current(t) = r
    /\ \A t \in Thread : Holds(t) => Current(t) \notin handles

\* Two threads that have a region in common have all in common that the one
\* cleans up after it.
Shared ==
    \A t, u \in Thread : \A r, q \in Region :
        t # u /\ Then(r, q, t) /\ Listed(r, u) /\ q \in handles => Listed(q, u)

\* Another thread has taken the region that t is about to pop: t will raise.
Late(t) == pc[t] \in {"unregister", "pop"} /\ Current(t) \notin handles

\* The rest of its list is on others', who will not raise themselves.
Relieved ==
    \A t \in Thread : Late(t) =>
        /\ \A u \in Thread \ {t} : ~Late(u)
        /\ \A r \in handles : Listed(r, t) => \E u \in Thread \ {t} : Listed(r, u)

\* Nobody has closed or cleaned up the client from outside.
CallsOnly == \A t \in Closers : pc[t] = "idle"

\* At most two threads are inside, or there are only calls.
TwoInside ==
    /\ IsFiniteSet(Inside)
    /\ CallsOnly \/ \A t, u, v \in Inside : t = u \/ u = v \/ t = v

CleanupInv == OwnRegions /\ Fresh /\ Distinct /\ Covered /\ Shared /\ Relieved

\* A registration outlives its region only if its unregister call failed.
StaleInv ==
    /\ known \ local \subseteq unforgotten
    /\ \A t \in Callers : pc[t] \in {"pop", "destroy"} /\ Current(t) \in known
                             => Current(t) \in unforgotten

----------------------------------------------------------------------------
(* Lists                                                                    *)

\* Taking out one element moves those after it.
LEMMA RemoveAtFacts ==
  ASSUME NEW S, NEW s \in Seq(S), NEW i \in 1..Len(s)
  PROVE  /\ RemoveAt(s, i) \in Seq(S) /\ Len(RemoveAt(s, i)) = Len(s) - 1
         /\ \A k \in 1..(Len(s) - 1) : RemoveAt(s, i)[k] = IF k < i THEN s[k] ELSE s[k + 1]
<1> DEFINE a == SubSeq(s, 1, i - 1)
           b == SubSeq(s, i + 1, Len(s))
<1>0. Len(s) \in Nat /\ i - 1 \in 0..Len(s) /\ i + 1 \in 1..(Len(s) + 1)
  OBVIOUS
<1>1. a \in Seq(S) /\ Len(a) = i - 1 /\ \A k \in 1..(i - 1) : a[k] = s[k]
  BY <1>0
<1>2. b \in Seq(S) /\ Len(b) = Len(s) - i /\ \A k \in 1..(Len(s) - i) : b[k] = s[k + i]
  BY <1>0
<1>3. RemoveAt(s, i) = a \o b
  BY DEF RemoveAt
<1> HIDE DEF a, b
<1>4. a \o b \in Seq(S) /\ Len(a \o b) = Len(a) + Len(b)
  BY <1>1, <1>2, ConcatProperties
<1>5. ASSUME NEW k \in 1..(Len(s) - 1)
      PROVE  (a \o b)[k] = IF k <= Len(a) THEN a[k] ELSE b[k - Len(a)]
  <2>1. k \in 1..(Len(a) + Len(b))
    BY <1>0, <1>1, <1>2
  <2> QED
    BY <1>1, <1>2, <2>1, ConcatProperties
<1>6. Len(a) = i - 1 /\ Len(a \o b) = Len(s) - 1
  BY <1>0, <1>1, <1>2, <1>4
<1>7. ASSUME NEW k \in 1..(Len(s) - 1)
      PROVE  (a \o b)[k] = IF k < i THEN s[k] ELSE s[k + 1]
  <2>1. CASE k < i
    BY <1>0, <1>1, <1>5, <1>6, <2>1
  <2>2. CASE ~(k < i)
    <3>1. (a \o b)[k] = b[k - (i - 1)] /\ k - (i - 1) \in 1..(Len(s) - i)
      BY <1>0, <1>5, <1>6, <2>2
    <3>2. b[k - (i - 1)] = s[(k - (i - 1)) + i] /\ (k - (i - 1)) + i = k + 1
      BY <1>0, <1>2, <3>1
    <3> QED
      BY <2>2, <3>1, <3>2
  <2> QED
    BY <2>1, <2>2
<1> QED
  BY <1>3, <1>4, <1>6, <1>7

\* list.remove takes out the element, where there is one of it.
LEMMA RemoveFirstIs ==
  ASSUME NEW S, NEW s \in Seq(S), NEW i \in 1..Len(s),
         \A k \in 1..Len(s) : s[k] = s[i] => k = i
  PROVE  RemoveFirst(s, s[i]) = RemoveAt(s, i)
<1>1. {k \in DOMAIN s : s[k] = s[i]} = {i}
  OBVIOUS
<1>2. Min({i}) = i
  BY DEF Min
<1>3. SelectInSeq(s, LAMBDA v : v = s[i]) = i
  BY <1>1, <1>2 DEF SelectInSeq
<1> QED
  BY <1>3 DEF RemoveFirst

LEMMA RemoveNothing ==
  ASSUME NEW S, NEW s \in Seq(S), NEW x, \A k \in 1..Len(s) : s[k] # x
  PROVE  RemoveFirst(s, x) = s
BY DEF RemoveFirst

\* What list.remove leaves of a list without duplicates.
LEMMA RemoveFirstFacts ==
  ASSUME NEW S, NEW s \in Seq(S), NEW x, NoneTwice(s)
  PROVE  /\ RemoveFirst(s, x) \in Seq(S) /\ NoneTwice(RemoveFirst(s, x))
         /\ \A r : Has(RemoveFirst(s, x), r) <=> r # x /\ Has(s, r)
<1>1. CASE \A k \in 1..Len(s) : s[k] # x
  BY <1>1, RemoveNothing DEF Has
<1>2. ASSUME NEW n \in 1..Len(s), s[n] = x
      PROVE  /\ RemoveFirst(s, x) \in Seq(S) /\ NoneTwice(RemoveFirst(s, x))
             /\ \A r : Has(RemoveFirst(s, x), r) <=> r # x /\ Has(s, r)
  <2> DEFINE z == RemoveFirst(s, x)
  <2>1. /\ z \in Seq(S) /\ Len(z) = Len(s) - 1 /\ Len(s) \in Nat
        /\ \A k \in 1..(Len(s) - 1) : z[k] = IF k < n THEN s[k] ELSE s[k + 1]
    <3>1. z = RemoveAt(s, n)
      BY <1>2, RemoveFirstIs DEF NoneTwice
    <3>2. Len(s) \in Nat
      OBVIOUS
    <3> HIDE DEF z
    <3> QED
      BY <3>1, <3>2, RemoveAtFacts
  <2> HIDE DEF z
  <2>2. ASSUME NEW i \in 1..Len(z), NEW j \in 1..Len(z), z[i] = z[j] PROVE i = j
    <3>1. /\ i \in 1..Len(s) /\ i + 1 \in 1..Len(s) /\ j \in 1..Len(s) /\ j + 1 \in 1..Len(s)
          /\ i \in 1..(Len(s) - 1) /\ j \in 1..(Len(s) - 1)
      BY <2>1
    <3>2. PICK a \in {i, i + 1}, b \in {j, j + 1} :
             /\ z[i] = s[a] /\ z[j] = s[b] /\ a = (IF i < n THEN i ELSE i + 1)
             /\ b = (IF j < n THEN j ELSE j + 1)
      BY <2>1, <3>1
    <3>3. a = b
      BY <2>2, <3>1, <3>2 DEF NoneTwice
    <3> QED
      BY <3>1, <3>2, <3>3
  <2>3. ASSUME NEW r, NEW i \in 1..Len(z), z[i] = r
        PROVE  r # x /\ \E k \in 1..Len(s) : s[k] = r
    <3>1. i \in 1..(Len(s) - 1) /\ i \in 1..Len(s) /\ i + 1 \in 1..Len(s)
      BY <2>1
    <3>2. PICK a \in 1..Len(s) : s[a] = r /\ a # n
      BY <2>1, <2>3, <3>1
    <3>3. r # x
      BY <1>2, <3>2 DEF NoneTwice
    <3> QED
      BY <3>2, <3>3
  <2>4. ASSUME NEW r, r # x, NEW k \in 1..Len(s), s[k] = r
        PROVE  \E i \in 1..Len(z) : z[i] = r
    <3>1. CASE k < n
      BY <2>1, <2>4, <3>1
    <3>2. CASE ~(k < n)
      <4>1. k - 1 \in 1..(Len(s) - 1) /\ ~(k - 1 < n) /\ (k - 1) + 1 = k
        BY <1>2, <2>1, <2>4, <3>2
      <4> QED
        BY <2>1, <2>4, <4>1
    <3> QED
      BY <3>1, <3>2
  <2> QED
    BY <2>1, <2>2, <2>3, <2>4 DEF z, Has, NoneTwice
<1> QED
  BY <1>1, <1>2

----------------------------------------------------------------------------
(* Types                                                                    *)

LEMMA RegionFacts ==
  /\ \A t \in Callers, c \in 1..Calls, i \in 1..(Inputs + Outputs) : <<t, c, i>> \in Region
  /\ \A r \in Region : r[1] \in Callers /\ r[2] \in 1..Calls /\ r[3] \in 1..(Inputs + Outputs)
                       /\ r = <<r[1], r[2], r[3]>>
BY DEF Region

\* The region at hand is the last of the list, and all others come after it.
LEMMA CurrentListed ==
  ASSUME ClientTypes, NEW t \in Thread, Len(todo[t]) > 0
  PROVE  /\ Current(t) \in Region /\ Listed(Current(t), t)
         /\ \A q : Listed(q, t) => Then(Current(t), q, t)
<1>1. todo[t] \in Seq(Region) /\ Len(todo[t]) \in 1..Len(todo[t])
  BY DEF ClientTypes
<1>2. Current(t) \in Region /\ Listed(Current(t), t)
  BY <1>1 DEF Current, At, Listed, Has
<1>3. ASSUME NEW q, NEW i \in 1..Len(todo[t]), todo[t][i] = q PROVE Then(Current(t), q, t)
  BY <1>1, <1>3 DEF Current, At, Then
<1> QED
  BY <1>2, <1>3 DEF Listed, Has

\* The regions of a list are regions.
LEMMA ListedIsRegion ==
  ASSUME ClientTypes, NEW t \in Thread, NEW r, Listed(r, t)
  PROVE  r \in Region /\ Len(todo[t]) > 0
BY DEF ClientTypes, Listed, Has

LEMMA TrackedIsRegion ==
  ASSUME ClientTypes, NEW r, Tracked(r)
  PROVE  r \in Region
BY DEF ClientTypes, Tracked, Has

\* A list that does not change.
LEMMA SameList ==
  ASSUME NEW t, todo'[t] = todo[t]
  PROVE  /\ \A r : Listed(r, t)' <=> Listed(r, t)
         /\ \A r, q : Then(r, q, t)' <=> Then(r, q, t)
         /\ Current(t)' = Current(t)
BY DEF Listed, Has, Then, Current, At

\* A list that is given up.
LEMMA EmptyList ==
  ASSUME NEW t, todo'[t] = <<>>
  PROVE  /\ \A r : ~Listed(r, t)'
         /\ \A r, q : ~Then(r, q, t)'
BY DEF Listed, Has, Then

\* A list without its last region.
LEMMA ShorterList ==
  ASSUME ClientTypes, NEW t \in Thread, Len(todo[t]) > 0, todo'[t] = Rest(t)
  PROVE  /\ todo'[t] \in Seq(Region) /\ Len(todo'[t]) = Len(todo[t]) - 1
         /\ \A r : Listed(r, t)' => Listed(r, t)
         /\ \A r : Listed(r, t) => Listed(r, t)' \/ r = Current(t)
         /\ \A r, q : Then(r, q, t)' => Then(r, q, t)
<1> DEFINE n == Len(todo[t])
<1>1. todo[t] \in Seq(Region) /\ n \in Nat /\ n \in 1..n
  BY DEF ClientTypes
<1>2. /\ Rest(t) \in Seq(Region) /\ Len(Rest(t)) = n - 1
      /\ \A k \in 1..(n - 1) : Rest(t)[k] = IF k < n THEN todo[t][k] ELSE todo[t][k + 1]
  BY <1>1, RemoveAtFacts DEF Rest, At
<1>3. /\ todo'[t] \in Seq(Region) /\ Len(todo'[t]) = n - 1
      /\ \A k \in 1..(n - 1) : k \in 1..n /\ todo'[t][k] = todo[t][k]
  BY <1>1, <1>2
<1>4. ASSUME NEW r, Listed(r, t)' PROVE Listed(r, t)
  BY <1>1, <1>3, <1>4 DEF Listed, Has
<1>5. ASSUME NEW r, Listed(r, t), r # Current(t) PROVE Listed(r, t)'
  <2>1. PICK k \in 1..n : todo[t][k] = r
    BY <1>5 DEF Listed, Has
  <2>2. k \in 1..(n - 1)
    BY <1>1, <1>5, <2>1 DEF Current, At
  <2> QED
    BY <1>3, <2>1, <2>2 DEF Listed, Has
<1>6. ASSUME NEW r, NEW q, Then(r, q, t)' PROVE Then(r, q, t)
  BY <1>1, <1>3, <1>6 DEF Then
<1> QED
  BY <1>3, <1>4, <1>5, <1>6

\* A list with one region more.
LEMMA LongerList ==
  ASSUME ClientTypes, NEW t \in Thread, NEW x \in Region, todo'[t] = Append(todo[t], x)
  PROVE  /\ todo'[t] \in Seq(Region) /\ Len(todo'[t]) = Len(todo[t]) + 1
         /\ \A r : Listed(r, t)' <=> Listed(r, t) \/ r = x
         /\ \A r, q : Then(r, q, t)' => Then(r, q, t) \/ r = x
<1> DEFINE n == Len(todo[t])
<1>1. todo[t] \in Seq(Region) /\ n \in Nat
  BY DEF ClientTypes
<1>2. /\ todo'[t] \in Seq(Region) /\ Len(todo'[t]) = n + 1
      /\ \A k \in 1..n : k \in 1..(n + 1) /\ todo'[t][k] = todo[t][k]
      /\ n + 1 \in 1..(n + 1) /\ todo'[t][n + 1] = x
      /\ \A k \in 1..(n + 1) : k \in 1..n \/ k = n + 1
  BY <1>1
<1> HIDE DEF n
<1>3. \A r : Listed(r, t)' <=> Listed(r, t) \/ r = x
  BY <1>2 DEF Listed, Has, n
<1>4. ASSUME NEW r, NEW q, Then(r, q, t)', r # x PROVE Then(r, q, t)
  <2>1. PICK i \in 1..(n + 1), j \in 1..(n + 1) : i <= j /\ todo'[t][i] = q /\ todo'[t][j] = r
    BY <1>2, <1>4 DEF Then
  <2>2. j \in 1..n /\ i \in 1..n
    BY <1>1, <1>2, <1>4, <2>1 DEF n
  <2> QED
    BY <1>2, <2>1, <2>2 DEF Then, n
<1> QED
  BY <1>2, <1>3, <1>4 DEF n

\* A step of one thread.
OthersWait(t) == \A u \in Thread \ {t} : pc'[u] = pc[u] /\ todo'[u] = todo[u]

LEMMA OneMoves ==
  ASSUME TypeInv, NEW t \in Thread, ClientTypes', OthersWait(t), ListInv(t)'
  PROVE  TypeInv'
<1>1. ASSUME NEW u \in Thread \ {t} PROVE ListInv(u)'
  BY <1>1 DEF TypeInv, OthersWait, ListInv, AtRegion
<1> QED
  BY <1>1 DEF TypeInv

LEMMA NoneLeft == Len(<<>>) <= Inputs + Outputs
BY SharedMemoryAssumption

\* What the end of a cleanup does.
LEMMA ReturnFacts ==
  ASSUME TypeInv, NEW t \in Thread, Return(t)
  PROVE  /\ pc'[t] \in {"idle", "done"} /\ pc' \in [Thread -> Phase]
         /\ todo'[t] = <<>> /\ todo' \in [Thread -> Seq(Region)]
         /\ call' \in [Callers -> 1..Calls]
         /\ OthersWait(t)
         /\ \A u \in Callers : u # t => call'[u] = call[u]
         /\ t \in Callers => \/ pc'[t] = "idle" /\ call'[t] = call[t] + 1
                             \/ pc'[t] = "done" /\ call'[t] = call[t]
<1>1. ClientTypes /\ Calls \in Nat
  BY SharedMemoryAssumption DEF TypeInv
<1>2. todo' = [todo EXCEPT ![t] = <<>>] /\ <<>> \in Seq(Region)
  BY DEF Return
<1>3. PICK phase \in {"idle", "done"} :
         /\ pc' = [pc EXCEPT ![t] = phase]
         /\ t \in Callers => phase = IF call[t] < Calls THEN "idle" ELSE "done"
  BY DEF Return, Goto
<1>4. /\ pc'[t] = phase /\ pc' \in [Thread -> Phase] /\ todo'[t] = <<>>
      /\ todo' \in [Thread -> Seq(Region)] /\ OthersWait(t)
  BY <1>1, <1>2, <1>3 DEF ClientTypes, OthersWait, Phase
<1>5. CASE t \in Callers
  <2>1. call' = [call EXCEPT ![t] = IF call[t] < Calls THEN call[t] + 1 ELSE call[t]]
    BY <1>5 DEF Return
  <2>2. call[t] \in 1..Calls /\ (call[t] < Calls => call[t] + 1 \in 1..Calls)
    BY <1>1, <1>5 DEF ClientTypes
  <2>3. call' \in [Callers -> 1..Calls] /\ \A u \in Callers : u # t => call'[u] = call[u]
    BY <1>1, <1>5, <2>1, <2>2 DEF ClientTypes
  <2>4. call'[t] = IF call[t] < Calls THEN call[t] + 1 ELSE call[t]
    BY <1>1, <1>5, <2>1 DEF ClientTypes
  <2> QED
    BY <1>3, <1>4, <1>5, <2>2, <2>3, <2>4
<1>6. CASE t \notin Callers
  BY <1>1, <1>3, <1>4, <1>6 DEF Return, ClientTypes
<1> QED
  BY <1>5, <1>6

LEMMA InitTypes == Init => TypeInv
<1> SUFFICES ASSUME Init PROVE TypeInv
  OBVIOUS
<1>1. 1 \in 1..Calls /\ <<>> \in Seq(Region)
  BY SharedMemoryAssumption
<1>2. ClientTypes
  BY <1>1 DEF Init, ClientTypes, Phase
<1>3. ASSUME NEW t \in Thread PROVE ListInv(t)
  <2>1. pc[t] = "idle" /\ todo[t] = <<>>
    BY <1>3 DEF Init
  <2> QED
    BY <2>1, NoneLeft DEF ListInv, AtRegion
<1> QED
  BY <1>2, <1>3 DEF TypeInv

\* The creation of a region.
Creates(t) == Create(t) /\ todo' # todo
NewRegion(t) == <<t, call[t], Len(todo[t]) + 1>>

LEMMA CreateFacts ==
  ASSUME TypeInv, NEW t \in Callers, Creates(t)
  PROVE  /\ NewRegion(t) \in Region /\ pc[t] = "create" /\ pc'[t] \in {"write", "register"}
         /\ local' = local \cup {NewRegion(t)} /\ handles' = handles \cup {NewRegion(t)}
         /\ tracked' = Append(tracked, NewRegion(t))
         /\ todo'[t] = Append(todo[t], NewRegion(t))
         /\ OthersWait(t) /\ UNCHANGED <<call, known, ghostVars, closed, gone, closing>>
         /\ TypeInv'
<1>0. t \in Thread /\ ClientTypes /\ ListInv(t) /\ pc[t] = "create"
  BY DEF Thread, TypeInv, Creates, Create
<1>1. /\ Inputs \in Nat /\ Outputs \in Nat /\ Inputs > 0 /\ Outputs > 0
      /\ todo[t] \in Seq(Region) /\ Len(todo[t]) \in Nat /\ Len(todo[t]) < Inputs + Outputs
      /\ call[t] \in 1..Calls
  BY <1>0, SharedMemoryAssumption DEF ListInv, ClientTypes
<1>2. Len(todo[t]) + 1 \in 1..(Inputs + Outputs)
  BY <1>1
<1>3. NewRegion(t) \in Region
  BY <1>1, <1>2, RegionFacts DEF NewRegion
<1>4. PICK phase \in {"write", "register"} :
         /\ pc' = [pc EXCEPT ![t] = phase]
         /\ phase = IF Len(todo[t]) < Inputs THEN "write" ELSE "register"
         /\ local' = local \cup {NewRegion(t)} /\ handles' = handles \cup {NewRegion(t)}
         /\ tracked' = Append(tracked, NewRegion(t))
         /\ todo' = [todo EXCEPT ![t] = Append(todo[t], NewRegion(t))]
         /\ UNCHANGED <<call, known, ghostVars, closed, gone, closing>>
  BY DEF Creates, Create, Goto, NewRegion, ownVars
<1>5. Append(todo[t], NewRegion(t)) \in Seq(Region) /\ Append(tracked, NewRegion(t)) \in Seq(Region)
  BY <1>0, <1>1, <1>3 DEF ClientTypes
<1>6. /\ pc'[t] = phase /\ todo'[t] = Append(todo[t], NewRegion(t)) /\ OthersWait(t)
  BY <1>0, <1>4 DEF ClientTypes, OthersWait
<1>7. ClientTypes'
  BY <1>0, <1>3, <1>4, <1>5 DEF ClientTypes, Phase, ghostVars
<1>8. Len(todo'[t]) = Len(todo[t]) + 1
  BY <1>1, <1>6
<1>9. ListInv(t)'
  <2>1. phase = "write" => Len(todo'[t]) \in 1..Inputs
    BY <1>1, <1>4, <1>8
  <2>2. phase = "register" => Len(todo'[t]) \in 1..(Inputs + Outputs)
    BY <1>1, <1>2, <1>8
  <2>3. t \notin Closers
    BY SharedMemoryAssumption
  <2> QED
    BY <1>1, <1>4, <1>6, <1>8, <2>1, <2>2, <2>3 DEF ListInv, AtRegion
<1> QED
  BY <1>0, <1>3, <1>4, <1>6, <1>7, <1>9, OneMoves

\* Creation that fails changes nothing.
LEMMA NoCreation ==
  ASSUME TypeInv, NEW t \in Callers, Create(t), ~Creates(t)
  PROVE  /\ Goto(t, "clean") /\ pc[t] = "create"
         /\ UNCHANGED <<call, todo, tracked, handles, local, undestroyed, closed, gone, closing,
                        known, unforgotten>>
<1>0. todo[t] \in Seq(Region) /\ Len(todo[t]) \in Nat /\ todo \in [Thread -> Seq(Region)]
      /\ t \in Thread
  BY DEF TypeInv, ClientTypes, Thread
<1>1. Append(todo[t], NewRegion(t)) # todo[t]
  <2>1. \A x : Len(Append(todo[t], x)) = Len(todo[t]) + 1
    BY <1>0
  <2> QED
    BY <1>0, <2>1
<1>2. UNCHANGED todo
  BY DEF Creates
<1>3. ~(todo' = [todo EXCEPT ![t] = Append(todo[t], NewRegion(t))])
  BY <1>0, <1>1, <1>2
<1> QED
  BY <1>0, <1>2, <1>3 DEF Create, NewRegion, ownVars, listVars, ghostVars

\* The steps that leave the lists and the handles alone.
GoesOn(t) ==
    \/ /\ t \in Callers
       /\ Begin(t) \/ (Create(t) /\ ~Creates(t)) \/ Write(t) \/ Register(t) \/ Infer(t)
    \/ t \in Closers /\ (Close(t) \/ CloseFlag(t) \/ CloseClient(t))
    \/ NextRegion(t) /\ UNCHANGED todo /\ pc'[t] \in {"unregister", "close"}
    \/ Unregister(t)

LEMMA GoesOnFacts ==
  ASSUME TypeInv, NEW t \in Thread, GoesOn(t)
  PROVE  /\ UNCHANGED <<call, todo, tracked, handles, local, undestroyed>> /\ OthersWait(t)
         /\ ~Holds(t) /\ ~Holds(t)' /\ pc'[t] # "idle"
         /\ pc'[t] \in {"create", "write", "register"} =>
                pc[t] \in {"idle", "create", "write", "register"}
         /\ pc'[t] \in {"unregister", "pop"} =>
                pc[t] = "unregister" \/ (pc[t] = "clean" /\ Current(t) \in handles)
         /\ TypeInv'
<1>0. /\ ClientTypes /\ ListInv(t) /\ Inputs \in Nat /\ Outputs \in Nat /\ Inputs > 0 /\ Outputs > 0
      /\ ~(t \in Callers /\ t \in Closers) /\ todo[t] \in Seq(Region) /\ Len(todo[t]) \in Nat
  BY SharedMemoryAssumption DEF TypeInv, ClientTypes
<1> DEFINE Goal == /\ UNCHANGED <<call, todo, tracked, handles, local, undestroyed>>
                   /\ closed' \in BOOLEAN /\ gone' \in BOOLEAN /\ closing' \in SUBSET Closers
                   /\ known' \in SUBSET Region /\ unforgotten' \in SUBSET Region
           Hop(from, to) == pc[t] = from /\ pc' = [pc EXCEPT ![t] = to]
<1>1. ASSUME t \in Callers, Begin(t)
      PROVE  Goal /\ \E to \in {"create", "done"} : Hop("idle", to)
  BY <1>0, <1>1 DEF Begin, Goto, ownVars, listVars, ghostVars, ClientTypes
<1>2. ASSUME t \in Callers, Create(t), ~Creates(t)
      PROVE  Goal /\ Hop("create", "clean")
  BY <1>0, <1>2, NoCreation DEF Goto, ClientTypes
<1>3. ASSUME t \in Callers, Write(t)
      PROVE  Goal /\ \E to \in {"clean", "register"} : Hop("write", to)
  BY <1>0, <1>3 DEF Write, Goto, ownVars, listVars, ghostVars, ClientTypes
<1>4. ASSUME t \in Callers, Register(t)
      PROVE  /\ Goal
             /\ \E to \in {"clean", "infer", "create"} :
                   Hop("register", to) /\ (to = "create" => Len(todo[t]) # Inputs + Outputs)
  <2>1. known' \in SUBSET Region
    BY <1>0, <1>4 DEF Register, ClientTypes
  <2> QED
    BY <1>0, <1>4, <2>1 DEF Register, Goto, ownVars, listVars, ghostVars, ClientTypes
<1>5. ASSUME t \in Callers, Infer(t) PROVE Goal /\ Hop("infer", "clean")
  BY <1>0, <1>5 DEF Infer, Goto, ownVars, listVars, ghostVars, ClientTypes
<1>6. ASSUME t \in Closers, Close(t) \/ CloseFlag(t)
      PROVE  Goal /\ (Hop("flag", "copy") \/ \E to \in {"flag", "done"} : Hop("idle", to))
  BY <1>0, <1>6 DEF Close, CloseFlag, Goto, listVars, ghostVars, ClientTypes
<1>7. ASSUME t \in Closers, CloseClient(t) PROVE Goal /\ Hop("close", "done")
  BY <1>0, <1>7 DEF CloseClient, Goto, listVars, ghostVars, ClientTypes
<1>8. ASSUME NextRegion(t), UNCHANGED todo, pc'[t] \in {"unregister", "close"}
      PROVE  /\ Goal
             /\ \/ Hop("clean", "unregister") /\ todo[t] # <<>> /\ Current(t) \in handles
                \/ Hop("clean", "close") /\ todo[t] = <<>> /\ t \in closing
  <2>1. CASE todo[t] = <<>>
    <3>1. ~Return(t)
      <4>1. ASSUME Return(t) PROVE FALSE
        BY <4>1, <1>8, ReturnFacts
      <4> QED
        BY <4>1
    <3> QED
      BY <1>0, <1>8, <2>1, <3>1 DEF NextRegion, Goto, listVars, ghostVars, ClientTypes
  <2>2. CASE todo[t] # <<>>
    <3>1. CASE Current(t) \in handles
      BY <1>0, <1>8, <2>2, <3>1 DEF NextRegion, Goto, listVars, ghostVars, ClientTypes
    <3>2. CASE Current(t) \notin handles
      <4>1. pc[t] = "clean" /\ UNCHANGED pc
        BY <1>8, <2>2, <3>2 DEF NextRegion
      <4> QED
        BY <4>1, <1>8
    <3> QED
      BY <3>1, <3>2
  <2> QED
    BY <2>1, <2>2
<1>9. ASSUME Unregister(t) PROVE Goal /\ Hop("unregister", "pop")
  BY <1>0, <1>9 DEF Unregister, Goto, ownVars, listVars, ClientTypes
<1>10. Goal /\ OthersWait(t)
  BY <1>0, <1>1, <1>2, <1>3, <1>4, <1>5, <1>6, <1>7, <1>8, <1>9
  DEF GoesOn, OthersWait, ClientTypes
<1>11. PICK from \in Phase, to \in Phase :
          /\ pc[t] = from /\ pc' = [pc EXCEPT ![t] = to]
          /\ from \notin {"destroy", "untrack"} /\ to \notin {"destroy", "untrack", "idle"}
          /\ to \in {"create", "write", "register", "infer"} =>
                t \in Callers /\ from \in {"idle", "create", "write", "register"}
          /\ to \in {"flag", "copy", "close"} => t \in Closers
          /\ to \in {"flag", "copy", "close", "done"} => todo[t] = <<>>
          /\ to = "create" => Len(todo[t]) < Inputs + Outputs
          /\ to # "write"
          /\ to = "register" => Len(todo[t]) \in 1..(Inputs + Outputs)
          /\ to \in {"unregister", "pop"} =>
                from = "unregister" \/ (from = "clean" /\ Current(t) \in handles)
          /\ to \in {"unregister", "pop"} => Len(todo[t]) > 0
  <2>1. CASE t \in Callers /\ Begin(t)
    BY <1>0, <1>1, <2>1 DEF Phase, ListInv
  <2>2. CASE t \in Callers /\ Create(t) /\ ~Creates(t)
    BY <1>0, <1>2, <2>2 DEF Phase
  <2>3. CASE t \in Callers /\ Write(t)
    BY <1>0, <1>3, <2>3 DEF Phase, ListInv
  <2>4. CASE t \in Callers /\ Register(t)
    BY <1>0, <1>4, <2>4 DEF Phase, ListInv
  <2>5. CASE t \in Callers /\ Infer(t)
    BY <1>0, <1>5, <2>5 DEF Phase
  <2>6. CASE t \in Closers /\ (Close(t) \/ CloseFlag(t))
    BY <1>0, <1>6, <2>6 DEF Phase, ListInv
  <2>7. CASE t \in Closers /\ CloseClient(t)
    BY <1>0, <1>7, <2>7 DEF Phase, ListInv
  <2>8. CASE NextRegion(t) /\ UNCHANGED todo /\ pc'[t] \in {"unregister", "close"}
    <3>1. todo[t] # <<>> => Len(todo[t]) > 0
      BY <1>0
    <3>2. closing \in SUBSET Closers
      BY <1>0 DEF ClientTypes
    <3> QED
      BY <1>0, <1>8, <2>8, <3>1, <3>2 DEF Phase
  <2>9. CASE Unregister(t)
    BY <1>0, <1>9, <2>9 DEF Phase, ListInv, AtRegion
  <2> QED
    BY <2>1, <2>2, <2>3, <2>4, <2>5, <2>6, <2>7, <2>8, <2>9 DEF GoesOn
<1>12. pc'[t] = to /\ ClientTypes'
  BY <1>0, <1>10, <1>11 DEF ClientTypes
<1>13. ListInv(t)'
  BY <1>0, <1>10, <1>11, <1>12 DEF ListInv, AtRegion
<1> HIDE DEF Goal, Hop
<1>14. TypeInv'
  BY <1>10, <1>12, <1>13, OneMoves
<1> QED
  BY <1>10, <1>11, <1>12, <1>14 DEF Holds, Goal

\* A region that is done, or that another thread has taken, leaves the list.
Drops(t) == (NextRegion(t) /\ pc'[t] = "clean") \/ Untrack(t)

LEMMA DropsFacts ==
  ASSUME TypeInv, NEW t \in Thread, Drops(t), Distinct
  PROVE  /\ Len(todo[t]) > 0 /\ todo'[t] = Rest(t) /\ OthersWait(t)
         /\ pc[t] = "clean" => Current(t) \notin handles
         /\ pc[t] \in {"clean", "untrack"} /\ pc'[t] = "clean"
         /\ UNCHANGED <<call, handles, local, undestroyed>>
         /\ Distinct'
         /\ \A r : Tracked(r)' <=> Tracked(r) /\ (r # Current(t) \/ pc[t] = "clean")
         /\ TypeInv'
<1>0. ClientTypes /\ ListInv(t)
  BY DEF TypeInv
<1>1. /\ Len(todo[t]) > 0 /\ todo' = [todo EXCEPT ![t] = Rest(t)]
      /\ pc' = [pc EXCEPT ![t] = "clean"]
      /\ UNCHANGED <<call, handles, local, undestroyed, known, unforgotten, closed, gone, closing>>
      /\ \/ pc[t] = "clean" /\ UNCHANGED tracked /\ Current(t) \notin handles
         \/ pc[t] = "untrack" /\ tracked' = RemoveFirst(tracked, Current(t))
  <2>1. CASE NextRegion(t) /\ pc'[t] = "clean"
    <3>1. todo[t] # <<>> /\ Current(t) \notin handles
      <4>1. CASE todo[t] = <<>>
        <5>1. CASE Return(t)
          BY <2>1, <5>1, ReturnFacts
        <5>2. CASE Goto(t, "close")
          BY <1>0, <2>1, <5>2 DEF Goto, ClientTypes
        <5> QED
          BY <2>1, <4>1, <5>1, <5>2 DEF NextRegion
      <4>2. CASE todo[t] # <<>> /\ Current(t) \in handles
        BY <1>0, <2>1, <4>2 DEF NextRegion, Goto, ClientTypes
      <4> QED
        BY <4>1, <4>2
    <3>2. Len(todo[t]) > 0
      BY <1>0, <3>1 DEF ClientTypes
    <3>3. /\ todo' = [todo EXCEPT ![t] = Rest(t)] /\ pc[t] = "clean" /\ UNCHANGED <<pc, call>>
          /\ UNCHANGED <<closed, gone, closing, listVars, local, known, ghostVars>>
      BY <2>1, <3>1 DEF NextRegion
    <3>4. pc' = [pc EXCEPT ![t] = "clean"]
      BY <1>0, <3>3 DEF ClientTypes
    <3> QED
      BY <3>1, <3>2, <3>3, <3>4 DEF listVars, ghostVars
  <2>2. CASE Untrack(t)
    BY <1>0, <2>2 DEF Untrack, Goto, ListInv, AtRegion, ownVars, ghostVars
  <2> QED
    BY <2>1, <2>2 DEF Drops
<1>2. todo'[t] = Rest(t) /\ pc'[t] = "clean" /\ OthersWait(t)
  BY <1>0, <1>1 DEF ClientTypes, OthersWait
<1>3. Rest(t) \in Seq(Region) /\ Len(todo'[t]) = Len(todo[t]) - 1
  BY <1>0, <1>1, <1>2, ShorterList
<1>4. /\ tracked' \in Seq(Region) /\ Distinct'
      /\ \A r : Tracked(r)' <=> Tracked(r) /\ (r # Current(t) \/ pc[t] = "clean")
  <2>1. CASE UNCHANGED tracked /\ pc[t] = "clean"
    BY <1>0, <2>1 DEF Distinct, Tracked, ClientTypes
  <2>2. CASE tracked' = RemoveFirst(tracked, Current(t)) /\ pc[t] = "untrack"
    <3>1. tracked \in Seq(Region)
      BY <1>0 DEF ClientTypes
    <3> QED
      BY <2>2, <3>1, RemoveFirstFacts DEF Distinct, Tracked
  <2> QED
    BY <1>1, <2>1, <2>2
<1>5. ClientTypes'
  BY <1>0, <1>1, <1>3, <1>4 DEF ClientTypes, Phase
<1>6. Len(todo[t]) \in Nat /\ Inputs + Outputs \in Nat
  BY <1>0, SharedMemoryAssumption DEF ClientTypes
<1>7. ListInv(t)'
  BY <1>0, <1>2, <1>3, <1>6 DEF ListInv, AtRegion
<1> QED
  BY <1>1, <1>2, <1>4, <1>5, <1>7, OneMoves

\* The end of a cleanup: the list is done, or pop has raised.
Ends(t) ==
    \/ NextRegion(t) /\ todo[t] = <<>> /\ t \notin closing
    \/ Pop(t) /\ Current(t) \notin handles

LEMMA EndsFacts ==
  ASSUME TypeInv, NEW t \in Thread, Ends(t)
  PROVE  /\ \/ todo[t] = <<>> /\ pc[t] = "clean"
            \/ pc[t] = "pop" /\ Late(t)
         /\ pc'[t] \in {"idle", "done"} /\ todo'[t] = <<>> /\ OthersWait(t)
         /\ UNCHANGED <<tracked, handles, local, undestroyed>>
         /\ \A u \in Callers : u # t => call'[u] = call[u]
         /\ t \in Callers => \/ pc'[t] = "idle" /\ call'[t] = call[t] + 1
                             \/ pc'[t] = "done" /\ call'[t] = call[t]
         /\ TypeInv'
<1>0. ClientTypes /\ ListInv(t)
  BY DEF TypeInv
<1>1. /\ Return(t)
      /\ UNCHANGED <<tracked, handles, local, undestroyed, known, unforgotten>>
      /\ UNCHANGED <<closed, gone, closing>>
      /\ \/ todo[t] = <<>> /\ pc[t] = "clean"
         \/ pc[t] = "pop" /\ Late(t)
  BY DEF Ends, NextRegion, Pop, Late, listVars, ghostVars
<1>2. /\ pc'[t] \in {"idle", "done"} /\ pc' \in [Thread -> Phase]
      /\ todo'[t] = <<>> /\ todo' \in [Thread -> Seq(Region)]
      /\ call' \in [Callers -> 1..Calls] /\ OthersWait(t)
      /\ \A u \in Callers : u # t => call'[u] = call[u]
      /\ t \in Callers => \/ pc'[t] = "idle" /\ call'[t] = call[t] + 1
                          \/ pc'[t] = "done" /\ call'[t] = call[t]
  BY <1>1, ReturnFacts
<1>3. ClientTypes'
  BY <1>0, <1>1, <1>2 DEF ClientTypes
<1>4. ListInv(t)'
  BY <1>2, NoneLeft DEF ListInv, AtRegion
<1> QED
  BY <1>1, <1>2, <1>3, <1>4, OneMoves

\* cleanup() and close() start on a copy of the list.
Copies(t) == t \in Closers /\ (Cleanup(t) \/ CopyList(t))

LEMMA CopiesFacts ==
  ASSUME TypeInv, NEW t \in Thread, Copies(t)
  PROVE  /\ pc[t] \in {"idle", "copy"} /\ todo[t] = <<>> /\ pc'[t] = "clean"
         /\ \A r : Listed(r, t)' <=> Tracked(r)
         /\ OthersWait(t) /\ UNCHANGED <<call, tracked, handles, local, undestroyed>>
         /\ TypeInv'
<1>0. ClientTypes /\ ListInv(t)
  BY DEF TypeInv
<1>1. /\ pc[t] \in {"idle", "copy"} /\ todo' = [todo EXCEPT ![t] = tracked]
      /\ pc' = [pc EXCEPT ![t] = "clean"]
      /\ UNCHANGED <<call, tracked, handles, local, undestroyed, known, unforgotten, closed, gone,
                     closing>>
  BY DEF Copies, Cleanup, CopyList, Goto, ownVars, listVars, ghostVars
<1>2. pc'[t] = "clean" /\ todo'[t] = tracked /\ OthersWait(t)
  BY <1>0, <1>1 DEF ClientTypes, OthersWait
<1>3. ClientTypes'
  BY <1>0, <1>1 DEF ClientTypes, Phase
<1>4. ListInv(t)'
  BY <1>2, SharedMemoryAssumption DEF ListInv, AtRegion, Copies
<1>5. \A r : Listed(r, t)' <=> Tracked(r)
  BY <1>2 DEF Listed, Tracked
<1> QED
  BY <1>0, <1>1, <1>2, <1>3, <1>4, <1>5, OneMoves DEF ListInv

\* The handle is taken.
Takes(t) == Pop(t) /\ Current(t) \in handles

LEMMA TakesFacts ==
  ASSUME TypeInv, NEW t \in Thread, Takes(t)
  PROVE  /\ pc[t] = "pop" /\ pc'[t] = "destroy" /\ handles' = handles \ {Current(t)}
         /\ Len(todo[t]) > 0
         /\ OthersWait(t) /\ UNCHANGED <<call, todo, tracked, local, undestroyed>>
         /\ TypeInv'
<1>0. ClientTypes /\ ListInv(t)
  BY DEF TypeInv
<1>1. /\ pc[t] = "pop" /\ pc' = [pc EXCEPT ![t] = "destroy"] /\ handles' = handles \ {Current(t)}
      /\ UNCHANGED <<call, todo, tracked, local, undestroyed, known, unforgotten, closed, gone,
                     closing>>
  BY DEF Takes, Pop, Goto, ghostVars
<1>2. pc'[t] = "destroy" /\ OthersWait(t) /\ Len(todo[t]) > 0
  BY <1>0, <1>1 DEF ClientTypes, OthersWait, ListInv, AtRegion
<1>3. ClientTypes'
  BY <1>0, <1>1 DEF ClientTypes, Phase
<1>4. ListInv(t)'
  BY <1>0, <1>1, <1>2 DEF ListInv, AtRegion
<1> QED
  BY <1>1, <1>2, <1>3, <1>4, OneMoves

LEMMA DestroyFacts ==
  ASSUME TypeInv, NEW t \in Thread, Destroy(t)
  PROVE  /\ pc[t] = "destroy" /\ pc'[t] = "untrack" /\ Len(todo[t]) > 0
         /\ \/ local' = local \ {Current(t)} /\ undestroyed' = undestroyed
            \/ local' = local /\ undestroyed' = undestroyed \cup {Current(t)}
         /\ OthersWait(t) /\ UNCHANGED <<call, todo, tracked, handles>>
         /\ TypeInv'
<1>0. ClientTypes /\ ListInv(t)
  BY DEF TypeInv
<1>1. /\ pc[t] = "destroy" /\ pc' = [pc EXCEPT ![t] = "untrack"]
      /\ \/ local' = local \ {Current(t)} /\ undestroyed' = undestroyed
         \/ local' = local /\ undestroyed' = undestroyed \cup {Current(t)}
      /\ UNCHANGED <<call, todo, tracked, handles, known, unforgotten, closed, gone, closing>>
  BY DEF Destroy, Goto, ownVars, listVars
<1>2. pc'[t] = "untrack" /\ OthersWait(t) /\ Len(todo[t]) > 0
  BY <1>0, <1>1 DEF ClientTypes, OthersWait, ListInv, AtRegion
<1>3. Current(t) \in Region
  BY <1>0, <1>2, CurrentListed
<1>4. ClientTypes'
  BY <1>0, <1>1, <1>3 DEF ClientTypes, Phase
<1>5. ListInv(t)'
  BY <1>0, <1>1, <1>2 DEF ListInv, AtRegion
<1> QED
  BY <1>1, <1>2, <1>4, <1>5, OneMoves

\* Every step is one of these.
Moves(t) ==
    \/ t \in Callers /\ Creates(t)
    \/ GoesOn(t) \/ Drops(t) \/ Ends(t) \/ Copies(t) \/ Takes(t) \/ Destroy(t)

LEMMA StepKinds ==
  ASSUME TypeInv, NEW t \in Thread, Step(t) \/ Start(t)
  PROVE  Moves(t)
<1>0. ClientTypes
  BY DEF TypeInv
<1>1. CASE NextRegion(t)
  <2>1. CASE todo[t] = <<>>
    <3>1. CASE t \in closing
      <4>1. Goto(t, "close") /\ UNCHANGED todo
        BY <1>1, <2>1, <3>1 DEF NextRegion
      <4>2. pc'[t] = "close"
        BY <1>0, <4>1 DEF Goto, ClientTypes
      <4> QED
        BY <1>1, <4>1, <4>2 DEF GoesOn, Moves
    <3> QED
      BY <1>1, <2>1, <3>1 DEF Ends, Moves
  <2>2. CASE todo[t] # <<>> /\ Current(t) \in handles
    <3>1. Goto(t, "unregister") /\ UNCHANGED todo
      BY <1>1, <2>2 DEF NextRegion
    <3>2. pc'[t] = "unregister"
      BY <1>0, <3>1 DEF Goto, ClientTypes
    <3> QED
      BY <1>1, <3>1, <3>2 DEF GoesOn, Moves
  <2>3. CASE todo[t] # <<>> /\ Current(t) \notin handles
    <3>1. pc[t] = "clean" /\ UNCHANGED pc
      BY <1>1, <2>3 DEF NextRegion
    <3> QED
      BY <1>1, <3>1 DEF Drops, Moves
  <2> QED
    BY <2>1, <2>2, <2>3
<1>2. CASE Pop(t)
  BY <1>2 DEF Ends, Takes, Moves
<1> QED
  BY <1>1, <1>2 DEF Step, Start, GoesOn, Drops, Copies, Moves

----------------------------------------------------------------------------
(* What is left to clean up                                                 *)

LEMMA ThenListed ==
  ASSUME NEW t, NEW r, NEW q, Then(r, q, t)
  PROVE  Listed(r, t) /\ Listed(q, t)
BY DEF Then, Listed, Has

\* Adding a new element to a list.
LEMMA AppendFacts ==
  ASSUME NEW S, NEW s \in Seq(S), NEW x \in S, ~Has(s, x), NoneTwice(s)
  PROVE  /\ NoneTwice(Append(s, x))
         /\ \A r : Has(Append(s, x), r) <=> Has(s, r) \/ r = x
<1> DEFINE z == Append(s, x)
           n == Len(s)
<1>1. /\ n \in Nat /\ Len(z) = n + 1 /\ n + 1 \in 1..(n + 1) /\ z[n + 1] = x
      /\ \A k \in 1..n : k \in 1..(n + 1) /\ z[k] = s[k]
      /\ \A k \in 1..(n + 1) : k \in 1..n \/ k = n + 1
  OBVIOUS
<1> HIDE DEF z
<1>2. ASSUME NEW i \in 1..(n + 1), NEW j \in 1..(n + 1), z[i] = z[j] PROVE i = j
  <2>1. CASE i \in 1..n /\ j \in 1..n
    BY <1>1, <1>2, <2>1 DEF NoneTwice
  <2>2. CASE i = n + 1 \/ j = n + 1
    BY <1>1, <1>2, <2>2 DEF Has
  <2> QED
    BY <1>1, <2>1, <2>2
<1>3. \A r : Has(z, r) <=> Has(s, r) \/ r = x
  BY <1>1 DEF Has
<1> QED
  BY <1>1, <1>2, <1>3 DEF z, NoneTwice

\* The lists of the threads that wait.
LEMMA OthersLists ==
  ASSUME NEW t, OthersWait(t)
  PROVE  \A u \in Thread \ {t} :
            /\ pc'[u] = pc[u] /\ todo'[u] = todo[u]
            /\ \A r : Listed(r, u)' <=> Listed(r, u)
            /\ \A r, q : Then(r, q, u)' <=> Then(r, q, u)
            /\ Current(u)' = Current(u)
BY SameList DEF OthersWait

\* A step that brings no region into use.
LEMMA FreshKept ==
  ASSUME TypeInv, Fresh, NEW t \in Thread, OthersWait(t), TypeInv',
         \A r : InUse(r)' => InUse(r),
         \A u \in Callers : u # t => call'[u] = call[u],
         t \in Callers =>
            \/ pc'[t] = "idle" /\ call'[t] = call[t] + 1
            \/ /\ pc'[t] # "idle" /\ call'[t] = call[t]
               /\ pc'[t] \in {"create", "write", "register"} =>
                     /\ todo'[t] = todo[t]
                     /\ pc[t] \in {"idle", "create", "write", "register"}
  PROVE  Fresh'
<1> SUFFICES ASSUME NEW u \in Callers, NEW r \in Region, InUse(r)', r[1] = u
             PROVE  /\ r[2] <= call'[u]
                    /\ pc'[u] = "idle" => r[2] < call'[u]
                    /\ pc'[u] \in {"create", "write", "register"} /\ r[2] = call'[u]
                          => r[3] <= Len(todo'[u])
  BY DEF Fresh
<1>1. /\ r[2] <= call[u]
      /\ pc[u] = "idle" => r[2] < call[u]
      /\ pc[u] \in {"create", "write", "register"} /\ r[2] = call[u] => r[3] <= Len(todo[u])
  BY DEF Fresh
<1>2. r[2] \in Nat /\ call[u] \in Nat
  BY RegionFacts DEF TypeInv, ClientTypes
<1>3. CASE u # t
  BY <1>1, <1>3 DEF OthersWait, Thread
<1>4. CASE u = t
  BY <1>1, <1>2, <1>4
<1> QED
  BY <1>3, <1>4

\* A call names its new region like no other.
LEMMA CreatesNames ==
  ASSUME TypeInv, OwnRegions, Fresh, Distinct, NEW t \in Callers, Creates(t)
  PROVE  /\ ~InUse(NewRegion(t)) /\ OwnRegions' /\ Fresh' /\ Distinct'
         /\ \A r : Tracked(r)' <=> Tracked(r) \/ r = NewRegion(t)
<1> DEFINE x == NewRegion(t)
<1>0. t \in Thread
  BY DEF Thread
<1>1. /\ x \in Region /\ pc[t] = "create" /\ pc'[t] \in {"write", "register"}
      /\ local' = local \cup {x} /\ handles' = handles \cup {x}
      /\ tracked' = Append(tracked, x) /\ todo'[t] = Append(todo[t], x)
      /\ OthersWait(t) /\ UNCHANGED <<call, undestroyed>>
      /\ TypeInv'
  BY CreateFacts DEF ghostVars
<1>2. \A u \in Thread \ {t} :
         /\ pc'[u] = pc[u] /\ todo'[u] = todo[u]
         /\ \A r : Listed(r, u)' <=> Listed(r, u)
  BY <1>1, OthersLists
<1> HIDE DEF x
<1>3. /\ Len(todo'[t]) = Len(todo[t]) + 1 /\ Len(todo[t]) \in Nat
      /\ \A r : Listed(r, t)' <=> Listed(r, t) \/ r = x
  <2>1. todo[t] \in Seq(Region) /\ ClientTypes
    BY <1>0 DEF TypeInv, ClientTypes
  <2> QED
    BY <1>0, <1>1, <2>1, LongerList
<1>4. x[1] = t /\ x[2] = call[t] /\ x[3] = Len(todo[t]) + 1 /\ call[t] \in Nat
  BY DEF NewRegion, TypeInv, ClientTypes, x
<1>5. ~InUse(x)
  BY <1>1, <1>3, <1>4 DEF Fresh
<1>6. (\A u \in Thread : ~Listed(x, u)) /\ ~Tracked(x) /\ x \notin handles
  BY <1>5 DEF InUse
<1>7. Distinct' /\ \A r : Tracked(r)' <=> Tracked(r) \/ r = x
  <2>1. tracked \in Seq(Region) /\ ~Has(tracked, x) /\ NoneTwice(tracked)
    BY <1>6 DEF TypeInv, ClientTypes, Tracked, Distinct
  <2> QED
    BY <1>1, <2>1, AppendFacts DEF Distinct, Tracked
<1>8. \A r : InUse(r)' => InUse(r) \/ r = x
  BY <1>1, <1>2, <1>3, <1>7 DEF InUse
<1>9. OwnRegions'
  BY <1>2, <1>3, <1>4 DEF OwnRegions, Thread
<1>10. Fresh'
  <2> SUFFICES ASSUME NEW u \in Callers, NEW r \in Region, InUse(r)', r[1] = u
               PROVE  /\ r[2] <= call[u]
                      /\ pc'[u] = "idle" => r[2] < call[u]
                      /\ pc'[u] \in {"create", "write", "register"} /\ r[2] = call[u]
                            => r[3] <= Len(todo'[u])
    BY <1>1 DEF Fresh
  <2>1. u \in Thread
    BY DEF Thread
  <2>2. CASE r = x
    <3>1. u = t
      BY <1>4, <2>2
    <3> QED
      BY <1>1, <1>3, <1>4, <2>2, <3>1
  <2>3. CASE r # x
    <3>1. /\ r[2] <= call[u]
          /\ pc[u] = "idle" => r[2] < call[u]
          /\ pc[u] \in {"create", "write", "register"} /\ r[2] = call[u] => r[3] <= Len(todo[u])
      BY <1>8, <2>3 DEF Fresh
    <3>2. CASE u # t
      BY <1>2, <2>1, <3>1, <3>2
    <3>3. CASE u = t
      <4>1. r[3] \in Nat
        BY RegionFacts
      <4> QED
        BY <1>1, <1>3, <3>1, <3>3, <4>1
    <3> QED
      BY <3>2, <3>3
  <2> QED
    BY <2>2, <2>3
<1> QED
  BY <1>5, <1>7, <1>9, <1>10 DEF x

\* Every step of every thread keeps the names apart, however many there are.
LEMMA NamesKept ==
  ASSUME TypeInv, OwnRegions, Fresh, Distinct, NEW t \in Thread, Moves(t)
  PROVE  TypeInv' /\ OthersWait(t) /\ OwnRegions' /\ Fresh' /\ Distinct'
<1>1. CASE t \in Callers /\ Creates(t)
  BY <1>1, CreateFacts, CreatesNames
<1>2. CASE ~(t \in Callers /\ Creates(t))
  <2> DEFINE Calling ==
                \/ pc'[t] = "idle" /\ call'[t] = call[t] + 1
                \/ /\ pc'[t] # "idle" /\ call'[t] = call[t]
                   /\ pc'[t] \in {"create", "write", "register"} =>
                         /\ todo'[t] = todo[t]
                         /\ pc[t] \in {"idle", "create", "write", "register"}
             Kept == /\ TypeInv' /\ OthersWait(t) /\ Distinct' /\ handles' \subseteq handles
                     /\ \A r : Tracked(r)' => Tracked(r)
                     /\ \A r : Listed(r, t)' => Listed(r, t) \/ (t \notin Callers /\ Tracked(r))
                     /\ \A u \in Callers : u # t => call'[u] = call[u]
                     /\ t \in Callers => Calling
  <2>1. ASSUME GoesOn(t) \/ Takes(t) \/ Destroy(t) PROVE Kept
    <3>1. /\ TypeInv' /\ OthersWait(t) /\ UNCHANGED <<call, todo, tracked>>
          /\ handles' \subseteq handles /\ pc'[t] # "idle"
          /\ pc'[t] \in {"create", "write", "register"} =>
                 pc[t] \in {"idle", "create", "write", "register"}
      BY <2>1, GoesOnFacts, TakesFacts, DestroyFacts
    <3>2. \A r : (Tracked(r)' <=> Tracked(r)) /\ (Listed(r, t)' <=> Listed(r, t))
      BY <3>1, SameList DEF Tracked
    <3> QED
      BY <3>1, <3>2 DEF Distinct
  <2>2. ASSUME Drops(t) PROVE Kept
    <3>1. /\ TypeInv' /\ OthersWait(t) /\ Distinct' /\ UNCHANGED <<call, handles>>
          /\ pc'[t] = "clean" /\ Len(todo[t]) > 0 /\ todo'[t] = Rest(t)
          /\ \A r : Tracked(r)' => Tracked(r)
      BY <2>2, DropsFacts
    <3>2. \A r : Listed(r, t)' => Listed(r, t)
      BY <3>1, ShorterList DEF TypeInv
    <3> QED
      BY <3>1, <3>2
  <2>3. ASSUME Ends(t) PROVE Kept
    <3>1. /\ TypeInv' /\ OthersWait(t) /\ UNCHANGED <<tracked, handles>>
          /\ pc'[t] \in {"idle", "done"} /\ todo'[t] = <<>>
          /\ \A u \in Callers : u # t => call'[u] = call[u]
          /\ t \in Callers => \/ pc'[t] = "idle" /\ call'[t] = call[t] + 1
                              \/ pc'[t] = "done" /\ call'[t] = call[t]
      BY <2>3, EndsFacts
    <3>2. (\A r : ~Listed(r, t)') /\ (\A r : Tracked(r)' <=> Tracked(r)) /\ Distinct'
      BY <3>1, EmptyList DEF Tracked, Distinct
    <3> QED
      BY <3>1, <3>2
  <2>4. ASSUME Copies(t) PROVE Kept
    <3>1. /\ TypeInv' /\ OthersWait(t) /\ UNCHANGED <<call, tracked, handles>>
          /\ \A r : Listed(r, t)' <=> Tracked(r)
      BY <2>4, CopiesFacts
    <3>2. t \notin Callers
      BY <2>4, SharedMemoryAssumption DEF Copies
    <3>3. (\A r : Tracked(r)' <=> Tracked(r)) /\ Distinct'
      BY <3>1 DEF Tracked, Distinct
    <3> QED
      BY <3>1, <3>2, <3>3
  <2>5. Kept
    BY <1>2, <2>1, <2>2, <2>3, <2>4 DEF Moves
  <2> HIDE DEF Kept
  <2>6. TypeInv' /\ OthersWait(t) /\ Distinct'
    BY <2>5 DEF Kept
  <2>7. \A u \in Thread \ {t} : \A r : Listed(r, u)' <=> Listed(r, u)
    BY <2>6, OthersLists
  <2>8. \A r : InUse(r)' => InUse(r)
    BY <2>5, <2>7 DEF InUse, Kept
  <2>9. OwnRegions'
    BY <2>5, <2>7 DEF OwnRegions, Thread, Kept
  <2>10. Fresh'
    <3>1. /\ \A u \in Callers : u # t => call'[u] = call[u]
          /\ t \in Callers => Calling
      BY <2>5 DEF Kept
    <3> QED
      BY <2>6, <2>8, <3>1, FreshKept
  <2> QED
    BY <2>6, <2>9, <2>10
<1> QED
  BY <1>1, <1>2

LEMMA GoesOnKeeps ==
  ASSUME TypeInv, CleanupInv, NEW t \in Thread, GoesOn(t)
  PROVE  CleanupInv'
<1>1. /\ UNCHANGED <<call, todo, tracked, handles, local, undestroyed>> /\ OthersWait(t)
      /\ ~Holds(t) /\ ~Holds(t)' /\ pc'[t] # "idle"
      /\ pc'[t] \in {"create", "write", "register"} =>
             pc[t] \in {"idle", "create", "write", "register"}
      /\ pc'[t] \in {"unregister", "pop"} =>
             pc[t] = "unregister" \/ (pc[t] = "clean" /\ Current(t) \in handles)
      /\ TypeInv'
  BY GoesOnFacts
<1>2. \A u \in Thread :
         /\ \A r : Listed(r, u)' <=> Listed(r, u)
         /\ \A r, q : Then(r, q, u)' <=> Then(r, q, u)
         /\ Current(u)' = Current(u)
  BY <1>1, SameList
<1>3. \A r : Tracked(r)' <=> Tracked(r)
  BY <1>1 DEF Tracked
<1>4. \A u \in Thread \ {t} : pc'[u] = pc[u]
  BY <1>1 DEF OthersWait
<1>5. OwnRegions' /\ Fresh' /\ Distinct'
  BY NamesKept DEF Moves, CleanupInv
<1>6. \A u \in Thread : (Holds(u)' <=> Holds(u)) /\ (pc[u] = "destroy" <=> pc'[u] = "destroy")
  BY <1>1, <1>4 DEF Holds
<1>7. Covered'
  BY <1>1, <1>2, <1>3, <1>6 DEF CleanupInv, Covered
<1>8. Shared'
  BY <1>1, <1>2 DEF CleanupInv, Shared
<1>9. \A u \in Thread : Late(u)' => Late(u)
  BY <1>1, <1>2, <1>4 DEF Late
<1>10. Relieved'
  BY <1>1, <1>2, <1>9 DEF CleanupInv, Relieved
<1> QED
  BY <1>3, <1>5, <1>7, <1>8, <1>10 DEF CleanupInv

LEMMA DropsKeeps ==
  ASSUME TypeInv, CleanupInv, NEW t \in Thread, Drops(t)
  PROVE  CleanupInv'
<1>1. /\ Len(todo[t]) > 0 /\ todo'[t] = Rest(t) /\ OthersWait(t)
      /\ Current(t) \notin handles
      /\ pc[t] \in {"clean", "untrack"} /\ pc'[t] = "clean"
      /\ UNCHANGED <<call, handles, local, undestroyed>>
      /\ \A r : Tracked(r)' <=> Tracked(r) /\ (r # Current(t) \/ pc[t] = "clean")
      /\ TypeInv'
  BY DropsFacts DEF CleanupInv, Covered, Holds
<1>2. \A u \in Thread \ {t} :
         /\ pc'[u] = pc[u]
         /\ \A r : Listed(r, u)' <=> Listed(r, u)
         /\ \A r, q : Then(r, q, u)' <=> Then(r, q, u)
         /\ Current(u)' = Current(u)
  BY <1>1, OthersLists
<1>3. /\ \A r : Listed(r, t)' => Listed(r, t)
      /\ \A r : Listed(r, t) => Listed(r, t)' \/ r = Current(t)
      /\ \A r, q : Then(r, q, t)' => Then(r, q, t)
  BY <1>1, ShorterList DEF TypeInv
<1>4. \A u \in Thread :
         /\ \A r : Listed(r, u)' => Listed(r, u)
         /\ \A r \in handles : Listed(r, u) => Listed(r, u)'
         /\ \A r, q : Then(r, q, u)' => Then(r, q, u)
  BY <1>1, <1>2, <1>3
<1>5. OwnRegions' /\ Fresh' /\ Distinct'
  BY NamesKept DEF Moves, CleanupInv
<1>6. \A u \in Thread \ {t} : (Holds(u)' <=> Holds(u)) /\ (Late(u)' <=> Late(u))
  BY <1>1, <1>2 DEF Holds, Late
<1>7. ~Holds(t)' /\ ~Late(t)' /\ (Holds(t) => pc[t] = "untrack")
  BY <1>1 DEF Holds, Late
<1>8. Covered'
  <2>1. ASSUME NEW r \in handles PROVE Tracked(r)' /\ \E u \in Thread : Listed(r, u)'
    BY <1>1, <1>4, <2>1 DEF CleanupInv, Covered
  <2>2. ASSUME NEW r \in Region, Tracked(r)', r \notin handles
        PROVE  \E u \in Thread : Holds(u)' /\ Current(u)' = r
    <3>1. PICK u \in Thread : Holds(u) /\ Current(u) = r
      BY <1>1, <2>2 DEF CleanupInv, Covered
    <3>2. u # t
      BY <1>1, <1>7, <2>2, <3>1
    <3> QED
      BY <1>2, <1>6, <3>1, <3>2
  <2>3. ASSUME NEW r \in local, r \notin undestroyed, r \notin handles
        PROVE  \E u \in Thread : pc'[u] = "destroy" /\ Current(u)' = r
    <3>1. PICK u \in Thread : pc[u] = "destroy" /\ Current(u) = r
      BY <2>3 DEF CleanupInv, Covered
    <3> QED
      BY <1>1, <1>2, <3>1
  <2>4. ASSUME NEW u \in Thread, Holds(u)' PROVE Current(u)' \notin handles
    BY <1>2, <1>6, <1>7, <2>4 DEF CleanupInv, Covered
  <2> QED
    BY <1>1, <2>1, <2>2, <2>3, <2>4 DEF Covered
<1>9. Shared'
  BY <1>1, <1>4 DEF CleanupInv, Shared
<1>10. Relieved'
  BY <1>1, <1>4, <1>6, <1>7 DEF CleanupInv, Relieved
<1> QED
  BY <1>1, <1>5, <1>8, <1>9, <1>10 DEF CleanupInv

LEMMA EndsKeeps ==
  ASSUME TypeInv, CleanupInv, NEW t \in Thread, Ends(t)
  PROVE  CleanupInv'
<1>1. /\ \/ todo[t] = <<>> /\ pc[t] = "clean"
         \/ pc[t] = "pop" /\ Late(t)
      /\ pc'[t] \in {"idle", "done"} /\ todo'[t] = <<>> /\ OthersWait(t)
      /\ UNCHANGED <<tracked, handles, local, undestroyed>>
      /\ \A u \in Callers : u # t => call'[u] = call[u]
      /\ t \in Callers => \/ pc'[t] = "idle" /\ call'[t] = call[t] + 1
                          \/ pc'[t] = "done" /\ call'[t] = call[t]
      /\ TypeInv'
  BY EndsFacts
<1>2. \A u \in Thread \ {t} :
         /\ pc'[u] = pc[u]
         /\ \A r : Listed(r, u)' <=> Listed(r, u)
         /\ \A r, q : Then(r, q, u)' <=> Then(r, q, u)
         /\ Current(u)' = Current(u)
  BY <1>1, OthersLists
<1>3. (\A r : ~Listed(r, t)') /\ \A r, q : ~Then(r, q, t)'
  BY <1>1, EmptyList
<1>4. \A r : Tracked(r)' <=> Tracked(r)
  BY <1>1 DEF Tracked
<1>5. OwnRegions' /\ Fresh' /\ Distinct'
  BY NamesKept DEF Moves, CleanupInv
<1>6. \A u \in Thread \ {t} : (Holds(u)' <=> Holds(u)) /\ (Late(u)' <=> Late(u))
  BY <1>1, <1>2 DEF Holds, Late
<1>7. ~Holds(t)' /\ ~Late(t)' /\ ~Holds(t) /\ pc[t] # "destroy"
  BY <1>1 DEF Holds, Late
<1>8. Late(t) \/ \A r : ~Listed(r, t)
  BY <1>1 DEF Listed, Has
\* The regions that t gives up are on another list.
<1>9. \A r \in handles : Listed(r, t) => \E u \in Thread \ {t} : Listed(r, u)
  BY <1>8 DEF CleanupInv, Relieved
<1>10. Covered'
  <2>1. ASSUME NEW r \in handles PROVE Tracked(r)' /\ \E u \in Thread : Listed(r, u)'
    BY <1>2, <1>4, <1>9, <2>1 DEF CleanupInv, Covered
  <2>2. ASSUME NEW r \in Region, Tracked(r)', r \notin handles
        PROVE  \E u \in Thread : Holds(u)' /\ Current(u)' = r
    <3>1. PICK u \in Thread : Holds(u) /\ Current(u) = r
      BY <1>4, <2>2 DEF CleanupInv, Covered
    <3> QED
      BY <1>2, <1>6, <1>7, <3>1
  <2>3. ASSUME NEW r \in local, r \notin undestroyed, r \notin handles
        PROVE  \E u \in Thread : pc'[u] = "destroy" /\ Current(u)' = r
    <3>1. PICK u \in Thread : pc[u] = "destroy" /\ Current(u) = r
      BY <2>3 DEF CleanupInv, Covered
    <3> QED
      BY <1>2, <1>7, <3>1
  <2>4. ASSUME NEW u \in Thread, Holds(u)' PROVE Current(u)' \notin handles
    BY <1>2, <1>6, <1>7, <2>4 DEF CleanupInv, Covered
  <2> QED
    BY <1>1, <2>1, <2>2, <2>3, <2>4 DEF Covered
<1>11. Shared'
  BY <1>1, <1>2, <1>3 DEF CleanupInv, Shared
<1>12. Relieved'
  <2> SUFFICES ASSUME NEW u \in Thread, Late(u)'
               PROVE  /\ \A v \in Thread \ {u} : ~Late(v)'
                      /\ \A r \in handles : Listed(r, u)' =>
                            \E v \in Thread \ {u} : Listed(r, v)'
    BY <1>1 DEF Relieved
  <2>1. u # t /\ Late(u) /\ ~Late(t)
    BY <1>6, <1>7 DEF CleanupInv, Relieved
  <2> QED
    BY <1>2, <1>6, <1>7, <1>8, <2>1 DEF CleanupInv, Relieved
<1> QED
  BY <1>4, <1>5, <1>10, <1>11, <1>12 DEF CleanupInv

LEMMA CopiesKeeps ==
  ASSUME TypeInv, CleanupInv, TwoInside', NEW t \in Thread, Copies(t)
  PROVE  CleanupInv'
<1>1. /\ pc[t] \in {"idle", "copy"} /\ todo[t] = <<>> /\ pc'[t] = "clean"
      /\ \A r : Listed(r, t)' <=> Tracked(r)
      /\ OthersWait(t) /\ UNCHANGED <<call, tracked, handles, local, undestroyed>>
      /\ TypeInv'
  BY CopiesFacts
<1>2. \A u \in Thread \ {t} :
         /\ pc'[u] = pc[u]
         /\ \A r : Listed(r, u)' <=> Listed(r, u)
         /\ \A r, q : Then(r, q, u)' <=> Then(r, q, u)
         /\ Current(u)' = Current(u)
  BY <1>1, OthersLists
<1>3. \A r : ~Listed(r, t)
  BY <1>1 DEF Listed, Has
<1>4. \A r : Tracked(r)' <=> Tracked(r)
  BY <1>1 DEF Tracked
<1>5. t \in Closers /\ t \notin Callers
  BY SharedMemoryAssumption DEF Copies
<1>6. OwnRegions' /\ Fresh' /\ Distinct'
  BY NamesKept DEF Moves, CleanupInv
<1>7. \A u \in Thread \ {t} : (Holds(u)' <=> Holds(u)) /\ (Late(u)' <=> Late(u))
  BY <1>1, <1>2 DEF Holds, Late
<1>8. ~Holds(t)' /\ ~Late(t)' /\ ~Holds(t) /\ pc[t] # "destroy" /\ t \in Inside'
      /\ ~CallsOnly'
  BY <1>1, <1>5 DEF Holds, Late, Inside, CallsOnly
<1>9. Covered'
  <2>1. ASSUME NEW r \in handles PROVE Tracked(r)' /\ \E u \in Thread : Listed(r, u)'
    BY <1>2, <1>3, <1>4, <2>1 DEF CleanupInv, Covered
  <2>2. ASSUME NEW r \in Region, Tracked(r)', r \notin handles
        PROVE  \E u \in Thread : Holds(u)' /\ Current(u)' = r
    <3>1. PICK u \in Thread : Holds(u) /\ Current(u) = r
      BY <1>4, <2>2 DEF CleanupInv, Covered
    <3> QED
      BY <1>2, <1>7, <1>8, <3>1
  <2>3. ASSUME NEW r \in local, r \notin undestroyed, r \notin handles
        PROVE  \E u \in Thread : pc'[u] = "destroy" /\ Current(u)' = r
    <3>1. PICK u \in Thread : pc[u] = "destroy" /\ Current(u) = r
      BY <2>3 DEF CleanupInv, Covered
    <3> QED
      BY <1>2, <1>8, <3>1
  <2>4. ASSUME NEW u \in Thread, Holds(u)' PROVE Current(u)' \notin handles
    BY <1>2, <1>7, <1>8, <2>4 DEF CleanupInv, Covered
  <2> QED
    BY <1>1, <2>1, <2>2, <2>3, <2>4 DEF Covered
\* A thread with a list is inside.
<1>10. ASSUME NEW u \in Thread \ {t}, NEW r, Listed(r, u) PROVE u \in Inside'
  <2>1. pc[u] \notin {"idle", "done"}
    BY <1>10 DEF TypeInv, ListInv, Listed, Has
  <2> QED
    BY <1>2, <2>1 DEF Inside
<1>11. Shared'
  <2> SUFFICES ASSUME NEW a \in Thread, NEW u \in Thread, NEW r \in Region, NEW q \in Region,
                      a # u, Then(r, q, a)', Listed(r, u)', q \in handles
               PROVE  Listed(q, u)'
    BY <1>1 DEF Shared
  <2>1. CASE u = t
    BY <1>1, <2>1 DEF CleanupInv, Covered
  <2>2. CASE a = t /\ u # t
    <3>1. PICK v \in Thread : Listed(q, v)
      BY DEF CleanupInv, Covered
    <3>2. v # t /\ Listed(r, u)
      BY <1>2, <1>3, <2>2, <3>1
    <3>3. u \in Inside' /\ v \in Inside'
      BY <1>10, <2>2, <3>1, <3>2
    <3>4. u = v
      BY <1>5, <1>8, <2>2, <3>2, <3>3 DEF TwoInside
    <3> QED
      BY <1>2, <2>2, <3>1, <3>4
  <2>3. CASE a # t /\ u # t
    BY <1>2, <2>3 DEF CleanupInv, Shared
  <2> QED
    BY <2>1, <2>2, <2>3
<1>12. Relieved'
  <2> SUFFICES ASSUME NEW u \in Thread, Late(u)'
               PROVE  /\ \A v \in Thread \ {u} : ~Late(v)'
                      /\ \A r \in handles : Listed(r, u)' =>
                            \E v \in Thread \ {u} : Listed(r, v)'
    BY <1>1 DEF Relieved
  <2>1. u # t /\ Late(u)
    BY <1>7, <1>8
  <2> QED
    BY <1>2, <1>3, <1>7, <1>8, <2>1 DEF CleanupInv, Relieved
<1> QED
  BY <1>4, <1>6, <1>9, <1>11, <1>12 DEF CleanupInv

LEMMA TakesKeeps ==
  ASSUME TypeInv, CleanupInv, TwoInside, NEW t \in Thread, Takes(t)
  PROVE  CleanupInv'
<1> DEFINE x == Current(t)
<1>1. /\ pc[t] = "pop" /\ pc'[t] = "destroy" /\ handles' = handles \ {x}
      /\ Len(todo[t]) > 0 /\ x \in handles
      /\ OthersWait(t) /\ UNCHANGED <<call, todo, tracked, local, undestroyed>>
      /\ TypeInv'
  BY TakesFacts DEF Takes
<1>2. \A u \in Thread :
         /\ \A r : Listed(r, u)' <=> Listed(r, u)
         /\ \A r, q : Then(r, q, u)' <=> Then(r, q, u)
         /\ Current(u)' = Current(u)
  BY <1>1, SameList
<1>3. \A r : Tracked(r)' <=> Tracked(r)
  BY <1>1 DEF Tracked
<1>4. \A u \in Thread \ {t} : pc'[u] = pc[u]
  BY <1>1 DEF OthersWait
<1>5. OwnRegions' /\ Fresh' /\ Distinct'
  BY NamesKept DEF Moves, CleanupInv
<1>6. \A u \in Thread \ {t} : Holds(u)' <=> Holds(u)
  BY <1>4 DEF Holds
<1>7. Holds(t)' /\ ~Holds(t) /\ ~Late(t)' /\ pc[t] # "destroy" /\ t \in Inside
  BY <1>1 DEF Holds, Late, Inside
<1>8. x \in Region /\ Listed(x, t)
  BY <1>1, CurrentListed DEF TypeInv
<1> HIDE DEF x
<1>9. Current(t)' = x
  BY <1>2 DEF x
<1>10. Covered'
  <2>1. ASSUME NEW r \in handles' PROVE Tracked(r)' /\ \E u \in Thread : Listed(r, u)'
    BY <1>1, <1>2, <1>3, <2>1 DEF CleanupInv, Covered
  <2>2. ASSUME NEW r \in Region, Tracked(r)', r \notin handles'
        PROVE  \E u \in Thread : Holds(u)' /\ Current(u)' = r
    <3>1. CASE r = x
      BY <1>7, <1>9, <3>1
    <3>2. CASE r # x
      <4>1. PICK u \in Thread : Holds(u) /\ Current(u) = r
        BY <1>1, <1>3, <2>2, <3>2 DEF CleanupInv, Covered
      <4> QED
        BY <1>2, <1>6, <1>7, <4>1
    <3> QED
      BY <3>1, <3>2
  <2>3. ASSUME NEW r \in local, r \notin undestroyed, r \notin handles'
        PROVE  \E u \in Thread : pc'[u] = "destroy" /\ Current(u)' = r
    <3>1. CASE r = x
      BY <1>1, <1>9, <3>1
    <3>2. CASE r # x
      <4>1. PICK u \in Thread : pc[u] = "destroy" /\ Current(u) = r
        BY <1>1, <2>3, <3>2 DEF CleanupInv, Covered
      <4> QED
        BY <1>2, <1>4, <1>7, <4>1
    <3> QED
      BY <3>1, <3>2
  <2>4. ASSUME NEW u \in Thread, Holds(u)' PROVE Current(u)' \notin handles'
    BY <1>1, <1>2, <1>6, <1>9, <2>4 DEF CleanupInv, Covered
  <2> QED
    BY <1>1, <2>1, <2>2, <2>3, <2>4 DEF Covered
<1>11. Shared'
  BY <1>1, <1>2 DEF CleanupInv, Shared
\* Two calls have no region in common.
<1>12. ASSUME NEW u \in Thread \ {t}, Listed(x, u) PROVE ~CallsOnly
  <2>1. t \in Closers \/ u \in Closers
    BY <1>8, <1>12 DEF CleanupInv, OwnRegions, Thread
  <2>2. \A v \in Thread : pc[v] = "idle" => ~Listed(x, v)
    BY DEF TypeInv, ListInv, Listed, Has
  <2> QED
    BY <1>8, <1>12, <2>1, <2>2 DEF CallsOnly
<1>13. ASSUME NEW u \in Thread \ {t}, Late(u)'
       PROVE  u \in Inside /\ (Late(u) \/ Current(u) = x) /\ Listed(Current(u), u)
              /\ \A r : Listed(r, u) => Then(Current(u), r, u)
  <2>1. pc[u] \in {"unregister", "pop"} /\ (Current(u) \notin handles \/ Current(u) = x)
    BY <1>1, <1>2, <1>4, <1>13 DEF Late
  <2>2. Len(todo[u]) > 0
    BY <2>1 DEF TypeInv, ListInv, AtRegion
  <2> QED
    BY <2>1, <2>2, CurrentListed DEF TypeInv, Inside, Late
\* Only one thread is late: one more could only be a third one inside.
<1>14. ASSUME NEW u \in Thread \ {t}, Late(u)', NEW v \in Thread \ {u}, Late(v)'
       PROVE  FALSE
  <2>1. v # t /\ (Current(u) = x \/ Current(v) = x)
    BY <1>7, <1>13, <1>14 DEF CleanupInv, Relieved
  <2>2. ~CallsOnly
    BY <1>12, <1>13, <1>14, <2>1
  <2> QED
    BY <1>7, <1>13, <1>14, <2>1, <2>2 DEF TwoInside
<1>15. Relieved'
  <2> SUFFICES ASSUME NEW u \in Thread, Late(u)', NEW r \in handles', Listed(r, u)'
               PROVE  \E v \in Thread \ {u} : Listed(r, v)'
    BY <1>7, <1>14 DEF Relieved
  <2>1. u # t /\ Listed(r, u) /\ r \in handles /\ r \in Region
    BY <1>1, <1>2, <1>7 DEF TypeInv, ClientTypes
  <2>2. CASE Late(u)
    BY <1>2, <2>1, <2>2 DEF CleanupInv, Relieved
  <2>3. CASE Current(u) = x
    <3>1. Then(x, r, u)
      BY <1>13, <2>1, <2>3
    <3>2. Listed(r, t)
      BY <1>8, <2>1, <3>1 DEF CleanupInv, Shared
    <3> QED
      BY <1>2, <2>1, <3>2
  <2> QED
    BY <1>13, <2>1, <2>2, <2>3
<1> QED
  BY <1>3, <1>5, <1>10, <1>11, <1>15 DEF CleanupInv

LEMMA DestroyKeeps ==
  ASSUME TypeInv, CleanupInv, NEW t \in Thread, Destroy(t)
  PROVE  CleanupInv'
<1>1. /\ pc[t] = "destroy" /\ pc'[t] = "untrack" /\ Len(todo[t]) > 0
      /\ \/ local' = local \ {Current(t)} /\ undestroyed' = undestroyed
         \/ local' = local /\ undestroyed' = undestroyed \cup {Current(t)}
      /\ OthersWait(t) /\ UNCHANGED <<call, todo, tracked, handles>>
      /\ TypeInv'
  BY DestroyFacts
<1>2. \A u \in Thread :
         /\ \A r : Listed(r, u)' <=> Listed(r, u)
         /\ \A r, q : Then(r, q, u)' <=> Then(r, q, u)
         /\ Current(u)' = Current(u)
  BY <1>1, SameList
<1>3. \A r : Tracked(r)' <=> Tracked(r)
  BY <1>1 DEF Tracked
<1>4. \A u \in Thread \ {t} : pc'[u] = pc[u]
  BY <1>1 DEF OthersWait
<1>5. OwnRegions' /\ Fresh' /\ Distinct'
  BY NamesKept DEF Moves, CleanupInv
<1>6. \A u \in Thread : (Holds(u)' <=> Holds(u)) /\ (Late(u)' <=> Late(u))
  BY <1>1, <1>2, <1>4 DEF Holds, Late
<1>7. ASSUME NEW r \in local', r \notin undestroyed', r \notin handles
      PROVE  \E u \in Thread : pc'[u] = "destroy" /\ Current(u)' = r
  <2>1. r \in local /\ r \notin undestroyed /\ r # Current(t)
    BY <1>1, <1>7
  <2>2. PICK u \in Thread : pc[u] = "destroy" /\ Current(u) = r
    BY <1>7, <2>1 DEF CleanupInv, Covered
  <2> QED
    BY <1>2, <1>4, <2>1, <2>2
<1>8. Covered'
  BY <1>1, <1>2, <1>3, <1>6, <1>7 DEF CleanupInv, Covered
<1>9. Shared'
  BY <1>1, <1>2 DEF CleanupInv, Shared
<1>10. Relieved'
  BY <1>1, <1>2, <1>6 DEF CleanupInv, Relieved
<1> QED
  BY <1>3, <1>5, <1>8, <1>9, <1>10 DEF CleanupInv

LEMMA CreatesKeeps ==
  ASSUME TypeInv, CleanupInv, NEW t \in Callers, Creates(t)
  PROVE  CleanupInv'
<1> DEFINE x == NewRegion(t)
<1>0. t \in Thread
  BY DEF Thread
<1>1. /\ x \in Region /\ pc[t] = "create" /\ pc'[t] \in {"write", "register"}
      /\ local' = local \cup {x} /\ handles' = handles \cup {x}
      /\ tracked' = Append(tracked, x) /\ todo'[t] = Append(todo[t], x)
      /\ OthersWait(t) /\ UNCHANGED <<call, undestroyed>>
      /\ TypeInv'
  BY CreateFacts DEF ghostVars
<1>2. \A u \in Thread \ {t} :
         /\ pc'[u] = pc[u]
         /\ \A r : Listed(r, u)' <=> Listed(r, u)
         /\ \A r, q : Then(r, q, u)' <=> Then(r, q, u)
         /\ Current(u)' = Current(u)
  BY <1>1, OthersLists
<1> HIDE DEF x
<1>3. /\ Len(todo'[t]) = Len(todo[t]) + 1 /\ Len(todo[t]) \in Nat
      /\ \A r : Listed(r, t)' <=> Listed(r, t) \/ r = x
      /\ \A r, q : Then(r, q, t)' => Then(r, q, t) \/ r = x
  <2>1. todo[t] \in Seq(Region) /\ ClientTypes
    BY <1>0 DEF TypeInv, ClientTypes
  <2> QED
    BY <1>0, <1>1, <2>1, LongerList
<1>4. x[1] = t /\ x[2] = call[t] /\ x[3] = Len(todo[t]) + 1 /\ call[t] \in Nat
  BY DEF NewRegion, TypeInv, ClientTypes, x
<1>5. /\ ~InUse(x) /\ OwnRegions' /\ Fresh' /\ Distinct'
      /\ \A r : Tracked(r)' <=> Tracked(r) \/ r = x
  BY CreatesNames DEF CleanupInv, x
<1>6. (\A u \in Thread : ~Listed(x, u)) /\ ~Tracked(x) /\ x \notin handles
  BY <1>5 DEF InUse
<1>7. \A u \in Thread \ {t} : Holds(u)' <=> Holds(u)
  BY <1>2 DEF Holds
<1>8. ~Holds(t)' /\ ~Late(t)' /\ ~Holds(t) /\ pc[t] # "destroy"
  BY <1>1 DEF Holds, Late
\* The regions at hand are others.
<1>9. ASSUME NEW u \in Thread, AtRegion(u) PROVE Current(u) # x
  BY <1>6, <1>9, CurrentListed DEF TypeInv, ListInv
<1>10. Covered'
  <2>1. ASSUME NEW r \in handles' PROVE Tracked(r)' /\ \E u \in Thread : Listed(r, u)'
    BY <1>0, <1>1, <1>2, <1>3, <1>5, <2>1 DEF CleanupInv, Covered
  <2>2. ASSUME NEW r \in Region, Tracked(r)', r \notin handles'
        PROVE  \E u \in Thread : Holds(u)' /\ Current(u)' = r
    <3>1. PICK u \in Thread : Holds(u) /\ Current(u) = r
      BY <1>1, <1>5, <2>2 DEF CleanupInv, Covered
    <3> QED
      BY <1>2, <1>7, <1>8, <3>1
  <2>3. ASSUME NEW r \in local', r \notin undestroyed, r \notin handles'
        PROVE  \E u \in Thread : pc'[u] = "destroy" /\ Current(u)' = r
    <3>1. PICK u \in Thread : pc[u] = "destroy" /\ Current(u) = r
      BY <1>1, <2>3 DEF CleanupInv, Covered
    <3> QED
      BY <1>2, <1>8, <3>1
  <2>4. ASSUME NEW u \in Thread, Holds(u)' PROVE Current(u)' \notin handles'
    <3>1. u # t /\ Holds(u) /\ AtRegion(u)
      BY <1>7, <1>8, <2>4 DEF Holds, AtRegion
    <3> QED
      BY <1>1, <1>2, <1>9, <3>1 DEF CleanupInv, Covered
  <2> QED
    BY <1>1, <2>1, <2>2, <2>3, <2>4 DEF Covered
<1>11. Shared'
  <2> SUFFICES ASSUME NEW a \in Thread, NEW u \in Thread, NEW r \in Region, NEW q \in Region,
                      a # u, Then(r, q, a)', Listed(r, u)', q \in handles'
               PROVE  Listed(q, u)'
    BY DEF Shared
  <2>1. r # x
    <3>1. CASE a = t
      BY <1>2, <1>6, <3>1
    <3>2. CASE a # t
      BY <1>2, <1>6, <3>2, ThenListed
    <3> QED
      BY <3>1, <3>2
  <2>2. Then(r, q, a) /\ Listed(r, u)
    BY <1>2, <1>3, <2>1
  <2>3. q \in handles
    BY <1>1, <1>6, <2>2, ThenListed
  <2>4. Listed(q, u)
    BY <2>2, <2>3 DEF CleanupInv, Shared
  <2> QED
    BY <1>2, <1>3, <2>4
<1>12. \A u \in Thread : Late(u)' => Late(u) /\ u # t
  BY <1>1, <1>2, <1>8 DEF Late
<1>13. Relieved'
  <2> SUFFICES ASSUME NEW u \in Thread, Late(u)'
               PROVE  /\ \A v \in Thread \ {u} : ~Late(v)'
                      /\ \A r \in handles' : Listed(r, u)' =>
                            \E v \in Thread \ {u} : Listed(r, v)'
    BY DEF Relieved
  <2>1. Late(u) /\ u # t
    BY <1>12
  <2>2. ASSUME NEW r \in handles', Listed(r, u)' PROVE \E v \in Thread \ {u} : Listed(r, v)'
    <3>1. Listed(r, u) /\ r \in handles
      BY <1>1, <1>2, <1>6, <2>1, <2>2
    <3> QED
      BY <1>2, <1>3, <2>1, <3>1 DEF CleanupInv, Relieved
  <2> QED
    BY <1>12, <2>1, <2>2 DEF CleanupInv, Relieved
<1> QED
  BY <1>5, <1>10, <1>11, <1>13 DEF CleanupInv

----------------------------------------------------------------------------
(* How many threads are inside                                              *)

\* The guard of Start lets a third thread in only if MaxInside allows.
LEMMA NextTwoInside ==
  ASSUME TypeInv, TwoInside, NEW t \in Thread, Step(t) \/ Start(t), OthersWait(t),
         MaxInside <= 2 \/ CallsOnly'
  PROVE  TwoInside'
<1>1. \A u \in Thread : u # t => (u \in Inside <=> u \in Inside')
  BY DEF OthersWait, Inside
<1>2. CASE t \in Inside
  <2>1. Inside' \subseteq Inside /\ IsFiniteSet(Inside')
    BY <1>1, <1>2, FS_Subset DEF Inside, TwoInside
  <2>2. CallsOnly => CallsOnly'
    BY <1>2 DEF CallsOnly, Inside, OthersWait, Thread
  <2> QED
    BY <2>1, <2>2 DEF TwoInside
<1>3. CASE t \notin Inside
  <2>1. Inside' \subseteq Inside \cup {t} /\ IsFiniteSet(Inside \cup {t})
    BY <1>1, FS_AddElement DEF TwoInside, Inside
  <2>2. IsFiniteSet(Inside')
    BY <2>1, FS_Subset
  <2>3. Start(t)
    BY <1>3 DEF Step, Inside, Create, Write, Register, Infer, CloseFlag, CopyList, CloseClient,
                NextRegion, Unregister, Pop, Destroy, Untrack
  <2>4. CallsOnly' \/ \A u, v \in Inside : u = v
    <3>1. CASE MaxInside <= 2
      <4>1. Cardinality(Inside) \in Nat /\ Cardinality(Inside) <= 1
        BY <2>3, <3>1, FS_CardinalityType, SharedMemoryAssumption DEF Start, TwoInside
      <4>2. ASSUME NEW u \in Inside, NEW v \in Inside, u # v PROVE FALSE
        <5>1. Cardinality({u, v}) = 2
          <6>1. Cardinality({u}) = 1 /\ IsFiniteSet({u})
            BY FS_Singleton
          <6>2. {u, v} = {u} \cup {v} /\ v \notin {u}
            BY <4>2
          <6> QED
            BY <6>1, <6>2, FS_AddElement
        <5>2. {u, v} \subseteq Inside
          BY <4>2
        <5>3. Cardinality({u, v}) <= Cardinality(Inside)
          BY <5>2, FS_Subset DEF TwoInside
        <5> QED
          BY <4>1, <5>1, <5>3
      <4> QED
        BY <4>2
    <3> QED
      BY <3>1
  <2> QED
    BY <2>1, <2>2, <2>4 DEF TwoInside
<1> QED
  BY <1>2, <1>3

----------------------------------------------------------------------------
(* The theorems                                                             *)

LEMMA InitCleanup == Init => CleanupInv /\ TwoInside
<1> SUFFICES ASSUME Init PROVE CleanupInv /\ TwoInside
  OBVIOUS
<1>1. \A t \in Thread : pc[t] = "idle" /\ \A r, q : ~Listed(r, t) /\ ~Then(r, q, t)
  BY DEF Init, Listed, Has, Then
<1>2. (\A r : ~Tracked(r)) /\ Distinct /\ handles = {} /\ local = {}
  BY DEF Init, Tracked, Has, Distinct, NoneTwice
<1>3. \A r : ~InUse(r)
  BY <1>1, <1>2 DEF InUse
<1>4. Inside = {}
  BY <1>1 DEF Inside
<1>5. OwnRegions /\ Fresh /\ Covered /\ Shared /\ Relieved
  BY <1>1, <1>2, <1>3 DEF OwnRegions, Fresh, Covered, Shared, Relieved, Holds, Late, Thread
<1> QED
  BY <1>2, <1>4, <1>5, FS_EmptySet DEF CleanupInv, TwoInside

\* The invariant is inductive, for two threads inside or as long as there are
\* only calls.
LEMMA NextCleanup ==
  ASSUME TypeInv, CleanupInv, TwoInside, [Next]_vars, MaxInside <= 2 \/ CallsOnly'
  PROVE  TypeInv' /\ CleanupInv' /\ TwoInside'
<1>1. CASE UNCHANGED vars
  <2>1. UNCHANGED <<pc, call, closed, gone, closing, todo, tracked, handles, local, known,
                    undestroyed, unforgotten>>
    BY <1>1 DEF vars, ownVars, listVars, ghostVars
  <2>2. TypeInv'
    BY <2>1 DEF TypeInv, ClientTypes, ListInv, AtRegion
  <2>3. /\ \A u \in Thread : \A r : Listed(r, u)' <=> Listed(r, u)
        /\ \A u \in Thread : \A r, q : Then(r, q, u)' <=> Then(r, q, u)
        /\ \A u \in Thread : Current(u)' = Current(u)
        /\ \A r : (Tracked(r)' <=> Tracked(r)) /\ (InUse(r)' <=> InUse(r))
    BY <2>1 DEF Listed, Then, Current, At, Tracked, InUse
  <2>4. \A u \in Thread : (Holds(u)' <=> Holds(u)) /\ (Late(u)' <=> Late(u))
    BY <2>1, <2>3 DEF Holds, Late
  <2>5. OwnRegions' /\ Fresh' /\ Distinct'
    BY <2>1, <2>3 DEF CleanupInv, OwnRegions, Fresh, Distinct, Thread
  <2>6. Covered' /\ Shared' /\ Relieved'
    BY <2>1, <2>3, <2>4 DEF CleanupInv, Covered, Shared, Relieved
  <2> QED
    BY <2>1, <2>2, <2>5, <2>6 DEF CleanupInv, TwoInside, Inside, CallsOnly
<1>2. ASSUME NEW t \in Thread, Step(t) \/ Start(t)
      PROVE  TypeInv' /\ CleanupInv' /\ TwoInside'
  <2>1. TypeInv' /\ OthersWait(t)
    BY <1>2, StepKinds, NamesKept DEF CleanupInv
  <2>2. TwoInside'
    BY <1>2, <2>1, NextTwoInside
  <2> QED
    BY <1>2, <2>1, <2>2, StepKinds, CreatesKeeps, GoesOnKeeps, DropsKeeps, EndsKeeps, CopiesKeeps,
       TakesKeeps, DestroyKeeps DEF Moves
<1> QED
  BY <1>1, <1>2 DEF Next, Finished

\* When no thread is inside, nothing is left to clean up.
LEMMA QuietIsClean ==
  ASSUME TypeInv, CleanupInv
  PROVE  NoRegionLeaks
<1> SUFFICES ASSUME Quiet
             PROVE  tracked = <<>> /\ handles = {} /\ local \subseteq undestroyed
  BY DEF NoRegionLeaks
<1>1. \A t \in Thread : pc[t] \in {"idle", "done"} /\ \A r : ~Listed(r, t)
  BY DEF Quiet, Inside, TypeInv, ListInv, Listed, Has
<1>2. handles = {} /\ local \subseteq undestroyed /\ \A r \in Region : ~Tracked(r)
  BY <1>1 DEF CleanupInv, Covered, Holds
<1>3. tracked = <<>>
  BY <1>2, TrackedIsRegion DEF TypeInv, ClientTypes, Tracked, Has
<1> QED
  BY <1>2, <1>3

\* Two threads at a time, calls, cleanup() or close(), may overlap and may be
\* interrupted by an exception at every step: when they are through, nothing of
\* them is left (shared_memory_client.py:136-267).
THEOREM RegionsCleanedUp ==
  ASSUME MaxInside <= 2
  PROVE  Spec => []NoRegionLeaks
<1>1. Init => TypeInv /\ CleanupInv /\ TwoInside
  BY InitTypes, InitCleanup
<1>2. TypeInv /\ CleanupInv /\ TwoInside /\ [Next]_vars => (TypeInv /\ CleanupInv /\ TwoInside)'
  BY NextCleanup
<1> QED
  BY <1>1, <1>2, QuietIsClean, PTL DEF Spec

----------------------------------------------------------------------------
(* Calls alone                                                              *)

\* A closer that has begun does not come back.
LEMMA CallsOnlyEnds ==
  ASSUME pc \in [Thread -> Phase], [Next]_vars
  PROVE  pc' \in [Thread -> Phase] /\ (CallsOnly' => CallsOnly)
<1>1. CASE UNCHANGED vars
  BY <1>1 DEF vars, CallsOnly
<1>2. ASSUME NEW t \in Thread, Step(t) \/ Start(t)
      PROVE  pc' \in [Thread -> Phase] /\ (CallsOnly' => CallsOnly)
  <2>1. PICK phase \in Phase :
           /\ pc' = [pc EXCEPT ![t] = phase]
           /\ t \in Closers => phase # "idle"
    <3>1. t \in Closers => t \notin Callers
      BY SharedMemoryAssumption
    <3>2. UNCHANGED pc => pc' = [pc EXCEPT ![t] = pc[t]]
      OBVIOUS
    <3>3. CASE Step(t)
      <4>1. CASE t \in Callers /\ (Create(t) \/ Write(t) \/ Register(t) \/ Infer(t))
        BY <3>1, <4>1 DEF Create, Write, Register, Infer, Goto, Phase
      <4>2. CASE t \in Closers /\ (CloseFlag(t) \/ CopyList(t) \/ CloseClient(t))
        BY <4>2 DEF CloseFlag, CopyList, CloseClient, Goto, Phase
      <4>3. CASE NextRegion(t)
        <5>1. pc[t] = "clean"
          BY <4>3 DEF NextRegion
        <5> QED
          BY <3>1, <3>2, <4>3, <5>1 DEF NextRegion, Return, Goto, Phase
      <4>4. CASE Pop(t)
        BY <3>1, <4>4 DEF Pop, Return, Goto, Phase
      <4>5. CASE Unregister(t) \/ Destroy(t) \/ Untrack(t)
        BY <4>5 DEF Unregister, Destroy, Untrack, Goto, Phase
      <4> QED
        BY <3>3, <4>1, <4>2, <4>3, <4>4, <4>5 DEF Step
    <3>4. CASE Start(t)
      BY <3>1, <3>4 DEF Start, Begin, Cleanup, Close, Goto, Phase
    <3> QED
      BY <1>2, <3>3, <3>4
  <2> QED
    BY <2>1 DEF CallsOnly, Thread
<1> QED
  BY <1>1, <1>2 DEF Next, Finished

LEMMA NextStale ==
  ASSUME TypeInv, CleanupInv, StaleInv, CallsOnly, CallsOnly', TypeInv', [Next]_vars
  PROVE  StaleInv'
<1>1. CASE UNCHANGED vars
  BY <1>1 DEF vars, ownVars, listVars, ghostVars, StaleInv, Current, At
<1>2. ASSUME NEW t \in Thread, Step(t) \/ Start(t)
      PROVE  StaleInv'
  <2>0. ClientTypes /\ t \in Callers
    <3>1. ASSUME t \in Closers PROVE FALSE
      <4>1. pc[t] = "idle" /\ pc'[t] = "idle" /\ t \notin Callers /\ ClientTypes
        BY <3>1, SharedMemoryAssumption DEF CallsOnly, TypeInv
      <4>2. Close(t) \/ Cleanup(t)
        BY <1>2, <4>1 DEF Step, Start, CloseFlag, CopyList, CloseClient, NextRegion, Unregister,
                          Pop, Destroy, Untrack
      <4> QED
        BY <4>1, <4>2 DEF Close, Cleanup, Goto, ClientTypes
    <3> QED
      BY <3>1 DEF Thread, TypeInv
  <2>1. /\ OthersWait(t)
        /\ \A u \in Callers \ {t} : pc'[u] = pc[u] /\ Current(u)' = Current(u)
    <3>1. OthersWait(t)
      BY <1>2, StepKinds, NamesKept DEF CleanupInv
    <3> QED
      BY <3>1, OthersLists DEF Thread
  <2>2. CASE \/ Create(t) \/ Write(t) \/ Infer(t) \/ Begin(t) \/ NextRegion(t) \/ Untrack(t)
             \/ Pop(t) /\ Current(t) \notin handles
    <3>1. local \subseteq local' /\ UNCHANGED <<known, unforgotten>>
      BY <2>2 DEF Create, Write, Infer, Begin, NextRegion, Untrack, Pop, ownVars, ghostVars
    <3>2. pc'[t] \notin {"pop", "destroy"}
      <4>1. CASE Pop(t) /\ Current(t) \notin handles
        BY <4>1, EndsFacts DEF Thread, Ends
      <4>2. CASE NextRegion(t)
        BY <2>0, <4>2 DEF NextRegion, Return, Goto, ClientTypes
      <4> QED
        BY <2>0, <2>2, <4>1, <4>2 DEF Create, Write, Infer, Begin, Untrack, Goto, ClientTypes,
                                      Thread
    <3> QED
      BY <2>1, <3>1, <3>2 DEF StaleInv
  <2>3. CASE Register(t)
    <3>1. /\ known' \subseteq known \cup ({Current(t)} \cap local)
          /\ UNCHANGED <<local, unforgotten>>
          /\ pc'[t] \notin {"pop", "destroy"}
      BY <2>0, <2>3 DEF Register, Newest, Current, At, Last, Goto, ghostVars, ClientTypes, Thread
    <3>2. Listed(Current(t), t)
      BY <2>0, <2>3, CurrentListed DEF Register, TypeInv, ListInv, Thread
    <3>3. ASSUME NEW u \in Callers \ {t}, pc[u] \in {"pop", "destroy"} PROVE Current(u) # Current(t)
      <4>1. Current(u) \in Region /\ Listed(Current(u), u)
        BY <2>0, <3>3, CurrentListed DEF TypeInv, ListInv, AtRegion, Thread
      <4> QED
        BY <2>0, <3>2, <4>1 DEF CleanupInv, OwnRegions
    <3> QED
      BY <2>1, <3>1, <3>3 DEF StaleInv
  <2>4. CASE Unregister(t)
    <3>1. /\ Current(t)' = Current(t) /\ UNCHANGED local
          /\ \/ known' = known \ {Current(t)} /\ UNCHANGED unforgotten
             \/ known' = known /\ unforgotten' = unforgotten \cup ({Current(t)} \cap known)
      BY <2>4 DEF Unregister, Current, At
    <3> QED
      BY <2>1, <3>1 DEF StaleInv
  <2>5. CASE Pop(t) /\ Current(t) \in handles
    <3>1. /\ pc[t] = "pop" /\ Current(t)' = Current(t) /\ UNCHANGED <<local, known, unforgotten>>
      BY <2>5 DEF Pop, Current, At, ghostVars
    <3> QED
      BY <2>1, <3>1 DEF StaleInv
  <2>6. CASE Destroy(t)
    <3>1. /\ pc[t] = "destroy" /\ pc'[t] = "untrack" /\ local \ {Current(t)} \subseteq local'
          /\ UNCHANGED <<known, unforgotten>>
      BY <2>0, <2>6 DEF Destroy, Goto, ClientTypes, Thread
    <3> QED
      BY <2>0, <2>1, <3>1 DEF StaleInv
  <2> QED
    BY <1>2, <2>0, <2>2, <2>3, <2>4, <2>5, <2>6, SharedMemoryAssumption DEF Step, Start
<1> QED
  BY <1>1, <1>2 DEF Next, Finished

\* The invariant of a client that only makes calls.
CallsInv == TypeInv /\ CleanupInv /\ TwoInside /\ StaleInv

LEMMA CallsInvariant == Spec => [](CallsOnly => CallsInv)
<1>1. Init => pc \in [Thread -> Phase] /\ CallsInv
  BY InitTypes, InitCleanup DEF Init, StaleInv, CallsInv, TypeInv, ClientTypes, Thread
<1>2. /\ pc \in [Thread -> Phase] /\ (CallsOnly => CallsInv) /\ [Next]_vars
      => (pc \in [Thread -> Phase] /\ (CallsOnly => CallsInv))'
  BY CallsOnlyEnds, NextCleanup, NextStale DEF CallsInv
<1> QED
  BY <1>1, <1>2, PTL DEF Spec

\* As long as there are only calls, any number of them at a time leaves no
\* region behind either (shared_memory_client.py:136-267).
THEOREM CallsCleanUp == Spec => [](CallsOnly => NoRegionLeaks)
<1>1. CallsInv => NoRegionLeaks
  BY QuietIsClean DEF CallsInv
<1> QED
  BY <1>1, CallsInvariant, PTL

\* And the server never keeps the registration of a region that was destroyed,
\* unless the unregister call itself failed (shared_memory_client.py:241-263).
THEOREM NoStaleRegistrations == Spec => []NoStaleRegistration
<1>1. (CallsOnly => CallsInv) => NoStaleRegistration
  BY DEF CallsOnly, CallsInv, StaleInv, NoStaleRegistration
<1> QED
  BY <1>1, CallsInvariant, PTL

----------------------------------------------------------------------------
(* How long a call can go on                                                *)

Regions == Inputs + Outputs

\* How many steps a thread can take at most from a phase on, with k regions.
Left(phase, k) ==
    CASE phase = "create"     -> 8 * Regions + 3 - 3 * k
      [] phase = "write"      -> 8 * Regions + 5 - 3 * k
      [] phase = "register"   -> 8 * Regions + 4 - 3 * k
      [] phase = "flag"       -> 5 * k + 4
      [] phase \in {"infer", "copy"} -> 5 * k + 3
      [] phase = "clean"      -> 5 * k + 2
      [] phase = "unregister" -> 5 * k + 1
      [] phase = "pop"        -> 5 * k
      [] phase = "destroy"    -> 5 * k - 1
      [] phase = "untrack"    -> 5 * k - 2
      [] phase = "close"      -> 1
      [] OTHER                -> 0

\* A close() that has not copied the list of tracked regions yet.
Copying == {"flag", "copy"}

\* The regions a thread has; one that is copying is about to get the tracked ones.
Size(t) == IF pc[t] \in Copying THEN Len(tracked) ELSE Len(todo[t])
Work(t) == Left(pc[t], Size(t))

\* The steps inside of a call, with the regions before and after.
Goes(from, to, k, l) ==
    \/ from = "create" /\ to \in {"write", "register"} /\ l = k + 1
    \/ from \in {"create", "write", "register", "infer"} /\ to = "clean" /\ l = k /\ k <= Regions
    \/ from = "write" /\ to = "register" /\ l = k
    \/ from = "register" /\ to \in {"create", "infer"} /\ l = k /\ k <= Regions
    \/ from = "clean" /\ to = "unregister" /\ l = k
    \/ from = "clean" /\ to \in {"close", "idle", "done"}
    \/ from = "unregister" /\ to = "pop" /\ l = k
    \/ from = "pop" /\ to = "destroy" /\ l = k
    \/ from = "pop" /\ to \in {"idle", "done"} /\ k > 0
    \/ from = "destroy" /\ to = "untrack" /\ l = k
    \/ from \in {"clean", "untrack"} /\ to = "clean" /\ k > 0 /\ l = k - 1
    \/ from = "flag" /\ to = "copy" /\ l = k
    \/ from = "copy" /\ to = "clean" /\ l = k
    \/ from = "close" /\ to = "done"

LEMMA LeftFalls ==
  ASSUME Regions \in Nat, NEW from, NEW to, NEW k \in Nat, NEW l \in Nat, Goes(from, to, k, l)
  PROVE  Left(to, l) < Left(from, k)
BY SMTT(60) DEF Left, Goes

LEMMA LeftBounded ==
  ASSUME Regions \in Nat, NEW phase \in Phase, NEW k \in Nat, NEW calling \in BOOLEAN,
         phase = "create" => k < Regions,
         phase \in {"write", "register"} => k >= 1 /\ k <= Regions,
         phase \in {"unregister", "pop", "destroy", "untrack"} => k > 0,
         calling => k <= Regions /\ phase # "flag"
  PROVE  /\ Left(phase, k) \in Nat /\ (Left(phase, k) = 0 <=> phase \in {"idle", "done"})
         /\ calling => Left(phase, k) <= 8 * Regions + 3
BY SMTT(60) DEF Left, Phase

LEMMA Sizes ==
  ASSUME ClientTypes, NEW t \in Thread
  PROVE  /\ Regions \in Nat /\ Inputs <= Regions
         /\ Len(todo[t]) \in Nat /\ Len(tracked) \in Nat
         /\ Size(t) \in Nat /\ (pc[t] \notin Copying => Size(t) = Len(todo[t]))
BY SharedMemoryAssumption DEF ClientTypes, Regions, Size

\* There is work left exactly as long as the thread is inside.
LEMMA WorkBounded ==
  ASSUME TypeInv, NEW t \in Thread
  PROVE  /\ Work(t) \in Nat /\ (Work(t) = 0 <=> pc[t] \in {"idle", "done"})
         /\ t \in Callers => Work(t) <= 8 * Regions + 3
<1> DEFINE k == Size(t)
           calling == t \in Callers
<1>1. /\ Regions \in Nat /\ Inputs \in Nat /\ Inputs <= Regions
      /\ k \in Nat /\ (pc[t] \notin Copying => k = Len(todo[t])) /\ pc[t] \in Phase /\ ListInv(t)
  BY Sizes, SharedMemoryAssumption DEF TypeInv, ClientTypes
<1>2. /\ pc[t] = "create" => k < Regions
      /\ pc[t] \in {"write", "register"} => k >= 1 /\ k <= Regions
      /\ pc[t] \in {"unregister", "pop", "destroy", "untrack"} => k > 0
      /\ calling => k <= Regions /\ pc[t] # "flag"
  <2>1. pc[t] \in Copying => todo[t] = <<>> /\ t \notin Callers
    BY <1>1 DEF ListInv, Copying
  <2>2. pc[t] \in {"create", "write", "register", "unregister", "pop", "destroy", "untrack"}
           => pc[t] \notin Copying
    BY DEF Copying
  <2> HIDE DEF k
  <2> QED
    BY <1>1, <2>1, <2>2 DEF ListInv, Regions, AtRegion, Copying
<1>3. Work(t) = Left(pc[t], k) /\ calling \in BOOLEAN
  BY DEF Work
<1> HIDE DEF k, calling
<1>4. /\ Left(pc[t], k) \in Nat /\ (Left(pc[t], k) = 0 <=> pc[t] \in {"idle", "done"})
      /\ calling => Left(pc[t], k) <= 8 * Regions + 3
  BY <1>1, <1>2, <1>3, LeftBounded
<1> QED
  BY <1>3, <1>4 DEF calling

LEMMA StepGoes ==
  ASSUME TypeInv, Distinct, NEW t \in Thread, Step(t), TypeInv'
  PROVE  Goes(pc[t], pc'[t], Size(t), Size(t)')
<1> DEFINE k == Len(todo[t])
           l == Len(todo'[t])
<1>1. /\ ClientTypes /\ ListInv(t) /\ Regions \in Nat /\ k \in Nat /\ l \in Nat
      /\ pc \in [Thread -> Phase] /\ todo \in [Thread -> Seq(Region)]
  BY Sizes DEF TypeInv, ClientTypes
<1>2. (pc[t] \notin Copying => Size(t) = k) /\ (pc'[t] \notin Copying => Size(t)' = l)
  BY DEF Size
<1> HIDE DEF k, l
<1> USE DEF Copying
<1>3. CASE t \in Callers /\ Creates(t)
  <2>1. /\ pc[t] = "create" /\ pc'[t] \in {"write", "register"}
        /\ todo'[t] = Append(todo[t], NewRegion(t)) /\ todo[t] \in Seq(Region)
    BY <1>1, <1>3, CreateFacts
  <2>2. l = k + 1
    BY <2>1 DEF k, l
  <2> QED
    BY <1>1, <1>2, <2>1, <2>2 DEF Goes
<1>4. CASE t \in Callers /\ (Create(t) \/ Write(t) \/ Register(t) \/ Infer(t)) /\ ~Creates(t)
  <2>1. l = k
    BY <1>4 DEF Creates, Write, Register, Infer, k, l
  <2>2. k <= Regions /\ pc[t] \notin Copying /\ pc'[t] \notin Copying
    BY <1>1, <1>4 DEF TypeInv, ListInv, Regions, k
  <2>3. CASE pc'[t] = "clean"
    <3>1. pc[t] \in {"create", "write", "register", "infer"}
      BY <1>4 DEF Create, Write, Register, Infer
    <3> QED
      BY <1>1, <1>2, <2>1, <2>2, <2>3, <3>1 DEF Goes
  <2>4. CASE pc'[t] # "clean"
    <3>1. \/ pc[t] = "write" /\ pc'[t] = "register"
          \/ pc[t] = "register" /\ pc'[t] = "create"
          \/ pc[t] = "register" /\ pc'[t] = "infer" /\ k = Regions
      <4>1. CASE Write(t)
        BY <1>1, <2>4, <4>1 DEF Write, Goto
      <4>2. CASE Register(t)
        BY <1>1, <2>4, <4>2 DEF Register, Goto, Regions, k
      <4>3. CASE Infer(t)
        BY <1>1, <2>4, <4>3 DEF Infer, Goto
      <4>4. CASE Create(t)
        <5>1. Goto(t, "clean")
          BY <1>4, <4>4, NoCreation
        <5> QED
          BY <1>1, <2>4, <5>1 DEF Goto
      <4> QED
        BY <1>4, <4>1, <4>2, <4>3, <4>4
    <3> QED
      BY <1>1, <1>2, <2>1, <2>2, <3>1 DEF Goes
  <2> QED
    BY <2>3, <2>4
<1>12. CASE t \in Closers /\ CloseFlag(t)
  <2>1. /\ pc[t] = "flag" /\ pc'[t] = "copy" /\ Len(tracked) \in Nat
        /\ UNCHANGED tracked
    BY <1>1, <1>12, Sizes DEF CloseFlag, Goto, listVars
  <2>2. Size(t) = Len(tracked) /\ Size(t)' = Len(tracked)
    BY <2>1 DEF Size
  <2> QED
    BY <2>1, <2>2 DEF Goes
<1>5. CASE t \in Closers /\ CopyList(t)
  <2>1. pc[t] = "copy" /\ pc'[t] = "clean" /\ l = Len(tracked) /\ Len(tracked) \in Nat
    BY <1>1, <1>5, Sizes DEF CopyList, Goto, k, l
  <2>2. Size(t) = Len(tracked)
    BY <2>1 DEF Size
  <2> QED
    BY <1>1, <1>2, <2>1, <2>2 DEF Goes
<1>6. CASE t \in Closers /\ CloseClient(t)
  <2>1. pc[t] = "close" /\ pc'[t] = "done"
    BY <1>1, <1>6 DEF CloseClient, Goto
  <2> QED
    BY <1>1, <1>2, <2>1 DEF Goes
<1>7. CASE NextRegion(t)
  <2>1. CASE Drops(t)
    <3>1. /\ k > 0 /\ todo'[t] = Rest(t) /\ pc[t] \in {"clean", "untrack"} /\ pc'[t] = "clean"
      BY <2>1, DropsFacts DEF k, l
    <3>2. l = k - 1
      BY <1>1, <3>1, ShorterList DEF k, l
    <3> QED
      BY <1>1, <1>2, <3>1, <3>2 DEF Goes
  <2>2. CASE Ends(t)
    <3>1. pc[t] = "clean" /\ pc'[t] \in {"idle", "done"}
      BY <1>7, <2>2, EndsFacts DEF NextRegion
    <3> QED
      BY <1>1, <1>2, <3>1 DEF Goes
  <2>3. CASE ~Drops(t) /\ ~Ends(t)
    <3>1. pc[t] = "clean" /\ UNCHANGED todo /\ pc'[t] \in {"unregister", "close"}
      <4>1. CASE todo[t] = <<>>
        BY <1>1, <1>7, <2>3, <4>1 DEF NextRegion, Ends, Goto
      <4>2. CASE todo[t] # <<>> /\ Current(t) \in handles
        BY <1>1, <1>7, <4>2 DEF NextRegion, Goto
      <4>3. CASE todo[t] # <<>> /\ Current(t) \notin handles
        BY <1>1, <1>7, <2>3, <4>3 DEF NextRegion, Drops
      <4> QED
        BY <4>1, <4>2, <4>3
    <3>2. l = k
      BY <3>1 DEF k, l
    <3> QED
      BY <1>2, <3>1, <3>2 DEF Goes
  <2> QED
    BY <2>1, <2>2, <2>3
<1>8. CASE Unregister(t)
  <2>1. pc[t] = "unregister" /\ pc'[t] = "pop" /\ l = k
    BY <1>1, <1>8 DEF Unregister, Goto, k, l
  <2> QED
    BY <1>1, <1>2, <2>1 DEF Goes
<1>9. CASE Pop(t)
  <2>1. CASE Takes(t)
    <3>1. pc[t] = "pop" /\ pc'[t] = "destroy" /\ l = k
      BY <2>1, TakesFacts DEF k, l
    <3> QED
      BY <1>1, <1>2, <3>1 DEF Goes
  <2>2. CASE Ends(t)
    <3>1. pc[t] = "pop" /\ pc'[t] \in {"idle", "done"} /\ k > 0
      BY <1>1, <1>9, <2>2, EndsFacts DEF Pop, ListInv, AtRegion, k, l
    <3> QED
      BY <1>1, <1>2, <3>1 DEF Goes
  <2> QED
    BY <1>9, <2>1, <2>2 DEF Takes, Ends
<1>10. CASE Destroy(t)
  <2>1. pc[t] = "destroy" /\ pc'[t] = "untrack" /\ l = k
    BY <1>10, DestroyFacts DEF k, l
  <2> QED
    BY <1>1, <1>2, <2>1 DEF Goes
<1>11. CASE Untrack(t)
  <2>1. /\ k > 0 /\ todo'[t] = Rest(t) /\ pc[t] = "untrack" /\ pc'[t] = "clean"
    BY <1>11, DropsFacts DEF Drops, Untrack, k, l
  <2>2. l = k - 1
    BY <1>1, <2>1, ShorterList DEF k, l
  <2> QED
    BY <1>1, <1>2, <2>1, <2>2 DEF Goes
<1> QED
  BY <1>3, <1>4, <1>5, <1>6, <1>7, <1>8, <1>9, <1>10, <1>11, <1>12 DEF Step, Creates

\* Every step of a thread leaves less.
LEMMA StepWorks ==
  ASSUME TypeInv, Distinct, NEW t \in Thread, Step(t), TypeInv'
  PROVE  Work(t)' < Work(t)
<1>1. Goes(pc[t], pc'[t], Size(t), Size(t)')
  BY StepGoes
<1>2. Regions \in Nat /\ Size(t) \in Nat /\ Size(t)' \in Nat
  <2>1. (Size(t) \in Nat)'
    <3>1. ClientTypes'
      BY DEF TypeInv
    <3> QED
      BY <3>1, SharedMemoryAssumption DEF ClientTypes, Size
  <2> QED
    BY <2>1, Sizes DEF TypeInv
<1> QED
  BY <1>1, <1>2, LeftFalls DEF Work

\* The names are kept apart, and the types kept, for any number of threads.
NamesInv == TypeInv /\ OwnRegions /\ Fresh /\ Distinct

LEMMA NextNames ==
  ASSUME NamesInv, [Next]_vars
  PROVE  NamesInv'
<1>1. CASE UNCHANGED vars
  BY <1>1 DEF vars, ownVars, listVars, ghostVars, NamesInv, TypeInv, ClientTypes, ListInv, AtRegion,
              OwnRegions, Fresh, Distinct, InUse, Tracked, Listed
<1>2. ASSUME NEW t \in Thread, Step(t) \/ Start(t) PROVE NamesInv'
  BY <1>2, StepKinds, NamesKept DEF NamesInv
<1> QED
  BY <1>1, <1>2 DEF Next, Finished

\* What one step does to everybody's work.
LEMMA NextWorks ==
  ASSUME NamesInv, [Next]_vars
  PROVE  [\A t \in Thread :
             /\ Step(t) => Work(t)' < Work(t)
             /\ pc[t] \notin {"idle", "flag", "copy"} /\ ~Step(t) => Work(t)' = Work(t)]_vars
<1>1. CASE UNCHANGED vars
  BY <1>1
<1>2. ASSUME NEW u \in Thread, Step(u) \/ Start(u), NEW t \in Thread
      PROVE  /\ Step(t) => Work(t)' < Work(t)
             /\ pc[t] \notin {"idle", "flag", "copy"} /\ ~Step(t) => Work(t)' = Work(t)
  <2>1. OthersWait(u) /\ NamesInv'
    BY <1>2, StepKinds, NamesKept DEF NamesInv
  <2>2. Step(t) => Work(t)' < Work(t)
    BY <2>1, StepWorks DEF NamesInv
  <2>3. ASSUME pc[t] \notin {"idle", "flag", "copy"}, ~Step(t) PROVE Work(t)' = Work(t)
    <3>1. t # u
      BY <1>2, <2>3 DEF Start, Begin, Cleanup, Close
    <3> QED
      BY <2>1, <2>3, <3>1 DEF OthersWait, Work, Size, Copying
  <2> QED
    BY <2>2, <2>3
<1> QED
  BY <1>1, <1>2 DEF Next, Finished

\* A call takes at most eight steps for each of its regions and three more, and
\* cleanup() and close() at most five for each region they find and four more,
\* whatever step fails and whoever is at the same regions: nothing in
\* _cleanup_regions waits for another thread, and no loop in it is endless
\* (shared_memory_client.py:136-267, 280-291).  A thread is in a call as long as
\* it has work left.
THEOREM CallsRunOut ==
  Spec => /\ []\A t \in Thread :
                 /\ Work(t) \in Nat /\ (Work(t) = 0 <=> pc[t] \in {"idle", "done"})
                 /\ t \in Callers => Work(t) <= 8 * (Inputs + Outputs) + 3
          /\ [][\A t \in Thread :
                   /\ Step(t) => Work(t)' < Work(t)
                   /\ pc[t] \notin {"idle", "flag", "copy"} /\ ~Step(t) => Work(t)' = Work(t)]_vars
<1>1. Init => NamesInv
  BY InitTypes, InitCleanup DEF NamesInv, CleanupInv
<1>2. NamesInv /\ [Next]_vars => NamesInv'
  BY NextNames
<1>3. NamesInv => \A t \in Thread :
                     /\ Work(t) \in Nat /\ (Work(t) = 0 <=> pc[t] \in {"idle", "done"})
                     /\ t \in Callers => Work(t) <= 8 * (Inputs + Outputs) + 3
  BY WorkBounded DEF NamesInv, Regions
<1>4. NamesInv /\ [Next]_vars
      => [\A t \in Thread :
            /\ Step(t) => Work(t)' < Work(t)
            /\ pc[t] \notin {"idle", "flag", "copy"} /\ ~Step(t) => Work(t)' = Work(t)]_vars
  BY NextWorks
<1> QED
  BY <1>1, <1>2, <1>3, <1>4, PTL DEF Spec

=============================================================================
