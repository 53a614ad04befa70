------------------------ MODULE PlayerEvidenceProofs ------------------------
(***************************************************************************)
(* What holds of a player's signs of life and of the evidence it sends.    *)
(* First InsideOverride, for any players, overrides, sizes of the queue    *)
(* and of a batch, and any number of plays and faults; then PlayerHealth,  *)
(* for any number of players, incidents, workers and requests, and any     *)
(* thresholds.                                                             *)
(***************************************************************************)
EXTENDS InsideOverride, FiniteSetTheorems, WellFoundedInduction, NaturalsInduction, TLAPS

Ends == {"COMPLETED", "FAILED"}
Alike(u, v) == u.item = v.item /\ u.type = v.type
OnlyOnce(v) == v.type \in Ends
Convex(S) == \A x, z \in S : \A y \in x..z : y \in S
Below(S, T) == \A x \in S, y \in T : x < y
Sent(w) == UNION {w[i] : i \in 1..Len(w)}
Late(m, e) == Len(m) - e >= Capacity
StartLate(m, r, e) == m[e].type = "INTERRUPTED" /\ (Late(m, e - 1) \/ e - 1 \in r)

(* m: the events of a player, d: its page, r: those refused for good, s:   *)
(* what is stored of them, l: a late request.                              *)
Typed(m, d, s, l) ==
    /\ s \union l \union d.queue \union d.rejected \subseteq 1..Len(m)
    /\ \A i \in 1..Len(d.drain) : d.drain[i] \subseteq 1..Len(m)
    /\ d.stage # "idle" <=> d.drain # <<>>

History(m) ==
    \A e \in 1..Len(m) : m[e].type = "INTERRUPTED" =>
        e > 1 /\ m[e - 1].item = m[e].item /\ m[e - 1].type = "STARTED"
NoRepeat(m) == \A e, x \in 1..Len(m) : Alike(m[e], m[x]) /\ OnlyOnce(m[e]) => e = x

Playlist(m, d) ==
    /\ d.manifest \notin d.played /\ d.playing \notin d.played
    /\ d.playing # None =>
         m # <<>> /\ m[Len(m)].item = d.playing /\ m[Len(m)].type = "STARTED"
    /\ \A e \in 1..Len(m) : m[e].type \in Ends => m[e].item \in d.played

InOrder(m, q, r, w, s, l) ==
    /\ \A x \in q : \A y \in x..Len(m) : y \in q
    /\ \A i \in 1..Len(w) : Convex(w[i]) /\ Below(w[i], q \ Sent(w))
    /\ \A i, j \in 1..Len(w) : i < j => Below(w[i], w[j])
    /\ Convex(l) /\ Below(l, q \ (s \union l))
    /\ \A x \in q \ s : StartLate(m, r, x) \/ Below(s, {x})

Kept(m, q, r, s) ==
    \A e \in 1..Len(m) : e \in s \union q \union r \/ Late(m, e) \/ StartLate(m, r, e)

(* a: what has become of the area since; v, the event at e, is refused.    *)
Area(p) == [old |-> aged[p], since |-> intent[p], last |-> Len(assigned[p])]
Lapsed(a, e, v) == v.overdue \/ v.ended \/ e <= a.old \/ a.since[v.item] < a.last
Refused(a, m, r) ==
    \A e \in r : m[e].item \in Override /\ m[e].type = "COMPLETED" => Lapsed(a, e, m[e])

InTime(v) == v.type = "COMPLETED" => ~v.overdue /\ ~v.ended /\ ~v.during
Checked(a, m, w, g) ==
    /\ g = "checked" => \A e \in Head(w) : InTime(m[e])
    /\ g = "bad" => \E e \in Head(w) : Refused(a, m, {e})

LEMMA LeastOf ==
    ASSUME NEW S \in SUBSET Nat, S # {}
    PROVE  \E x \in S : \A y \in S : x <= y
<1>1. PICK x \in S : \A y \in S : ~(<<y, x>> \in OpToRel(<, Nat))
  BY NatLessThanWellFounded, WFMin
<1>2. \A y \in S : ~(y < x)
  BY <1>1 DEF OpToRel
<1>3. QED
  BY <1>2

LEMMA GreatestOf ==
    ASSUME NEW S \in SUBSET Nat, S # {}, NEW n \in Nat, \A x \in S : x <= n
    PROVE  \E x \in S : \A y \in S : y <= x
<1> DEFINE T == {m \in Nat : \A x \in S : x <= m}
<1>1. PICK t \in T : \A u \in T : t <= u
  BY LeastOf, n \in T
<1>2. t \in S
  <2> SUFFICES ASSUME t \notin S PROVE FALSE
    OBVIOUS
  <2>1. PICK x \in S : TRUE
    OBVIOUS
  <2>2. t - 1 \in Nat
    BY <2>1
  <2>3. \A y \in S : y <= t - 1
    OBVIOUS
  <2>4. t - 1 \in T
    BY <2>2, <2>3
  <2>5. QED
    BY <1>1, <2>4
<1>3. QED
  BY <1>2

LEMMA MaxOf ==
    ASSUME NEW S \in SUBSET Nat, S # {}, NEW n \in Nat, \A x \in S : x <= n
    PROVE  Max(S) \in S /\ \A x \in S : x <= Max(S)
<1>1. PICK x \in S : \A y \in S : y <= x
  BY GreatestOf
<1>2. \A y \in S : x >= y
  BY <1>1
<1>3. QED
  BY <1>2 DEF Max


LEMMA FinitePositions ==
    ASSUME NEW n \in Nat, NEW S \in SUBSET (1..n)
    PROVE  S \in SUBSET Nat /\ IsFiniteSet(S) /\ Cardinality(S) \in Nat
<1>1. IsFiniteSet(1..n)
  BY FS_Interval
<1>2. IsFiniteSet(S)
  BY <1>1, FS_Subset
<1>3. QED
  BY <1>2, FS_CardinalityType

(* A part of a set of positions. *)
LEMMA FirstOfType ==
    ASSUME NEW n \in Nat, NEW S \in SUBSET (1..n), NEW k \in Nat
    PROVE  /\ FirstOf(S, k) \subseteq S
           /\ k > 0 /\ S # {} => FirstOf(S, k) # {}
           /\ \A x \in FirstOf(S, k), y \in S \ FirstOf(S, k) : x < y
<1>0. S \in SUBSET Nat /\ IsFiniteSet(S)
  BY FinitePositions
<1>1. ASSUME k > 0, S # {} PROVE FirstOf(S, k) # {}
  <2>1. PICK x \in S : \A y \in S : x <= y
    BY <1>0, <1>1, LeastOf
  <2>a. x \in Int /\ \A y \in S : ~(y < x)
    BY <2>1
  <2>2. {y \in S : y < x} = {}
    BY <2>a
  <2>3. x \in FirstOf(S, k)
    BY <2>2, <1>1, FS_EmptySet DEF FirstOf
  <2>4. QED
    BY <2>3
<1>2. ASSUME NEW x \in FirstOf(S, k), NEW y \in S \ FirstOf(S, k) PROVE x < y
  <2>0. x \in S /\ y \in S /\ x \in Int /\ y \in Int
    BY DEF FirstOf
  <2> SUFFICES ASSUME y <= x PROVE FALSE
    BY <2>0
  <2> DEFINE A == {z \in S : z < x}
             B == {z \in S : z < y}
  <2>a. \A z \in S : z < y => z < x
    BY <2>0
  <2>1. B \subseteq A /\ A \subseteq S
    BY <2>a
  <2>2. IsFiniteSet(A) /\ Cardinality(B) <= Cardinality(A) /\ IsFiniteSet(B)
    BY <2>1, <1>0, FS_Subset
  <2>3. Cardinality(A) \in Nat /\ Cardinality(B) \in Nat
    BY <2>2, FS_CardinalityType
  <2>4. Cardinality(A) < k /\ ~(Cardinality(B) < k)
    BY <2>0 DEF FirstOf
  <2>5. QED
    BY <2>2, <2>3, <2>4
<1>3. QED
  BY <1>1, <1>2 DEF FirstOf

LEMMA HalvesType ==
    ASSUME NEW n \in Nat, NEW S \in SUBSET (1..n), Cardinality(S) > 1
    PROVE  \E a, b \in (SUBSET S) \ {{}} :
             /\ Halves(S) = <<a, b>>
             /\ a \union b = S
             /\ \A x \in a, y \in b : x < y
<1> DEFINE k == Cardinality(S)
           first == FirstOf(S, k \div 2)
<1>0. S \in SUBSET Nat /\ IsFiniteSet(S) /\ k \in Nat
  BY FinitePositions
<1>1. k \div 2 \in Nat /\ k \div 2 > 0 /\ k \div 2 <= k - 1
  BY <1>0
<1>2. S # {}
  BY FS_EmptySet
<1>3. first \subseteq S /\ first # {} /\ \A x \in first, y \in S \ first : x < y
  BY <1>1, <1>2, FirstOfType
<1>4. S \ first # {}
  <2>1. \A x \in S : x <= n
    OBVIOUS
  <2>2. PICK x \in S : \A y \in S : y <= x
    BY <1>0, <1>2, <2>1, GreatestOf
  <2>a. x \in Int /\ \A y \in S : y \in Int /\ (y < x <=> y # x)
    BY <2>2
  <2>3. {y \in S : y < x} = S \ {x}
    BY <2>a
  <2>4. Cardinality(S \ {x}) = k - 1
    BY <1>0, FS_RemoveElement
  <2>5. ~(Cardinality({y \in S : y < x}) < k \div 2)
    BY <2>3, <2>4, <1>1, <1>0
  <2>b. x \notin first
    BY <2>5 DEF FirstOf
  <2>6. QED
    BY <2>b
<1>5. Halves(S) = <<first, S \ first>>
  BY DEF Halves
<1> HIDE DEF first
<1>7. first \union (S \ first) = S /\ first \in (SUBSET S) \ {{}} /\ S \ first \in (SUBSET S) \ {{}}
  BY <1>3, <1>4
<1>6. QED
  BY <1>3, <1>5, <1>7

(* Only the oldest events leave the queue, and only when as many are newer *)
(* as it holds.                                                            *)
LEMMA QueuedType ==
    ASSUME NEW n \in Nat, NEW S \in SUBSET (1..n), Capacity \in Nat \ {0}
    PROVE  /\ Queued(S, n + 1) \subseteq S \union {n + 1}
           /\ \A q \in Queued(S, n + 1), x \in S \union {n + 1} : q < x => x \in Queued(S, n + 1)
           /\ n + 1 \in Queued(S, n + 1)
           /\ \A x \in S : x \in Queued(S, n + 1) \/ (n + 1) - x >= Capacity
<1> DEFINE T == S \union {n + 1}
           Newer(x) == {y \in T : y > x}
<1>0. T \in SUBSET (1..(n + 1)) /\ \A x \in T : x \in Int
  OBVIOUS
<1>1. \A x \in T : Newer(x) \in SUBSET T /\ IsFiniteSet(Newer(x)) /\ Cardinality(Newer(x)) \in Nat
  <2> TAKE x \in T
  <2>1. IsFiniteSet(T)
    BY <1>0, FinitePositions
  <2>2. IsFiniteSet(Newer(x))
    BY <2>1, FS_Subset
  <2>3. QED
    BY <2>2, FS_CardinalityType
<1>2. ASSUME NEW q \in Queued(S, n + 1), NEW x \in T, q < x PROVE x \in Queued(S, n + 1)
  <2>1. q \in T /\ Cardinality(Newer(q)) < Capacity
    BY DEF Queued
  <2>2. \A y \in T : y > x => y > q
    BY <1>0, <1>2, <2>1
  <2>3. Newer(x) \in SUBSET Newer(q)
    BY <2>2
  <2>4. Cardinality(Newer(x)) <= Cardinality(Newer(q))
    BY <2>1, <2>3, <1>1, FS_Subset
  <2>a. Cardinality(Newer(x)) \in Nat /\ Cardinality(Newer(q)) \in Nat
    BY <1>1, <2>1
  <2> HIDE DEF Newer
  <2>5. Cardinality(Newer(x)) < Capacity
    BY <2>1, <2>4, <2>a
  <2> USE DEF Newer
  <2>6. QED
    BY <2>5 DEF Queued
<1>3. n + 1 \in Queued(S, n + 1)
  <2>1. \A y \in T : ~(y > n + 1)
    OBVIOUS
  <2>2. Newer(n + 1) = {}
    BY <2>1
  <2>3. QED
    BY <2>2, FS_EmptySet DEF Queued
<1>4. ASSUME NEW x \in S, x \notin Queued(S, n + 1) PROVE (n + 1) - x >= Capacity
  <2>1. ~(Cardinality(Newer(x)) < Capacity)
    BY <1>4 DEF Queued
  <2>a. \A y \in T : y \in 1..(n + 1)
    BY <1>0
  <2>b. x \in 1..n /\ x \in T
    OBVIOUS
  <2>c. \A y \in T : y > x => y \in (x + 1)..(n + 1)
    BY <2>a, <2>b
  <2>2. Newer(x) \subseteq (x + 1)..(n + 1)
    BY <2>c
  <2>3. /\ IsFiniteSet((x + 1)..(n + 1))
        /\ Cardinality((x + 1)..(n + 1)) = (n + 1) - x
    BY <2>b, FS_Interval
  <2>4. Cardinality(Newer(x)) <= (n + 1) - x
    BY <2>2, <2>3, FS_Subset
  <2>d. Cardinality(Newer(x)) \in Nat
    BY <2>b, <1>1
  <2> HIDE DEF Newer
  <2>5. QED
    BY <2>1, <2>b, <2>4, <2>d
<1>5. QED
  BY <1>2, <1>3, <1>4 DEF Queued

-----------------------------------------------------------------------------
LEMMA NoneLeft ==
    ASSUME NEW m, NEW q, NEW r, NEW w, NEW s, NEW l, InOrder(m, q, r, w, s, l)
    PROVE  InOrder(m, q, r, <<>>, s, l)
BY DEF InOrder

LEMMA HeadFirst ==
    ASSUME NEW m, NEW q, NEW r, NEW w \in Seq((SUBSET Nat) \ {{}}), NEW s, NEW l,
           InOrder(m, q, r, w, s, l), w # <<>>
    PROVE  /\ Head(w) = w[1] /\ 1 \in 1..Len(w)
           /\ Convex(Head(w)) /\ Below(Head(w), q \ Head(w))
<1>1. Head(w) = w[1] /\ 1 \in 1..Len(w)
  OBVIOUS
<1>2. Convex(w[1])
  BY <1>1 DEF InOrder
<1>3. ASSUME NEW x \in w[1], NEW y \in q \ w[1] PROVE x < y
  <2>1. CASE y \in Sent(w)
    <3>1. PICK i \in 1..Len(w) : y \in w[i]
      BY <2>1 DEF Sent
    <3>2. 1 < i
      BY <3>1
    <3>3. QED
      BY <1>1, <3>1, <3>2 DEF InOrder, Below
  <2>2. CASE y \notin Sent(w)
    BY <1>1, <2>2 DEF InOrder, Below
  <2>3. QED
    BY <2>1, <2>2
<1>4. QED
  BY <1>1, <1>2, <1>3 DEF Below

LEMMA HeadAnswered ==
    ASSUME NEW m \in Seq(PlaybackEvent), NEW q, NEW r, NEW w \in Seq((SUBSET Nat) \ {{}}), NEW s,
           NEW l, NEW t, q \subseteq 1..Len(m), InOrder(m, q, r, w, s, l), w # <<>>,
           \A x \in (q \ Head(w)) \ (s \union t) : StartLate(m, r, x) \/ Below(s \union t, {x})
    PROVE  InOrder(m, q \ Head(w), r, Tail(w), s \union t, l)
<1> DEFINE q2 == q \ Head(w)
           w2 == Tail(w)
<1>1. /\ Head(w) = w[1] /\ 1 \in 1..Len(w)
      /\ Below(Head(w), q \ Head(w))
  BY HeadFirst
<1>2. /\ Len(w2) = Len(w) - 1 /\ Len(w) \in Nat
      /\ \A i \in 1..Len(w2) : i + 1 \in 1..Len(w) /\ w2[i] = w[i + 1]
  OBVIOUS
<1>3. \A x \in q2 : \A y \in x..Len(m) : y \in q2
  <2> TAKE x \in q2
  <2> TAKE y \in x..Len(m)
  <2>1. y \in q
    BY DEF InOrder
  <2>2. y \notin Head(w)
    BY <1>1 DEF Below
  <2>3. QED
    BY <2>1, <2>2
<1>4. \A x \in q2 : x \notin Sent(w2) => x \notin Sent(w)
  <2> SUFFICES ASSUME NEW x \in q2, NEW i \in 1..Len(w), x \in w[i] PROVE x \in Sent(w2)
    BY DEF Sent
  <2>1. i - 1 \in 1..Len(w2)
    BY <1>1, <1>2
  <2>2. w2[i - 1] = w[i]
    BY <2>1, <1>2
  <2>3. QED
    BY <2>1, <2>2 DEF Sent
<1>5. \A i \in 1..Len(w2) : Convex(w2[i]) /\ Below(w2[i], q2 \ Sent(w2))
  <2> TAKE i \in 1..Len(w2)
  <2>1. Convex(w[i + 1]) /\ Below(w[i + 1], q \ Sent(w))
    BY <1>2 DEF InOrder
  <2>2. q2 \ Sent(w2) \subseteq q \ Sent(w)
    BY <1>4
  <2>3. QED
    BY <1>2, <2>1, <2>2 DEF Below
<1>6. \A i, j \in 1..Len(w2) : i < j => Below(w2[i], w2[j])
  <2> TAKE i, j \in 1..Len(w2)
  <2> HAVE i < j
  <2>1. i + 1 \in 1..Len(w) /\ j + 1 \in 1..Len(w) /\ i + 1 < j + 1
    BY <1>2
  <2>2. QED
    BY <1>2, <2>1 DEF InOrder
<1>7. Convex(l) /\ Below(l, q2 \ ((s \union t) \union l))
  BY DEF InOrder, Below
<1> HIDE DEF q2, w2
<1>8. \A x \in q2 \ (s \union t) : StartLate(m, r, x) \/ Below(s \union t, {x})
  BY DEF q2
<1>9. InOrder(m, q2, r, w2, s \union t, l)
  BY <1>3, <1>5, <1>6, <1>7, <1>8 DEF InOrder
<1>10. QED
  BY <1>9 DEF q2, w2

LEMMA HeadForgotten ==
    ASSUME NEW m, NEW q, NEW r, NEW w \in Seq((SUBSET Nat) \ {{}}), NEW s, NEW l,
           InOrder(m, q, r, w, s, l), w # <<>>
    PROVE  InOrder(m, q, r, <<>>, s, Head(w))
<1>1. Convex(Head(w)) /\ Below(Head(w), q \ Head(w))
  BY HeadFirst
<1>2. Below(Head(w), q \ (s \union Head(w)))
  BY <1>1 DEF Below
<1>3. QED
  BY <1>1, <1>2 DEF InOrder

(* The next batch. *)
LEMMA NextBatch ==
    ASSUME NEW m \in Seq(PlaybackEvent), NEW q, NEW r, NEW s, NEW l,
           q \subseteq 1..Len(m), q # {}, InOrder(m, q, r, <<>>, s, l), BatchSize \in Nat \ {0}
    PROVE  /\ FirstOf(q, BatchSize) \in (SUBSET Nat) \ {{}}
           /\ FirstOf(q, BatchSize) \subseteq 1..Len(m)
           /\ InOrder(m, q, r, <<FirstOf(q, BatchSize)>>, s, l)
<1>1. PICK a : a = FirstOf(q, BatchSize)
  OBVIOUS
<1>2. /\ a \subseteq q /\ a # {}
      /\ \A x \in a, y \in q \ a : x < y
  <2>1. PICK n \in Nat : n = Len(m)
    OBVIOUS
  <2>2. q \in SUBSET (1..n) /\ BatchSize > 0 /\ BatchSize \in Nat
    BY <2>1
  <2>3. QED
    BY <2>2, <1>1, FirstOfType
<1>3. Convex(a)
  <2> SUFFICES ASSUME NEW x \in a, NEW z \in a, NEW y \in x..z PROVE y \in a
    BY DEF Convex
  <2>1. y \in x..Len(m)
    BY <1>2
  <2>2. y \in q
    BY <2>1, <1>2 DEF InOrder
  <2>3. QED
    BY <1>2, <2>2
<1>4. Sent(<<a>>) = a
  BY DEF Sent
<1>5. InOrder(m, q, r, <<a>>, s, l)
  <2>1. \A i \in 1..Len(<<a>>) : <<a>>[i] = a
    OBVIOUS
  <2>2. Below(a, q \ a)
    BY <1>2 DEF Below
  <2>3. Len(<<a>>) = 1
    OBVIOUS
  <2>4. PICK w : w = <<a>>
    OBVIOUS
  <2>5. /\ \A i \in 1..Len(w) : Convex(w[i]) /\ Below(w[i], q \ Sent(w))
        /\ \A i, j \in 1..Len(w) : ~(i < j)
    <3>1. Sent(w) = a /\ Len(w) = 1 /\ w[1] = a
      BY <1>4, <2>4
    <3>2. QED
      BY <3>1, <1>3, <2>2
  <2>6. InOrder(m, q, r, w, s, l)
    BY <2>5 DEF InOrder
  <2>7. QED
    BY <2>4, <2>6
<1>6. a \subseteq 1..Len(m)
  BY <1>2
<1>7. QED
  BY <1>1, <1>2, <1>5, <1>6

(* The first part, cut in two. *)
LEMMA HeadCut ==
    ASSUME NEW m \in Seq(PlaybackEvent), NEW q, NEW r, NEW w \in Seq((SUBSET Nat) \ {{}}), NEW s,
           NEW l, w # <<>>, Head(w) \subseteq 1..Len(m), Cardinality(Head(w)) > 1,
           InOrder(m, q, r, w, s, l), \A i \in 1..Len(w) : w[i] \subseteq 1..Len(m)
    PROVE  LET w2 == Halves(Head(w)) \o Tail(w)
           IN  /\ w2 \in Seq((SUBSET Nat) \ {{}}) /\ w2 # <<>>
               /\ \A i \in 1..Len(w2) : w2[i] \subseteq 1..Len(m)
               /\ InOrder(m, q, r, w2, s, l)
               /\ Sent(w2) = Sent(w) /\ Len(w2) = Len(w) + 1
<1>n. PICK n \in Nat : n = Len(m)
  OBVIOUS
<1>s. PICK h \in SUBSET (1..n) : h = Head(w)
  BY <1>n
<1>1. PICK a, b \in (SUBSET h) \ {{}} :
        /\ Halves(h) = <<a, b>>
        /\ a \union b = h
        /\ \A x \in a, y \in b : x < y
  <2>1. Cardinality(h) > 1
    BY <1>s
  <2>2. QED
    BY <2>1, HalvesType
<1>2. PICK w2 : w2 = <<a, b>> \o Tail(w)
  OBVIOUS
<1>h. /\ h = w[1] /\ Head(w) = w[1] /\ 1 \in 1..Len(w)
      /\ Convex(w[1]) /\ Below(w[1], q \ w[1])
  <2>1. Head(w) = w[1] /\ 1 \in 1..Len(w) /\ Convex(Head(w)) /\ Below(Head(w), q \ Head(w))
    BY HeadFirst
  <2>2. QED
    BY <2>1, <1>s
<1>3. /\ w2 \in Seq((SUBSET Nat) \ {{}}) /\ w2 # <<>> /\ Len(w2) = Len(w) + 1
      /\ w2[1] = a /\ w2[2] = b /\ Len(w) \in Nat \ {0}
  <2>1. a \in (SUBSET Nat) \ {{}} /\ b \in (SUBSET Nat) \ {{}}
    BY <1>1
  <2>2. <<a, b>> \in Seq((SUBSET Nat) \ {{}}) /\ Tail(w) \in Seq((SUBSET Nat) \ {{}})
    BY <2>1
  <2>3. /\ Len(Tail(w)) = Len(w) - 1 /\ Len(w) \in Nat \ {0}
    OBVIOUS
  <2>4. QED
    BY <1>2, <2>2, <2>3
<1>a. \A i \in 2..Len(w) : i + 1 \in 1..Len(w2) /\ w2[i + 1] = w[i]
  <2> TAKE i \in 2..Len(w)
  <2>1. Tail(w)[i - 1] = w[i]
    OBVIOUS
  <2>2. QED
    BY <1>2, <1>3, <2>1
<1>b. ASSUME NEW i \in 1..Len(w2)
      PROVE  \/ i = 1 /\ w2[i] = a
             \/ i = 2 /\ w2[i] = b
             \/ \E k \in 2..Len(w) : i = k + 1 /\ w2[i] = w[k]
  <2>1. CASE i \in 1..2
    BY <2>1, <1>3
  <2>2. CASE i \notin 1..2
    <3>1. i - 1 \in 2..Len(w) /\ i = (i - 1) + 1
      BY <2>2, <1>3
    <3>2. w2[(i - 1) + 1] = w[i - 1]
      BY <3>1, <1>a
    <3>3. QED
      BY <3>1, <3>2
  <2>3. QED
    BY <2>1, <2>2
<1>c. a \subseteq w[1] /\ b \subseteq w[1] /\ a \union b = w[1] /\ w[1] \subseteq 1..Len(m)
  BY <1>1, <1>h, <1>n
<1>4. Sent(w2) = Sent(w)
  <2>1. ASSUME NEW x \in Sent(w) PROVE x \in Sent(w2)
    <3>1. PICK i \in 1..Len(w) : x \in w[i]
      BY DEF Sent
    <3>2. CASE i = 1
      <4>1. x \in w2[1] \/ x \in w2[2]
        BY <3>1, <3>2, <1>c, <1>3
      <4>2. 1 \in 1..Len(w2) /\ 2 \in 1..Len(w2)
        BY <1>3
      <4>3. QED
        BY <4>1, <4>2 DEF Sent
    <3>3. CASE i # 1
      <4>1. i + 1 \in 1..Len(w2) /\ w2[i + 1] = w[i]
        BY <3>3, <1>a
      <4>2. QED
        BY <4>1, <3>1 DEF Sent
    <3>4. QED
      BY <3>2, <3>3
  <2>2. ASSUME NEW x \in Sent(w2) PROVE x \in Sent(w)
    <3>1. PICK i \in 1..Len(w2) : x \in w2[i]
      BY DEF Sent
    <3>2. CASE x \in w[1]
      BY <3>2, <1>h DEF Sent
    <3>3. CASE x \notin w[1]
      <4>1. PICK k \in 2..Len(w) : w2[i] = w[k]
        BY <3>1, <3>3, <1>b, <1>c
      <4>2. k \in 1..Len(w)
        OBVIOUS
      <4>3. QED
        BY <4>1, <4>2, <3>1 DEF Sent
    <3>4. QED
      BY <3>2, <3>3
  <2>3. QED
    BY <2>1, <2>2
<1>5. /\ Convex(a) /\ Convex(b)
      /\ Below(a, q \ Sent(w)) /\ Below(b, q \ Sent(w))
  <2>1. Convex(a)
    <3> SUFFICES ASSUME NEW x \in a, NEW z \in a, NEW y \in x..z PROVE y \in a
      BY DEF Convex
    <3>1. y \in w[1]
      BY <1>h, <1>c DEF Convex
    <3>2. ~(z < y)
      BY <1>c
    <3>3. QED
      BY <1>1, <1>c, <3>1, <3>2
  <2>2. Convex(b)
    <3> SUFFICES ASSUME NEW x \in b, NEW z \in b, NEW y \in x..z PROVE y \in b
      BY DEF Convex
    <3>1. y \in w[1]
      BY <1>h, <1>c DEF Convex
    <3>2. ~(y < x)
      BY <1>c
    <3>3. QED
      BY <1>1, <1>c, <3>1, <3>2
  <2>3. Below(w[1], q \ Sent(w))
    BY <1>h DEF InOrder
  <2>4. QED
    BY <2>1, <2>2, <2>3, <1>c DEF Below
<1>6. ASSUME NEW i \in 1..Len(w2)
      PROVE  /\ Convex(w2[i]) /\ Below(w2[i], q \ Sent(w2))
             /\ w2[i] \subseteq 1..Len(m)
  <2>1. CASE w2[i] \in {a, b}
    BY <2>1, <1>c, <1>4, <1>5
  <2>2. CASE \E k \in 2..Len(w) : w2[i] = w[k]
    <3>1. PICK k \in 2..Len(w) : w2[i] = w[k]
      BY <2>2
    <3>2. k \in 1..Len(w)
      OBVIOUS
    <3>3. QED
      BY <3>1, <3>2, <1>4 DEF InOrder
  <2>3. QED
    BY <2>1, <2>2, <1>b
<1>7. ASSUME NEW i \in 1..Len(w2), NEW j \in 1..Len(w2), i < j
      PROVE  Below(w2[i], w2[j])
  <2>1. CASE i = 1 /\ j = 2
    BY <2>1, <1>1, <1>3 DEF Below
  <2>b. i \in Nat /\ j \in Nat
    OBVIOUS
  <2>a. j \in Nat /\ i \in Nat /\ (j > 2 => j # 1 /\ j # 2) /\ (i > 2 => i # 1 /\ i # 2)
    BY <2>b
  <2>2. CASE i \in 1..2 /\ j > 2
    <3>1. PICK k \in 2..Len(w) : w2[j] = w[k]
      BY <2>2, <2>a, <1>b
    <3>2. k \in 1..Len(w) /\ 1 < k
      OBVIOUS
    <3>3. Below(w[1], w[k])
      BY <3>2, <1>h DEF InOrder
    <3>4. i = 1 \/ i = 2
      BY <2>2, <2>a
    <3>6. w2[i] \subseteq w[1]
      BY <3>4, <1>3, <1>c
    <3>5. QED
      BY <3>1, <3>3, <3>6 DEF Below
  <2>3. CASE i > 2
    <3>1. PICK k \in 2..Len(w) : i = k + 1 /\ w2[i] = w[k]
      BY <2>3, <2>a, <1>b
    <3>2. PICK g \in 2..Len(w) : j = g + 1 /\ w2[j] = w[g]
      <4>1. j > 2
        BY <2>3, <2>a, <1>7
      <4>2. QED
        BY <4>1, <2>a, <1>b
    <3>3. k \in 1..Len(w) /\ g \in 1..Len(w) /\ k < g
      BY <3>1, <3>2, <1>7
    <3>4. Below(w[k], w[g])
      BY <3>3 DEF InOrder
    <3>5. QED
      BY <3>1, <3>2, <3>4
  <2>4. QED
    BY <2>1, <2>2, <2>3, <1>7
<1>8. InOrder(m, q, r, w2, s, l)
  BY <1>6, <1>7 DEF InOrder
<1>9. QED
  BY <1>1, <1>2, <1>3, <1>4, <1>6, <1>8, <1>s

-----------------------------------------------------------------------------
(* One more event. *)
LEMMA OneMore ==
    ASSUME NEW m \in Seq(PlaybackEvent), NEW v \in PlaybackEvent
    PROVE  LET m2 == Append(m, v)
           IN  /\ m2 \in Seq(PlaybackEvent) /\ Len(m2) = Len(m) + 1 /\ Len(m) \in Nat
               /\ \A e \in 1..Len(m) : e \in 1..Len(m2) /\ m2[e] = m[e]
               /\ m2[Len(m) + 1] = v
               /\ \A e \in 1..Len(m2) : e \in 1..Len(m) \/ e = Len(m) + 1
OBVIOUS

LEMMA MoreHistory ==
    ASSUME NEW m \in Seq(PlaybackEvent), NEW v \in PlaybackEvent, History(m),
           v.type = "INTERRUPTED" =>
             m # <<>> /\ m[Len(m)].item = v.item /\ m[Len(m)].type = "STARTED"
    PROVE  History(Append(m, v))
<1>1. PICK m2 : m2 = Append(m, v)
  OBVIOUS
<1>2. /\ Len(m2) = Len(m) + 1 /\ Len(m) \in Nat
      /\ \A e \in 1..Len(m) : e \in 1..Len(m2) /\ m2[e] = m[e]
      /\ m2[Len(m) + 1] = v
      /\ \A e \in 1..Len(m2) : e \in 1..Len(m) \/ e = Len(m) + 1
  BY <1>1, OneMore
<1>3. ASSUME NEW e \in 1..Len(m2), m2[e].type = "INTERRUPTED"
      PROVE  e > 1 /\ m2[e - 1].item = m2[e].item /\ m2[e - 1].type = "STARTED"
  <2>1. CASE e \in 1..Len(m)
    <3>1. e > 1 /\ m[e - 1].item = m[e].item /\ m[e - 1].type = "STARTED"
      BY <2>1, <1>2, <1>3 DEF History
    <3>2. e - 1 \in 1..Len(m)
      BY <3>1, <2>1
    <3>3. QED
      BY <2>1, <3>1, <3>2, <1>2
  <2>2. CASE e = Len(m) + 1
    <3>1. m # <<>> /\ m[Len(m)].item = v.item /\ m[Len(m)].type = "STARTED"
      BY <2>2, <1>2, <1>3
    <3>2. Len(m) > 0 /\ Len(m) \in 1..Len(m) /\ e - 1 = Len(m)
      BY <3>1, <2>2, <1>2
    <3>3. QED
      BY <2>2, <3>1, <3>2, <1>2
  <2>3. QED
    BY <2>1, <2>2, <1>2
<1>4. History(m2)
  BY <1>3 DEF History
<1>5. QED
  BY <1>1, <1>4

LEMMA MoreNoRepeat ==
    ASSUME NEW m \in Seq(PlaybackEvent), NEW v \in PlaybackEvent, NoRepeat(m),
           OnlyOnce(v) => \A e \in 1..Len(m) : ~Alike(m[e], v)
    PROVE  NoRepeat(Append(m, v))
<1>1. PICK m2 : m2 = Append(m, v)
  OBVIOUS
<1>2. /\ \A e \in 1..Len(m) : m2[e] = m[e]
      /\ m2[Len(m) + 1] = v
      /\ \A e \in 1..Len(m2) : e \in 1..Len(m) \/ e = Len(m) + 1
  BY <1>1, OneMore
<1>3. ASSUME NEW e \in 1..Len(m2), NEW x \in 1..Len(m2), Alike(m2[e], m2[x]), OnlyOnce(m2[e])
      PROVE  e = x
  <2>1. CASE e \in 1..Len(m) /\ x \in 1..Len(m)
    BY <2>1, <1>2, <1>3 DEF NoRepeat
  <2>2. CASE e \in 1..Len(m) /\ x = Len(m) + 1
    BY <2>2, <1>2, <1>3 DEF Alike, OnlyOnce
  <2>3. CASE e = Len(m) + 1 /\ x \in 1..Len(m)
    BY <2>3, <1>2, <1>3 DEF Alike, OnlyOnce
  <2>4. QED
    BY <2>1, <2>2, <2>3, <1>2
<1>4. NoRepeat(m2)
  BY <1>3 DEF NoRepeat
<1>5. QED
  BY <1>1, <1>4

(* The rest of what holds of a player's events, with one more of them that *)
(* is queued.                                                              *)
LEMMA MoreRefused ==
    ASSUME NEW m \in Seq(PlaybackEvent), NEW v \in PlaybackEvent, NEW a, NEW r,
           r \subseteq 1..Len(m), Refused(a, m, r)
    PROVE  Refused(a, Append(m, v), r)
BY OneMore DEF Refused

LEMMA MoreChecked ==
    ASSUME NEW m \in Seq(PlaybackEvent), NEW v \in PlaybackEvent, NEW a, NEW w, NEW g,
           g \in {"checked", "bad"} => Head(w) \subseteq 1..Len(m), Checked(a, m, w, g)
    PROVE  Checked(a, Append(m, v), w, g)
<1>1. PICK m2 : m2 = Append(m, v)
  OBVIOUS
<1>2. \A e \in 1..Len(m) : m2[e] = m[e]
  BY <1>1, OneMore
<1>3. g = "checked" => \A e \in Head(w) : InTime(m2[e])
  BY <1>2 DEF Checked
<1>4. g = "bad" => \E e \in Head(w) : Refused(a, m2, {e})
  <2> SUFFICES ASSUME g = "bad" PROVE \E e \in Head(w) : Refused(a, m2, {e})
    OBVIOUS
  <2>1. PICK e \in Head(w) : Refused(a, m, {e})
    BY DEF Checked
  <2>2. Refused(a, m2, {e})
    BY <2>1, <1>2 DEF Refused
  <2>3. QED
    BY <2>2
<1>5. QED
  BY <1>1, <1>3, <1>4 DEF Checked

LEMMA StaysLate ==
    ASSUME NEW m \in Seq(PlaybackEvent), NEW v \in PlaybackEvent, NEW r, NEW e \in 1..Len(m),
           Capacity \in Nat
    PROVE  /\ Late(m, e) => Late(Append(m, v), e)
           /\ StartLate(m, r, e) => StartLate(Append(m, v), r, e)
<1>1. PICK m2 : m2 = Append(m, v)
  OBVIOUS
<1>2. Len(m2) = Len(m) + 1 /\ Len(m) \in Nat /\ m2[e] = m[e]
  BY <1>1, OneMore
<1>3. Late(m, e) => Late(m2, e)
  BY <1>2 DEF Late
<1>4. Late(m, e - 1) => Late(m2, e - 1)
  BY <1>2 DEF Late
<1>5. QED
  BY <1>1, <1>2, <1>3, <1>4 DEF StartLate

LEMMA MoreKept ==
    ASSUME NEW m \in Seq(PlaybackEvent), NEW v \in PlaybackEvent, NEW q, NEW r, NEW s,
           q \subseteq 1..Len(m), Capacity \in Nat \ {0}, Kept(m, q, r, s)
    PROVE  Kept(Append(m, v), Queued(q, Len(m) + 1), r, s)
<1>1. PICK m2 : m2 = Append(m, v)
  OBVIOUS
<1>2. PICK n \in Nat : n = Len(m)
  OBVIOUS
<1>3. /\ Len(m2) = n + 1
      /\ \A e \in 1..Len(m2) : e \in 1..Len(m) \/ e = n + 1
  BY <1>1, <1>2, OneMore
<1>q. PICK q2 : q2 = Queued(q, n + 1)
  OBVIOUS
<1>4. n + 1 \in q2 /\ \A x \in q : x \in q2 \/ (n + 1) - x >= Capacity
  <2>1. q \in SUBSET (1..n)
    BY <1>2
  <2>2. QED
    BY <2>1, <1>q, QueuedType
<1>5. ASSUME NEW e \in 1..Len(m2)
      PROVE  e \in s \union q2 \union r \/ Late(m2, e) \/ StartLate(m2, r, e)
  <2>1. CASE e \in 1..Len(m)
    <3>1. e \in s \union q \union r \/ Late(m, e) \/ StartLate(m, r, e)
      BY <2>1 DEF Kept
    <3>2. Late(m, e) \/ StartLate(m, r, e) => Late(m2, e) \/ StartLate(m2, r, e)
      BY <2>1, <1>1, StaysLate
    <3>3. e \in q => e \in q2 \/ Late(m2, e)
      BY <1>3, <1>4 DEF Late
    <3>4. QED
      BY <3>1, <3>2, <3>3
  <2>2. CASE e = n + 1
    BY <2>2, <1>4
  <2>3. QED
    BY <2>1, <2>2, <1>3
<1>6. Kept(m2, q2, r, s)
  BY <1>5 DEF Kept
<1>7. QED
  BY <1>1, <1>2, <1>q, <1>6

LEMMA MoreInOrder ==
    ASSUME NEW m \in Seq(PlaybackEvent), NEW v \in PlaybackEvent, NEW q, NEW r, NEW w, NEW s, NEW l,
           q \subseteq 1..Len(m), s \subseteq 1..Len(m), l \subseteq 1..Len(m),
           \A i \in 1..Len(w) : w[i] \subseteq 1..Len(m),
           Capacity \in Nat \ {0}, InOrder(m, q, r, w, s, l)
    PROVE  /\ InOrder(Append(m, v), Queued(q, Len(m) + 1), r, w, s, l)
           /\ Queued(q, Len(m) + 1) \subseteq 1..(Len(m) + 1)
<1>1. PICK m2 : m2 = Append(m, v)
  OBVIOUS
<1>2. PICK n \in Nat : n = Len(m)
  OBVIOUS
<1>3. Len(m2) = n + 1
  BY <1>1, <1>2, OneMore
<1>q. PICK q2 : q2 = Queued(q, n + 1)
  OBVIOUS
<1>4. /\ q2 \subseteq q \union {n + 1}
      /\ \A x \in q2, y \in q \union {n + 1} : x < y => y \in q2
  <2>1. q \in SUBSET (1..n)
    BY <1>2
  <2>2. QED
    BY <2>1, <1>q, QueuedType
<1>5. q2 \subseteq 1..(n + 1)
  BY <1>2, <1>4
<1>6. ASSUME NEW x \in q2, NEW y \in x..Len(m2) PROVE y \in q2
  <2>1. x \in 1..(n + 1) /\ y \in 1..(n + 1)
    BY <1>3, <1>5
  <2>2. CASE x = n + 1
    BY <2>1, <2>2, <1>3
  <2>3. CASE x \in q
    <3>1. y \in q \union {n + 1}
      <4>1. CASE y = n + 1
        BY <4>1
      <4>2. CASE y # n + 1
        <5>1. y \in x..Len(m)
          BY <4>2, <2>1, <1>2
        <5>2. QED
          BY <5>1, <2>3 DEF InOrder
      <4>3. QED
        BY <4>1, <4>2
    <3>2. x < y \/ x = y
      BY <2>1
    <3>3. QED
      BY <3>1, <3>2, <1>4
  <2>4. QED
    BY <2>2, <2>3, <1>4
<1>7. ASSUME NEW i \in 1..Len(w) PROVE Convex(w[i]) /\ Below(w[i], q2 \ Sent(w))
  <2>1. Convex(w[i]) /\ Below(w[i], q \ Sent(w))
    BY DEF InOrder
  <2>2. \A x \in w[i] : x < n + 1
    BY <1>2
  <2>3. QED
    BY <2>1, <2>2, <1>4 DEF Below
<1>8. Below(l, q2 \ (s \union l))
  <2>1. Below(l, q \ (s \union l))
    BY DEF InOrder
  <2>2. \A x \in l : x < n + 1
    BY <1>2
  <2>3. QED
    BY <2>1, <2>2, <1>4 DEF Below
<1>9. ASSUME NEW x \in q2 \ s PROVE StartLate(m2, r, x) \/ Below(s, {x})
  <2>1. CASE x \in q
    <3>1. StartLate(m, r, x) \/ Below(s, {x})
      BY <2>1 DEF InOrder
    <3>2. StartLate(m, r, x) => StartLate(m2, r, x)
      BY <2>1, <1>1, StaysLate
    <3>3. QED
      BY <3>1, <3>2
  <2>2. CASE x = n + 1
    BY <2>2, <1>2 DEF Below
  <2>3. QED
    BY <2>1, <2>2, <1>4
<1>10. InOrder(m2, q2, r, w, s, l)
  <2>1. Convex(l) /\ \A i, j \in 1..Len(w) : i < j => Below(w[i], w[j])
    BY DEF InOrder
  <2>2. QED
    BY <2>1, <1>6, <1>7, <1>8, <1>9 DEF InOrder
<1>11. QED
  BY <1>1, <1>2, <1>q, <1>5, <1>10

-----------------------------------------------------------------------------
(* What the server takes of a part.                                        *)
LEMMA Latest ==
    ASSUME NEW S \in SUBSET Nat, NEW n \in Nat, \A x \in S : x <= n
    PROVE  /\ Max(S \union {0}) \in S \union {0}
           /\ \A x \in S : x <= Max(S \union {0})
           /\ S # {} => Max(S) \in S /\ \A x \in S : x <= Max(S)
<1>1. S \union {0} \in SUBSET Nat /\ S \union {0} # {} /\ \A x \in S \union {0} : x <= n
  OBVIOUS
<1>2. QED
  BY <1>1, MaxOf

IsLast(last, p, i, t, before) ==
    /\ \/ last = 0
       \/ /\ last \in before \union stored[p]
          /\ made[p][last].item = i /\ made[p][last].type = t
    /\ \A x \in before : made[p][x].item = i /\ made[p][x].type = t => x <= last
    /\ \/ \E x \in before : made[p][x].item = i /\ made[p][x].type = t
       \/ \A x \in stored[p] : made[p][x].item = i /\ made[p][x].type = t => x <= last

LEMMA LastOfIn ==
    ASSUME NEW p, NEW i, NEW t, NEW n \in Nat, NEW before \in SUBSET (1..n),
           stored[p] \subseteq 1..n
    PROVE  IsLast(LastOf(p, i, t, before), p, i, t, before)
<1> DEFINE last == LastOf(p, i, t, before)
           b == {x \in before : made[p][x].item = i /\ made[p][x].type = t}
           c == {x \in stored[p] : made[p][x].item = i /\ made[p][x].type = t}
<1>0. b \subseteq 1..n /\ c \subseteq 1..n
  OBVIOUS
<1>2. last = IF b # {} THEN Max(b) ELSE Max(c \union {0})
  BY DEF LastOf
<1> HIDE DEF last
<1>3. /\ b # {} => Max(b) \in b /\ \A x \in b : x <= Max(b)
      /\ Max(c \union {0}) \in c \union {0} /\ \A x \in c : x <= Max(c \union {0})
  <2> HIDE DEF b, c
  <2>1. b \in SUBSET Nat /\ c \in SUBSET Nat /\ (\A x \in b : x <= n) /\ (\A x \in c : x <= n)
    BY <1>0
  <2>2. QED
    BY <2>1, Latest
<1>4. ASSUME b # {} PROVE IsLast(last, p, i, t, before)
  BY <1>2, <1>3, <1>4 DEF IsLast
<1>5. ASSUME b = {} PROVE IsLast(last, p, i, t, before)
  BY <1>2, <1>3, <1>5 DEF IsLast
<1>6. QED
  BY <1>4, <1>5 DEF last

(* part may be served: all that is older is stored, or will never be.      *)
Servable(p, m, s, q, r, part) ==
    /\ m \in Seq(PlaybackEvent) /\ m = made[p] /\ s = stored[p]
    /\ s \union q \union r \union part \subseteq 1..Len(m)
    /\ History(m) /\ NoRepeat(m) /\ Kept(m, q, r, s)
    /\ Convex(part) /\ Below(part, q \ (s \union part))
    /\ \A x \in q \ s : StartLate(m, r, x) \/ Below(s, {x})

LEMMA AllTaken ==
    ASSUME NEW p, NEW m, NEW s, NEW q, NEW r, NEW part, NEW taken,
           Servable(p, m, s, q, r, part), Accepted(p, part, taken), taken \subseteq part
    PROVE  \A e \in part \cap q : e \in s \union taken \/ StartLate(m, r, e)
<1> SUFFICES ASSUME NEW e \in part \cap q, e \notin s, ~StartLate(m, r, e)
             PROVE  e \in taken
  OBVIOUS
<1> USE DEF Servable
<1> DEFINE i == m[e].item
           t == m[e].type
<1>b. PICK before : before = {x \in taken : x < e}
  OBVIOUS
<1>1. PICK n \in Nat : n = Len(m)
  OBVIOUS
<1>2. /\ e \in 1..n /\ m[e] \in PlaybackEvent
      /\ before \in SUBSET (1..n) /\ stored[p] \subseteq 1..n
      /\ \A x \in before : x \in part /\ x < e /\ x \in Nat /\ x # e
      /\ \A x \in s : x \in Nat /\ x # e
  BY <1>1, <1>b
<1>3. \A x \in part : x \in taken <=> Fresh(p, x, {y \in taken : y < x})
  BY DEF Accepted
<1>4. SUFFICES Fresh(p, e, before)
  BY <1>3, <1>b
<1>5. \A x \in s : x < e
  BY DEF Below
<1>6. CASE t = "STARTED"
  BY <1>6 DEF Fresh
<1>7. CASE t \in Ends
  <2>1. \A x \in s \union before : made[p][x].item # i \/ made[p][x].type # t
    <3> SUFFICES ASSUME NEW x \in s \union before, Alike(m[e], m[x]) PROVE FALSE
      BY DEF Alike
    <3>1. x \in 1..Len(m) /\ x # e
      BY <1>1, <1>2
    <3>2. QED
      BY <3>1, <1>7, <1>1, <1>2 DEF NoRepeat, OnlyOnce
  <2>2. QED
    BY <1>7, <2>1 DEF Fresh, Ends
<1>8. CASE t = "INTERRUPTED"
  <2> DEFINE a == e - 1
  <2>s. PICK ls : ls = LastOf(p, i, "STARTED", before)
    OBVIOUS
  <2>i. PICK li : li = LastOf(p, i, "INTERRUPTED", before)
    OBVIOUS
  <2>1. a \in 1..n /\ m[a].item = i /\ m[a].type = "STARTED" /\ a < e
    BY <1>8, <1>1, <1>2 DEF History
  <2>2. a \in s \union q
    <3>1. ~Late(m, a)
      BY <1>8 DEF StartLate
    <3>2. ~StartLate(m, r, a)
      BY <2>1 DEF StartLate
    <3>3. a \notin r
      BY <1>8 DEF StartLate
    <3>4. QED
      BY <2>1, <1>1, <3>1, <3>2, <3>3 DEF Kept
  <2>3. a \in part => a \in before
    <3>1. Fresh(p, a, {y \in taken : y < a})
      BY <2>1 DEF Fresh
    <3>2. a \in part => a \in taken
      BY <3>1, <1>3
    <3>3. QED
      BY <3>2, <2>1, <1>b
  <2>4. a \notin part => before = {} /\ a \in s
    <3> SUFFICES ASSUME a \notin part PROVE before = {} /\ a \in s
      OBVIOUS
    <3>1. ASSUME NEW x \in before PROVE FALSE
      <4>1. a \in x..e
        BY <1>2, <2>1
      <4>2. QED
        BY <4>1, <1>2 DEF Convex
    <3>2. ASSUME a \notin s PROVE FALSE
      <4>1. a \in q \ (s \union part)
        BY <2>2, <3>2
      <4>2. e < a
        BY <4>1 DEF Below
      <4>3. QED
        BY <4>2, <2>1, <1>2
    <3>3. QED
      BY <3>1, <3>2
  <2>5. ls >= a /\ ls \in Int
    <3>1. /\ ls = 0 \/ ls \in before \union stored[p]
          /\ \A x \in before : made[p][x].item = i /\ made[p][x].type = "STARTED" => x <= ls
          /\ before = {} => \A x \in stored[p] :
               made[p][x].item = i /\ made[p][x].type = "STARTED" => x <= ls
      <4>1. IsLast(ls, p, i, "STARTED", before)
        BY <1>2, <2>s, LastOfIn
      <4>2. QED
        BY <4>1 DEF IsLast
    <3>2. ls \in Int
      BY <3>1, <1>2
    <3>3. a <= ls
      BY <3>1, <2>1, <2>3, <2>4
    <3>4. QED
      BY <3>2, <3>3, <2>1
  <2>6. li < a /\ li \in Int
    <3>1. li = 0 \/ (li \in before \union stored[p] /\ made[p][li].type = "INTERRUPTED")
      <4>1. IsLast(li, p, i, "INTERRUPTED", before)
        BY <1>2, <2>i, LastOfIn
      <4>2. QED
        BY <4>1 DEF IsLast
    <3>2. li = 0 \/ (li \in Nat /\ li < e /\ li # a)
      BY <3>1, <1>2, <1>5, <2>1
    <3>3. QED
      BY <3>2, <2>1, <1>2
  <2>7. ls > li
    BY <2>1, <2>5, <2>6
  <2>8. QED
    BY <1>8, <2>7, <2>s, <2>i DEF Fresh
<1>9. QED
  BY <1>2, <1>6, <1>7, <1>8 DEF PlaybackEvent, Ends

LEMMA TakenInOrder ==
    ASSUME NEW p, NEW m, NEW s, NEW q, NEW r, NEW part, NEW taken,
           Servable(p, m, s, q, r, part), Accepted(p, part, taken), taken \subseteq part
    PROVE  \A x \in q \ (s \union taken) : StartLate(m, r, x) \/ Below(s \union taken, {x})
<1> SUFFICES ASSUME NEW x \in q \ (s \union taken), ~StartLate(m, r, x)
             PROVE  Below(s \union taken, {x})
  OBVIOUS
<1>1. x \notin part
  <2>1. \A e \in part \cap q : e \in s \union taken \/ StartLate(m, r, e)
    BY AllTaken
  <2>2. QED
    BY <2>1
<1>2. Below(s, {x})
  BY DEF Servable
<1>3. Below(part, {x})
  BY <1>1 DEF Below, Servable
<1>4. QED
  BY <1>2, <1>3 DEF Below

LEMMA TakenOnce ==
    ASSUME NEW m \in Seq(PlaybackEvent), NEW s, s \subseteq 1..Len(m), NoRepeat(m)
    PROVE  \A e, x \in s : Alike(m[e], m[x]) /\ m[e].type = "COMPLETED" => e = x
BY DEF NoRepeat, OnlyOnce, Ends

(* As many proofs as targets, when no target has more than one.            *)
LEMMA AllCounted ==
    ASSUME NEW T, IsFiniteSet(T), NEW C,
           \A c \in C : c[1] \in T,
           \A b, c \in C : b[1] = c[1] => b = c
    PROVE  Cardinality(C) >= Cardinality(T) <=> \A x \in T : \E c \in C : c[1] = x
<1> DEFINE f == [c \in C |-> c[1]]
<1>1. f \in Injection(C, T)
  BY DEF Injection, IsInjective
<1>2. /\ IsFiniteSet(C) /\ Cardinality(C) <= Cardinality(T)
      /\ Cardinality(C) = Cardinality(T) <=> f \in Surjection(C, T)
  BY <1>1, FS_Injection
<1>3. Cardinality(C) \in Nat /\ Cardinality(T) \in Nat
  BY <1>2, FS_CardinalityType
<1>4. f \in Surjection(C, T) <=> \A x \in T : \E c \in C : c[1] = x
  BY DEF Surjection
<1>5. QED
  BY <1>2, <1>3, <1>4

(* The rows, the players and their pages.                                  *)
Shapes ==
    /\ faults \in 0..MaxFaults
    /\ override \in [Override -> OverrideRow \union {Absent}]
    /\ made \in [Player -> Seq(PlaybackEvent)]
    /\ device \in [Player -> DeviceState]
    /\ stored \in [Player -> SUBSET Nat] /\ late \in [Player -> SUBSET Nat]

AreasSound ==
    /\ assigned \in [Player -> Seq(Channel \union {None})]
    /\ intent \in [Player -> [Item -> Nat]] /\ aged \in [Player -> Nat]
    /\ \A p \in Player :
         /\ intent[p][Normal] \in 1..Len(assigned[p])
         /\ \A o \in Override : Known(o) /\ p \in o.targets =>
              intent[p][o] \in 1..Len(assigned[p])

EventSound(p, v) ==
    /\ v.item \in Override =>
         Known(v.item) /\ p \in v.item.targets /\ ~v.during /\ (v.ended => ~Active(v.item))
    /\ v.item = Normal => ~v.overdue /\ ~v.ended

Facts(p) ==
    /\ Typed(made[p], device[p], stored[p], late[p])
    /\ \A e \in 1..Len(made[p]) : EventSound(p, made[p][e])
    /\ \A e, x \in stored[p] :
         Alike(made[p][e], made[p][x]) /\ made[p][e].type = "COMPLETED" => e = x
    /\ \A e \in stored[p] : InTime(made[p][e])
    /\ p \in passed => \A e \in late[p] : InTime(made[p][e])
    /\ Refused(Area(p), made[p], device[p].rejected)

Obeyed(p) ==
    \A o \in Override : o = device[p].manifest \/ o = device[p].playing =>
        Known(o) /\ p \in o.targets

Page(p) ==
    /\ History(made[p]) /\ NoRepeat(made[p])
    /\ Playlist(made[p], device[p]) /\ Obeyed(p)
    /\ InOrder(made[p], device[p].queue, device[p].rejected, device[p].drain, stored[p], late[p])
    /\ Kept(made[p], device[p].queue, device[p].rejected, stored[p])
    /\ Checked(Area(p), made[p], device[p].drain, device[p].stage)

IInv ==
    /\ Shapes /\ AreasSound /\ passed \subseteq Player \ Prompt
    /\ OneOverridePerArea /\ CompletedIsDelivered
    /\ \A p \in Player : Facts(p)
    /\ \A p \in Player \ Prompt : Page(p)

-----------------------------------------------------------------------------
LEMMA ItemTypes ==
    /\ Normal \notin Override /\ None \notin Override /\ Normal # None
    /\ Absent \notin OverrideRow
    /\ \A r \in OverrideRow \union {Absent} : r # Absent <=> r \in OverrideRow
    /\ \A o \in Override : /\ o.type \in {"PRIORITY", "EMERGENCY"} /\ o.targets # {}
                           /\ o.targets \subseteq Player
<1>1. Absent \notin OverrideRow
  BY DEF Absent, OverrideRow, Ended
<1>2. \A o \in Override : /\ o.type \in {"PRIORITY", "EMERGENCY"} /\ o.targets # {}
                          /\ o.targets \subseteq Player
  BY OverrideAssumption
<1>3. QED
  BY <1>1, <1>2, NamesAssumption

LEMMA ClosedRow ==
    ASSUME NEW r \in OverrideRow, NEW st \in Ended
    PROVE  /\ Closed(r, st) \in OverrideRow
           /\ Closed(r, st).due = r.due
           /\ r.status = "ACTIVE" => Closed(r, st).status = st
           /\ r.status # "ACTIVE" => Closed(r, st) = r
           /\ st # "ACTIVE"
BY DEF Closed, OverrideRow, Ended

LEMMA ClosedAbsent == \A st : Closed(Absent, st) = Absent
BY DEF Closed, Absent

(* What a step may do to an override that exists.                          *)
Evolves(o) ==
    \/ override'[o] = override[o]
    \/ \E st \in Ended : override'[o] = Closed(override[o], st)
    \/ override'[o] = [override[o] EXCEPT !.due = TRUE]

(* What is known of an override stays true of it.                          *)
Stays(o) ==
    /\ override'[o] \in OverrideRow /\ Known(o)'
    /\ Active(o)' => Active(o)
    /\ Running(o)' => Running(o)
    /\ ~Active(o) => override'[o].status = override[o].status
OverridesStay == \A o \in Override : Known(o) => Stays(o)

LEMMA EvolvesStays ==
    ASSUME Shapes, NEW o \in Override, Known(o), Evolves(o)
    PROVE  Stays(o)
<1>1. PICK r \in OverrideRow : r = override[o]
  BY ItemTypes DEF Shapes, Known
<1>2. CASE override'[o] = override[o]
  BY <1>1, <1>2, ItemTypes DEF Stays, Known, Active, Running
<1>3. CASE \E st \in Ended : override'[o] = Closed(override[o], st)
  <2>1. PICK st \in Ended : override'[o] = Closed(r, st)
    BY <1>1, <1>3
  <2>2. /\ Closed(r, st) \in OverrideRow
        /\ Closed(r, st).due = r.due
        /\ r.status = "ACTIVE" => Closed(r, st).status = st
        /\ r.status # "ACTIVE" => Closed(r, st) = r
        /\ st # "ACTIVE"
    BY ClosedRow
  <2>3. PICK c : c = Closed(r, st)
    OBVIOUS
  <2>4. QED
    BY <1>1, <2>1, <2>2, <2>3, ItemTypes DEF Stays, Known, Active, Running
<1>4. CASE override'[o] = [override[o] EXCEPT !.due = TRUE]
  <2>1. PICK c : c = [r EXCEPT !.due = TRUE]
    OBVIOUS
  <2>2. c \in OverrideRow /\ c.status = r.status /\ c.due
    BY <2>1 DEF OverrideRow
  <2>3. override'[o] = c
    BY <1>1, <1>4, <2>1
  <2>4. QED
    BY <1>1, <2>2, <2>3, ItemTypes DEF Stays, Known, Active, Running
<1>5. QED
  BY <1>2, <1>3, <1>4 DEF Evolves

(* A step that starts no override.                                         *)
NoneStarts ==
    /\ override' \in [Override -> OverrideRow \union {Absent}]
    /\ \A o \in Override : Known(o) => Evolves(o)
    /\ \A o \in Override : ~Known(o) => override'[o] = override[o]

LEMMA NoneStartsStay ==
    ASSUME Shapes, NoneStarts
    PROVE  OverridesStay
BY EvolvesStays DEF NoneStarts, OverridesStay

LEMMA OneStays ==
    ASSUME Shapes, NoneStarts, OneOverridePerArea
    PROVE  OneOverridePerArea'
<1>1. OverridesStay
  BY NoneStartsStay
<1>2. \A o \in Override : Known(o)' => Known(o)
  BY DEF NoneStarts, Known
<1>3. QED
  BY <1>1, <1>2 DEF OverridesStay, Stays, OneOverridePerArea

LEMMA UnchangedStarts ==
    ASSUME Shapes, override' = override
    PROVE  NoneStarts
BY DEF Shapes, NoneStarts, Evolves

(* What a step may do to an area: its channels and its events get more.    *)
Grows(p) ==
    /\ aged[p] \in Nat /\ aged'[p] \in Nat /\ aged[p] <= aged'[p]
    /\ Len(assigned[p]) \in Nat /\ Len(assigned'[p]) \in Nat
    /\ Len(assigned[p]) <= Len(assigned'[p])
    /\ \A o \in Override : Known(o) /\ p \in o.targets =>
         intent[p][o] \in Nat /\ intent'[p][o] = intent[p][o]

LEMMA AreasStay ==
    ASSUME AreasSound, NoneStarts, areas' = areas
    PROVE  AreasSound' /\ \A p \in Player : Area(p)' = Area(p) /\ Grows(p)
<1>1. assigned' = assigned /\ intent' = intent /\ aged' = aged
  BY DEF areas
<1>2. \A o \in Override : Known(o)' => Known(o)
  BY DEF NoneStarts, Known
<1>3. AreasSound'
  BY <1>1, <1>2 DEF AreasSound
<1>4. ASSUME NEW p \in Player PROVE Area(p)' = Area(p)
  BY <1>1 DEF Area
<1>5. ASSUME NEW p \in Player PROVE Grows(p)
  <2>1. aged[p] \in Nat /\ Len(assigned[p]) \in Nat
    BY DEF AreasSound
  <2>2. \A o \in Override : Known(o) /\ p \in o.targets => intent[p][o] \in Nat
    BY DEF AreasSound
  <2>3. QED
    BY <1>1, <2>1, <2>2 DEF Grows
<1>6. QED
  BY <1>3, <1>4, <1>5

LEMMA RefusedStays ==
    ASSUME NEW p \in Player, Grows(p), NEW m, NEW r, NEW a, NEW b, a = Area(p), b = Area(p)',
           r \subseteq 1..Len(m), \A e \in 1..Len(m) : EventSound(p, m[e]), Refused(a, m, r)
    PROVE  Refused(b, m, r)
<1> SUFFICES ASSUME NEW e \in r, m[e].item \in Override, m[e].type = "COMPLETED"
             PROVE  Lapsed(b, e, m[e])
  BY DEF Refused
<1>1. /\ a.old = aged[p] /\ a.since = intent[p] /\ a.last = Len(assigned[p])
      /\ b.old = aged'[p] /\ b.since = intent'[p] /\ b.last = Len(assigned'[p])
  BY DEF Area
<1>2. Lapsed(a, e, m[e]) /\ e \in Int
  BY DEF Refused
<1>3. Known(m[e].item) /\ p \in m[e].item.targets
  BY DEF EventSound
<1>4. QED
  BY <1>1, <1>2, <1>3 DEF Lapsed, Grows

(* A player of whom the step changes nothing.                              *)
LEMMA FactsStay ==
    ASSUME Shapes, NEW p \in Player, OverridesStay, Grows(p), Facts(p),
           made'[p] = made[p], device'[p] = device[p], stored'[p] = stored[p],
           late'[p] = late[p], p \in passed' <=> p \in passed
    PROVE  Facts(p)'
<1>1. \A e \in 1..Len(made[p]) : EventSound(p, made[p][e])'
  BY DEF Facts, EventSound, OverridesStay, Stays
<1>2. Refused(Area(p), made[p], device[p].rejected)'
  <2>1. PICK m, r, a, b : m = made[p] /\ r = device[p].rejected /\ a = Area(p) /\ b = Area(p)'
    OBVIOUS
  <2>2. r \subseteq 1..Len(m) /\ (\A e \in 1..Len(m) : EventSound(p, m[e])) /\ Refused(a, m, r)
    BY <2>1 DEF Facts, Typed
  <2>3. Refused(b, m, r)
    BY <2>1, <2>2, RefusedStays
  <2>4. QED
    BY <2>1, <2>3
<1>3. QED
  BY <1>1, <1>2 DEF Facts

LEMMA SettledStays ==
    ASSUME NEW p \in Player, NEW o, Settled(p, o), stored[p] \subseteq stored'[p],
           \A e \in stored[p] : made'[p][e] = made[p][e]
    PROVE  Settled(p, o)'
BY DEF Settled, EventsOf

LEMMA PageStays ==
    ASSUME Shapes, NEW p \in Player, OverridesStay, Grows(p), Facts(p), Page(p),
           made'[p] = made[p], device'[p] = device[p], stored'[p] = stored[p], late'[p] = late[p]
    PROVE  Page(p)'
<1>1. Obeyed(p)'
  BY DEF Page, Obeyed, OverridesStay, Stays
<1>2. Checked(Area(p), made[p], device[p].drain, device[p].stage)'
  <2>1. PICK m, w, g, a, b : /\ m = made[p] /\ w = device[p].drain /\ g = device[p].stage
                             /\ a = Area(p) /\ b = Area(p)'
    OBVIOUS
  <2>2. Checked(a, m, w, g) /\ \A e \in 1..Len(m) : EventSound(p, m[e])
    BY <2>1 DEF Page, Facts
  <2>3. g = "bad" => Head(w) \subseteq 1..Len(m)
    <3>1. Typed(made[p], device[p], stored[p], late[p])
      BY DEF Facts
    <3>2. /\ g # "idle" <=> w # <<>>
          /\ \A i \in 1..Len(w) : w[i] \subseteq 1..Len(m)
      BY <2>1, <3>1 DEF Typed
    <3>3. w \in Seq((SUBSET Nat) \ {{}})
      BY <2>1 DEF Shapes, DeviceState
    <3>4. w # <<>> => 1 \in 1..Len(w) /\ Head(w) = w[1]
      BY <3>3
    <3>5. QED
      BY <3>2, <3>4
  <2>4. ASSUME g = "bad" PROVE \E e \in Head(w) : Refused(b, m, {e})
    <3>1. PICK e \in Head(w) : Refused(a, m, {e})
      BY <2>2, <2>4 DEF Checked
    <3>2. {e} \subseteq 1..Len(m)
      BY <2>3, <2>4
    <3>3. Refused(b, m, {e})
      BY <2>1, <2>2, <3>1, <3>2, RefusedStays
    <3>4. QED
      BY <3>3
  <2>5. Checked(b, m, w, g)
    BY <2>2, <2>4 DEF Checked
  <2>6. QED
    BY <2>1, <2>5
<1>3. QED
  BY <1>1, <1>2 DEF Page

LEMMA PlayerShapes ==
    ASSUME Shapes, NEW p \in Player, Facts(p)
    PROVE  /\ made[p] \in Seq(PlaybackEvent) /\ Len(made[p]) \in Nat
           /\ \A e \in 1..Len(made[p]) : made[p][e] \in PlaybackEvent
           /\ device[p] \in DeviceState
           /\ device[p].queue \subseteq 1..Len(made[p])
           /\ device[p].rejected \subseteq 1..Len(made[p])
           /\ device[p].drain \in Seq((SUBSET Nat) \ {{}})
           /\ \A i \in 1..Len(device[p].drain) : device[p].drain[i] \subseteq 1..Len(made[p])
           /\ device[p].stage # "idle" <=> device[p].drain # <<>>
           /\ stored[p] \subseteq 1..Len(made[p]) /\ late[p] \subseteq 1..Len(made[p])
<1>1. Typed(made[p], device[p], stored[p], late[p])
  BY DEF Facts
<1>2. made[p] \in Seq(PlaybackEvent) /\ device[p] \in DeviceState
  BY DEF Shapes
<1>3. device[p].drain \in Seq((SUBSET Nat) \ {{}})
  BY <1>2 DEF DeviceState
<1>4. /\ Len(made[p]) \in Nat
      /\ \A e \in 1..Len(made[p]) : made[p][e] \in PlaybackEvent
  BY <1>2
<1>5. QED
  BY <1>1, <1>2, <1>3, <1>4 DEF Typed

(* What the server finds valid, or not.                                    *)
LEMMA ValidInTime ==
    ASSUME NEW p, NEW e, made[p][e] \in PlaybackEvent, EventSound(p, made[p][e]), Valid(p, e)
    PROVE  InTime(made[p][e])
BY DEF EventSound, Valid, InWindow, Playable, InTime, PlaybackEvent, Item

LEMMA NextValid ==
    ASSUME NEW p \in Player, NEW e \in Nat, AreasSound', NEW a, a = Area(p)',
           NEW v \in PlaybackEvent, v = made'[p][e], EventSound(p, v)'
    PROVE  /\ Valid(p, e)' => InTime(v)
           /\ ~Valid(p, e)' /\ v.item \in Override /\ v.type = "COMPLETED" => Lapsed(a, e, v)
<1>1. Valid(p, e)' <=> /\ e > aged'[p]
                       /\ OnChannel(p, v.item)'
                       /\ IF v.item = Normal THEN Playable(v)' ELSE InWindow(v.item, v)'
  BY DEF Valid
<1>2. Valid(p, e)' => InTime(v)
  BY <1>1 DEF EventSound, InWindow, Playable, InTime, PlaybackEvent, Item
<1>3. ASSUME ~Valid(p, e)', v.item \in Override, v.type = "COMPLETED" PROVE Lapsed(a, e, v)
  <2>1. a.old = aged'[p] /\ a.since = intent'[p] /\ a.last = Len(assigned'[p])
    BY DEF Area
  <2>2. CASE ~(e > aged'[p])
    <3>1. aged'[p] \in Nat
      BY DEF AreasSound
    <3>2. QED
      BY <2>1, <2>2, <3>1 DEF Lapsed
  <2>3. CASE ~OnChannel(p, v.item)'
    <3>1. PICK w, i : w = assigned'[p] /\ i = intent'[p][v.item]
      OBVIOUS
    <3>2. w \in Seq(Channel \union {None}) /\ i \in 1..Len(w)
      BY <1>3, <3>1 DEF AreasSound, EventSound
    <3>3. Last(w) = w[Len(w)]
      BY DEF Last
    <3>4. w[i] # Last(w)
      BY <2>3, <3>1 DEF OnChannel
    <3>5. i < Len(w)
      BY <3>2, <3>3, <3>4
    <3>6. QED
      BY <2>1, <3>1, <3>5 DEF Lapsed
  <2>4. CASE ~InWindow(v.item, v)'
    BY <1>3, <2>4 DEF EventSound, InWindow, PlaybackEvent, Lapsed
  <2>5. QED
    BY <1>1, <1>3, <2>2, <2>3, <2>4, ItemTypes
<1>4. QED
  BY <1>2, <1>3

(* What sending changes of the page, m2, s2 and l2 being the events, the   *)
(* stored ones and the late request after the step.                        *)
AfterSend(p, d, m2, s2, l2) ==
    \E d2 \in DeviceState :
        /\ device' = [device EXCEPT ![p] = d2]
        /\ d2.manifest = d.manifest /\ d2.playing = d.playing /\ d2.played = d.played
        /\ d2.queue = d.queue /\ d2.rejected = d.rejected
        /\ \A i \in 1..Len(d2.drain) : d2.drain[i] \subseteq 1..Len(m2)
        /\ d2.stage # "idle" <=> d2.drain # <<>>
        /\ InOrder(m2, d2.queue, d2.rejected, d2.drain, s2, l2)
        /\ Checked(Area(p)', m2, d2.drain, d2.stage)

LEMMA Sends ==
    ASSUME Shapes, AreasSound', NEW p \in Player, NEW a, a = Area(p)', NEW d \in DeviceState,
           NEW parts \in Seq((SUBSET Nat) \ {{}}),
           Send(p, d, parts),
           NEW m2 \in Seq(PlaybackEvent), m2 = made'[p], NEW s2, NEW l2,
           d.queue \subseteq 1..Len(m2),
           \A i \in 1..Len(parts) : parts[i] \subseteq 1..Len(m2),
           InOrder(m2, d.queue, d.rejected, parts, s2, l2),
           \A e \in 1..Len(m2) : EventSound(p, m2[e])'
    PROVE  AfterSend(p, d, m2, s2, l2)
<1> DEFINE batch == IF parts = <<>> /\ d.queue # {} THEN <<FirstOf(d.queue, BatchSize)>> ELSE parts
<1>1. PICK next : next = batch
  OBVIOUS
<1>2. /\ next \in Seq((SUBSET Nat) \ {{}})
      /\ \A i \in 1..Len(next) : next[i] \subseteq 1..Len(m2)
      /\ InOrder(m2, d.queue, d.rejected, next, s2, l2)
  <2>1. CASE parts = <<>> /\ d.queue # {}
    <3>1. InOrder(m2, d.queue, d.rejected, <<>>, s2, l2)
      BY <2>1
    <3>2. PICK b : b = FirstOf(d.queue, BatchSize)
      OBVIOUS
    <3>3. /\ b \in (SUBSET Nat) \ {{}} /\ b \subseteq 1..Len(m2)
          /\ InOrder(m2, d.queue, d.rejected, <<b>>, s2, l2)
      BY <2>1, <3>1, <3>2, NextBatch, ParametersAssumption
    <3>4. next = <<b>>
      BY <1>1, <2>1, <3>2
    <3>5. PICK w : w = <<b>>
      OBVIOUS
    <3>6. w \in Seq((SUBSET Nat) \ {{}}) /\ \A i \in 1..Len(w) : w[i] \subseteq 1..Len(m2)
      <4>1. PICK S : S = (SUBSET Nat) \ {{}}
        OBVIOUS
      <4>2. b \in S
        BY <3>3, <4>1
      <4>3. w \in Seq(S) /\ Len(w) = 1 /\ w[1] = b
        BY <3>5, <4>2
      <4>4. \A i \in 1..Len(w) : i = 1
        BY <4>3
      <4>5. QED
        BY <3>3, <4>1, <4>3, <4>4
    <3>7. InOrder(m2, d.queue, d.rejected, w, s2, l2) /\ next = w
      BY <3>3, <3>4, <3>5
    <3>8. QED
      BY <3>6, <3>7
  <2>2. CASE ~(parts = <<>> /\ d.queue # {})
    BY <1>1, <2>2
  <2>3. QED
    BY <2>1, <2>2
<1> DEFINE right == \A e \in Head(next) : Valid(p, e)'
<1>3. PICK g : g = IF next = <<>> THEN "idle" ELSE IF right THEN "checked" ELSE "bad"
  OBVIOUS
<1>4. PICK d2 : d2 = [d EXCEPT !.drain = next, !.stage = g]
  OBVIOUS
<1>5. device' = [device EXCEPT ![p] = d2]
  BY <1>1, <1>3, <1>4 DEF Send
<1>6. g \in {"idle", "checked", "bad"} /\ (g # "idle" <=> next # <<>>)
  BY <1>3
<1>7. /\ d2 \in DeviceState /\ d2.drain = next /\ d2.stage = g
      /\ d2.manifest = d.manifest /\ d2.playing = d.playing /\ d2.played = d.played
      /\ d2.queue = d.queue /\ d2.rejected = d.rejected
  BY <1>2, <1>4, <1>6 DEF DeviceState
<1>8. Checked(a, m2, next, g)
  <2>1. ASSUME next # <<>> PROVE Head(next) \subseteq 1..Len(m2)
    <3>1. Head(next) = next[1] /\ 1 \in 1..Len(next)
      BY <1>2, <2>1
    <3>2. QED
      BY <1>2, <3>1
  <2>2. ASSUME NEW e \in Head(next), g # "idle"
        PROVE  /\ Valid(p, e)' => InTime(m2[e])
               /\ ~Valid(p, e)' => Refused(a, m2, {e})
    <3>1. e \in 1..Len(m2) /\ e \in Nat /\ m2[e] \in PlaybackEvent
      BY <1>6, <2>1, <2>2
    <3>2. EventSound(p, m2[e])' /\ m2[e] = made'[p][e]
      BY <3>1
    <3>3. PICK v \in PlaybackEvent : v = m2[e]
      BY <3>1
    <3>4. /\ Valid(p, e)' => InTime(v)
          /\ ~Valid(p, e)' /\ v.item \in Override /\ v.type = "COMPLETED" => Lapsed(a, e, v)
      BY <3>1, <3>2, <3>3, NextValid
    <3>5. QED
      BY <3>3, <3>4 DEF Refused
  <2>4. ASSUME g = "checked", NEW e \in Head(next) PROVE InTime(m2[e])
    <3>1. right
      BY <1>3, <2>4
    <3>2. QED
      BY <2>2, <2>4, <3>1, <1>6
  <2>5. ASSUME g = "bad" PROVE \E e \in Head(next) : Refused(a, m2, {e})
    <3>1. ~right
      BY <1>3, <2>5
    <3>2. QED
      BY <2>2, <2>5, <3>1, <1>6
  <2>6. QED
    BY <2>4, <2>5 DEF Checked
<1>9. QED
  BY <1>2, <1>5, <1>6, <1>7, <1>8 DEF AfterSend

EventType == {"STARTED", "COMPLETED", "FAILED", "INTERRUPTED"}

LEMMA Happened ==
    ASSUME Shapes, NEW p \in Player, NEW item \in Item, NEW type \in EventType,
           item \in Override => Known(item) /\ p \in item.targets,
           OverridesStay, Happens(p, item, type)
    PROVE  \E v \in PlaybackEvent :
             /\ made' = [made EXCEPT ![p] = Append(made[p], v)]
             /\ v.item = item /\ v.type = type
             /\ item \in Override => /\ v.overdue <=> override[item].due
                                     /\ v.ended <=> ~Active(item)
                                     /\ ~v.during
             /\ EventSound(p, v)'
<1> DEFINE ended == item \in Override /\ ~Active(item)
           overdue == item \in Override /\ override[item].due
           during == item = Normal /\ type = "COMPLETED" /\ Over(p) # {}
<1>1. PICK soon \in {ended /\ type = "INTERRUPTED", FALSE} :
        made' = [made EXCEPT ![p] = Append(@,
                [item |-> item, type |-> type,
                 overdue |-> overdue, ended |-> ended,
                 soon |-> soon, during |-> during])]
  BY DEF Happens
<1>2. soon \in BOOLEAN /\ overdue \in BOOLEAN /\ ended \in BOOLEAN /\ during \in BOOLEAN
  <2>1. item \in Override => override[item].due \in BOOLEAN
    BY ItemTypes DEF Shapes, Known, OverrideRow
  <2>2. QED
    BY <2>1
<1>3. PICK v : v = [item |-> item, type |-> type,
                    overdue |-> overdue, ended |-> ended, soon |-> soon, during |-> during]
  OBVIOUS
<1>4. /\ v.item = item /\ v.type = type /\ v.overdue = overdue /\ v.ended = ended
      /\ v.during = during
  BY <1>3
<1>5. v \in PlaybackEvent
  <2> HIDE DEF ended, overdue, during
  <2>1. QED
    BY <1>2, <1>3 DEF PlaybackEvent, EventType
<1>6. made' = [made EXCEPT ![p] = Append(made[p], v)]
  BY <1>1, <1>3
<1>7. item \in Override => /\ v.overdue <=> override[item].due
                           /\ v.ended <=> ~Active(item)
                           /\ ~v.during
  <2>1. item \in Override => override[item].due \in BOOLEAN
    BY ItemTypes DEF Shapes, Known, OverrideRow
  <2>2. QED
    BY <1>4, <2>1, ItemTypes DEF Active
<1>8. EventSound(p, v)'
  <2>1. ASSUME item \in Override
        PROVE  Known(item)' /\ p \in item.targets /\ ~v.during /\ (v.ended => ~Active(item)')
    BY <1>7, <2>1 DEF OverridesStay, Stays
  <2>2. ASSUME item = Normal PROVE ~v.overdue /\ ~v.ended
    BY <1>4, <2>2, ItemTypes
  <2>3. QED
    BY <1>4, <2>1, <2>2 DEF EventSound
<1>9. QED
  BY <1>4, <1>5, <1>6, <1>7, <1>8

(* What becomes of the events stored, for one more that happened.          *)
LEMMA MoreFacts ==
    ASSUME Shapes, NEW p \in Player, Facts(p), OverridesStay,
           NEW v \in PlaybackEvent, EventSound(p, v)', NEW m2, m2 = Append(made[p], v),
           NEW a, a = Area(p)
    PROVE  /\ \A e \in 1..Len(m2) : EventSound(p, m2[e])'
           /\ \A e, x \in stored[p] : Alike(m2[e], m2[x]) /\ m2[e].type = "COMPLETED" => e = x
           /\ \A e \in stored[p] : InTime(m2[e])
           /\ p \in passed => \A e \in late[p] : InTime(m2[e])
           /\ Refused(a, m2, device[p].rejected)
<1>1. PICK m : m = made[p]
  OBVIOUS
<1>3. /\ m \in Seq(PlaybackEvent) /\ Len(m) \in Nat
      /\ stored[p] \subseteq 1..Len(m) /\ late[p] \subseteq 1..Len(m) /\ device[p].rejected \subseteq 1..Len(m)
  BY <1>1, PlayerShapes
<1>4. /\ m2 \in Seq(PlaybackEvent) /\ Len(m2) = Len(m) + 1
      /\ \A e \in 1..Len(m) : e \in 1..Len(m2) /\ m2[e] = m[e]
      /\ m2[Len(m) + 1] = v
      /\ \A e \in 1..Len(m2) : e \in 1..Len(m) \/ e = Len(m) + 1
  BY <1>1, <1>3, OneMore
<1>5. ASSUME NEW e \in 1..Len(m2) PROVE EventSound(p, m2[e])'
  <2>1. CASE e \in 1..Len(m)
    BY <2>1, <1>1, <1>4 DEF Facts, EventSound, OverridesStay, Stays
  <2>2. CASE e = Len(m) + 1
    BY <2>2, <1>4
  <2>3. QED
    BY <2>1, <2>2, <1>4
<1>6. \A e, x \in stored[p] : Alike(m2[e], m2[x]) /\ m2[e].type = "COMPLETED" => e = x
  <2>1. \A e \in stored[p] : m2[e] = m[e]
    BY <1>3, <1>4
  <2>2. QED
    BY <2>1, <1>1 DEF Facts
<1>7. /\ \A e \in stored[p] : InTime(m2[e])
      /\ p \in passed => \A e \in late[p] : InTime(m2[e])
  BY <1>1, <1>3, <1>4 DEF Facts
<1>8. Refused(a, m2, device[p].rejected)
  <2>1. Refused(a, m, device[p].rejected)
    BY <1>1 DEF Facts
  <2>2. m2 = Append(m, v)
    BY <1>1
  <2>3. QED
    BY <2>1, <2>2, <1>3, MoreRefused
<1>9. QED
  BY <1>5, <1>6, <1>7, <1>8

(* What holds of a page once it has noted an event; which item it plays    *)
(* next is d's.                                                            *)
Noted(p, d, v) ==
    /\ made' = [made EXCEPT ![p] = Append(made[p], v)]
    /\ \E d2 \in DeviceState :
         /\ device' = [device EXCEPT ![p] = d2]
         /\ d2.manifest = d.manifest /\ d2.playing = d.playing /\ d2.played = d.played
    /\ Facts(p)'
    /\ History(made[p])' /\ NoRepeat(made[p])'
    /\ InOrder(made[p], device[p].queue, device[p].rejected, device[p].drain, stored[p], late[p])'
    /\ Kept(made[p], device[p].queue, device[p].rejected, stored[p])'
    /\ Checked(Area(p), made[p], device[p].drain, device[p].stage)'

LEMMA Notes ==
    ASSUME Shapes, AreasSound, NoneStarts, NEW p \in Player, Facts(p), Page(p),
           NEW item \in Item, NEW type \in EventType, NEW d \in DeviceState,
           d.queue = device[p].queue, d.rejected = device[p].rejected,
           d.drain = device[p].drain, d.stage = device[p].stage,
           item \in Override => Known(item) /\ p \in item.targets,
           type = "INTERRUPTED" => /\ made[p] # <<>> /\ made[p][Len(made[p])].item = item
                                   /\ made[p][Len(made[p])].type = "STARTED",
           \A e \in 1..Len(made[p]) :
             made[p][e].item = item /\ made[p][e].type = type => type \notin Ends,
           UNCHANGED <<stored, late, passed, areas>>, Note(p, item, type, d)
    PROVE  \E v \in PlaybackEvent : v.item = item /\ v.type = type /\ Noted(p, d, v)
<1>0. OverridesStay /\ AreasSound' /\ Area(p)' = Area(p)
  BY NoneStartsStay, AreasStay
<1>1. PICK v \in PlaybackEvent :
        /\ made' = [made EXCEPT ![p] = Append(made[p], v)]
        /\ v.item = item /\ v.type = type /\ EventSound(p, v)'
  BY <1>0, Happened DEF Note
<1>2. PICK m, n, r, s, l, a : /\ m = made[p] /\ n = Len(m) /\ r = d.rejected
                              /\ s = stored[p] /\ l = late[p] /\ a = Area(p)
  OBVIOUS
<1>3. /\ m \in Seq(PlaybackEvent) /\ n \in Nat
      /\ d.queue \subseteq 1..Len(m) /\ d.rejected \subseteq 1..Len(m)
      /\ d.drain \in Seq((SUBSET Nat) \ {{}})
      /\ \A i \in 1..Len(d.drain) : d.drain[i] \subseteq 1..Len(m)
      /\ d.stage # "idle" <=> d.drain # <<>>
      /\ s \subseteq 1..Len(m) /\ l \subseteq 1..Len(m)
  BY <1>2, PlayerShapes
<1>4. PICK m2 : m2 = Append(m, v)
  OBVIOUS
<1>5. /\ m2 \in Seq(PlaybackEvent) /\ Len(m2) = n + 1
      /\ \A e \in 1..Len(m) : e \in 1..Len(m2)
  BY <1>2, <1>3, <1>4, OneMore
<1>6. made'[p] = m2 /\ stored'[p] = s /\ late'[p] = l /\ Area(p)' = a
  BY <1>0, <1>1, <1>2, <1>4 DEF Shapes
<1>7. /\ \A e \in 1..Len(m2) : EventSound(p, m2[e])'
      /\ \A e, x \in s : Alike(m2[e], m2[x]) /\ m2[e].type = "COMPLETED" => e = x
      /\ \A e \in s : InTime(m2[e])
      /\ p \in passed => \A e \in l : InTime(m2[e])
      /\ Refused(a, m2, d.rejected)
  <2>1. m2 = Append(made[p], v)
    BY <1>2, <1>4
  <2>2. /\ \A e \in 1..Len(m2) : EventSound(p, m2[e])'
        /\ \A e, x \in stored[p] : Alike(m2[e], m2[x]) /\ m2[e].type = "COMPLETED" => e = x
        /\ \A e \in stored[p] : InTime(m2[e])
        /\ p \in passed => \A e \in late[p] : InTime(m2[e])
        /\ Refused(a, m2, device[p].rejected)
    BY <1>0, <1>1, <1>2, <2>1, MoreFacts
  <2>3. QED
    BY <2>2, <1>2
<1>8. History(m2)
  BY <1>1, <1>2, <1>3, <1>4, MoreHistory DEF Page
<1>9. NoRepeat(m2)
  BY <1>1, <1>2, <1>3, <1>4, MoreNoRepeat DEF Page, OnlyOnce, Alike
<1>10. PICK q : q = Queued(d.queue, n + 1)
  OBVIOUS
<1>11. /\ InOrder(m2, q, r, d.drain, s, l) /\ q \subseteq 1..Len(m2)
  <2>1. InOrder(m, d.queue, r, d.drain, s, l)
    BY <1>2 DEF Page
  <2>2. Capacity \in Nat \ {0}
    BY ParametersAssumption
  <2>3. PICK u, w : u = d.queue /\ w = d.drain
    OBVIOUS
  <2>4. /\ u \subseteq 1..Len(m) /\ \A i \in 1..Len(w) : w[i] \subseteq 1..Len(m)
        /\ InOrder(m, u, r, w, s, l)
    BY <2>1, <2>3, <1>3
  <2>5. /\ InOrder(Append(m, v), Queued(u, Len(m) + 1), r, w, s, l)
        /\ Queued(u, Len(m) + 1) \subseteq 1..(Len(m) + 1)
    BY <2>2, <2>4, <1>3, MoreInOrder
  <2>6. QED
    BY <2>3, <2>5, <1>2, <1>4, <1>5, <1>10
<1>12. Kept(m2, q, d.rejected, s)
  <2>1. Kept(m, d.queue, d.rejected, s)
    BY <1>2 DEF Page
  <2>2. QED
    BY <2>1, <1>2, <1>3, <1>4, <1>10, MoreKept, ParametersAssumption
<1>13. Checked(a, m2, d.drain, d.stage)
  <2>1. Checked(a, m, d.drain, d.stage)
    BY <1>2 DEF Page
  <2>2. d.stage \in {"checked", "bad"} => Head(d.drain) \subseteq 1..Len(m)
    BY <1>3
  <2>3. QED
    BY <2>1, <2>2, <1>3, <1>4, MoreChecked
<1>14. PICK d1 : d1 = [d EXCEPT !.queue = Queued(@, Len(made[p]) + 1)]
  OBVIOUS
<1>15. /\ d1 \in DeviceState /\ d1.queue = q
       /\ d1.manifest = d.manifest /\ d1.playing = d.playing /\ d1.played = d.played
       /\ d1.rejected = d.rejected /\ d1.drain = d.drain /\ d1.stage = d.stage
  <2>1. d1 = [d EXCEPT !.queue = q]
    BY <1>2, <1>10, <1>14
  <2>2. q \in SUBSET Nat
    BY <1>11
  <2>3. QED
    BY <2>1, <2>2 DEF DeviceState
<1>16. \E d2 \in DeviceState :
         /\ device' = [device EXCEPT ![p] = d2]
         /\ d2.manifest = d.manifest /\ d2.playing = d.playing /\ d2.played = d.played
         /\ d2.queue = q /\ d2.rejected = d.rejected
         /\ \A i \in 1..Len(d2.drain) : d2.drain[i] \subseteq 1..Len(m2)
         /\ d2.stage # "idle" <=> d2.drain # <<>>
         /\ InOrder(m2, q, r, d2.drain, s, l)
         /\ Checked(a, m2, d2.drain, d2.stage)
  <2>1. CASE d.stage = "idle"
    <3>1. Send(p, d1, <<>>)
      BY <2>1, <1>14 DEF Note
    <3>2. InOrder(m2, q, r, <<>>, s, l)
      BY <1>11, NoneLeft
    <3>3. <<>> \in Seq((SUBSET Nat) \ {{}}) /\ \A i \in 1..Len(<<>>) : <<>>[i] \subseteq 1..Len(m2)
      OBVIOUS
    <3>4. AfterSend(p, d1, m2, s, l)
      BY <1>0, <1>2, <3>1, <3>2, <3>3, <1>5, <1>6, <1>7, <1>11, <1>15, Sends
    <3>5. QED
      BY <3>4, <1>2, <1>6, <1>15 DEF AfterSend
  <2>2. CASE d.stage # "idle"
    <3>1. device' = [device EXCEPT ![p] = d1]
      BY <2>2, <1>14 DEF Note
    <3>2. \A i \in 1..Len(d1.drain) : d1.drain[i] \subseteq 1..Len(m2)
      BY <1>3, <1>5, <1>15
    <3>3. QED
      BY <3>1, <3>2, <1>3, <1>11, <1>13, <1>15
  <2>3. QED
    BY <2>1, <2>2
<1>17. PICK d2 \in DeviceState :
         /\ device' = [device EXCEPT ![p] = d2]
         /\ d2.manifest = d.manifest /\ d2.playing = d.playing /\ d2.played = d.played
         /\ d2.queue = q /\ d2.rejected = d.rejected
         /\ \A i \in 1..Len(d2.drain) : d2.drain[i] \subseteq 1..Len(m2)
         /\ d2.stage # "idle" <=> d2.drain # <<>>
         /\ InOrder(m2, q, r, d2.drain, s, l)
         /\ Checked(a, m2, d2.drain, d2.stage)
  BY <1>16
<1>18. device'[p] = d2
  BY <1>17 DEF Shapes
<1>19. Typed(m2, d2, s, l)
  BY <1>2, <1>3, <1>5, <1>11, <1>17 DEF Typed
<1>20. Facts(p)'
  BY <1>2, <1>6, <1>7, <1>17, <1>18, <1>19 DEF Facts
<1>21. Noted(p, d, v)
  BY <1>1, <1>2, <1>6, <1>8, <1>9, <1>12, <1>17, <1>18, <1>20 DEF Noted
<1>22. QED
  BY <1>1, <1>21

(* What the server has stored, after a step.                               *)
StoredSound(p) ==
    /\ \A e \in stored[p] : \A o \in Override : made[p][e].item = o => p \in o.targets
    /\ \A e, x \in stored[p] :
         Alike(made[p][e], made[p][x]) /\ made[p][e].type = "COMPLETED" => e = x

LEMMA NextEnough ==
    ASSUME NEW o \in Override, \A p \in Player : StoredSound(p)'
    PROVE  Enough(o)' <=> \A p \in o.targets : Delivered(p, o)'
<1> DEFINE E(p) == {e \in stored'[p] : made'[p][e].item = o /\ made'[p][e].type = "COMPLETED"}
<1>1. PICK C : C = UNION {{p} \X E(p) : p \in Player}
  OBVIOUS
<1>2. Counted(o)' = C
  BY <1>1 DEF Counted, EventsOf
<1>3. \A c \in C : \E p \in Player : \E e \in E(p) : c = <<p, e>>
  BY <1>1
<1>4. \A p \in Player : \A e \in E(p) : <<p, e>> \in C
  BY <1>1
<1>5. \A p \in Player : Delivered(p, o)' <=> E(p) # {}
  BY DEF Delivered, EventsOf
<1>6. IsFiniteSet(o.targets) /\ o.targets \subseteq Player
  BY ItemTypes, PlayersAssumption, FS_Subset
<1>7. \A c \in C : c[1] \in o.targets
  BY <1>3 DEF StoredSound
<1>8. \A p \in Player : \A e, x \in E(p) : e = x
  BY DEF StoredSound, Alike
<1>9. \A b, c \in C : b[1] = c[1] => b = c
  <2> TAKE b, c \in C
  <2>1. PICK p \in Player : \E e \in E(p) : b = <<p, e>>
    BY <1>3
  <2>2. PICK e \in E(p) : b = <<p, e>>
    BY <2>1
  <2>3. PICK r \in Player : \E x \in E(r) : c = <<r, x>>
    BY <1>3
  <2>4. PICK x \in E(r) : c = <<r, x>>
    BY <2>3
  <2> HIDE DEF E
  <2>5. QED
    BY <2>2, <2>4, <1>8
<1>10. Cardinality(C) >= Cardinality(o.targets) <=> \A p \in o.targets : \E c \in C : c[1] = p
  BY <1>6, <1>7, <1>9, AllCounted
<1>11. \A p \in o.targets : E(p) # {} <=> \E c \in C : c[1] = p
  <2> TAKE p \in o.targets
  <2> HIDE DEF E
  <2>1. ASSUME NEW e \in E(p) PROVE \E c \in C : c[1] = p
    <3>1. <<p, e>> \in C
      BY <1>4, <1>6
    <3>2. <<p, e>>[1] = p
      OBVIOUS
    <3>3. QED
      BY <3>1, <3>2
  <2>2. ASSUME NEW c \in C, c[1] = p PROVE E(p) # {}
    BY <1>3, <2>2
  <2>3. QED
    BY <2>1, <2>2
<1> HIDE DEF E
<1>12. QED
  BY <1>2, <1>5, <1>6, <1>10, <1>11 DEF Enough

(* The server stores what it did not have, and settles the overrides of    *)
(* whose plays it has stored one.                                          *)
LEMMA Settles ==
    ASSUME Shapes, CompletedIsDelivered, \A p \in Player : StoredSound(p)',
           \A p \in Player : stored[p] \subseteq stored'[p],
           \A p \in Player : \A e \in stored[p] : made'[p][e] = made[p][e],
           NEW completed \in SUBSET Override, Settle(completed),
           \A o \in completed : Known(o),
           \A p \in Player : \A e \in stored'[p] \ stored[p] : \A o \in Override :
             made'[p][e].item = o /\ made'[p][e].type = "COMPLETED" => o \in completed
    PROVE  NoneStarts /\ CompletedIsDelivered'
<1>1. \A o \in Override : override'[o] =
        IF o \in completed /\ Enough(o)' THEN Closed(override[o], "COMPLETED") ELSE override[o]
  BY DEF Settle
<1>2. "COMPLETED" \in Ended /\ \A o \in Override : Known(o) => override[o] \in OverrideRow
  BY ItemTypes DEF Ended, Shapes, Known
<1>3. NoneStarts
  <2>1. \A o \in Override : override'[o] \in OverrideRow \union {Absent}
    <3> TAKE o \in Override
    <3>1. CASE o \in completed /\ Enough(o)'
      BY <3>1, <1>1, <1>2, ClosedRow
    <3>2. CASE ~(o \in completed /\ Enough(o)')
      BY <3>2, <1>1 DEF Shapes
    <3>3. QED
      BY <3>1, <3>2
  <2>2. override' \in [Override -> OverrideRow \union {Absent}]
    BY <2>1 DEF Settle
  <2>3. \A o \in Override : Known(o) => Evolves(o)
    BY <1>1, <1>2 DEF Evolves
  <2>4. \A o \in Override : ~Known(o) => override'[o] = override[o]
    BY <1>1
  <2>5. QED
    BY <2>2, <2>3, <2>4 DEF NoneStarts
<1>4. \A p \in Player, o \in Override : Delivered(p, o) => Delivered(p, o)'
  BY DEF Delivered, EventsOf
<1>5. \A o \in Override \ completed : \A p \in Player : Delivered(p, o)' => Delivered(p, o)
  BY DEF Delivered, EventsOf
<1>6. ASSUME NEW o \in Override, Known(o)'
      PROVE  /\ override'[o].status = "COMPLETED" => \A p \in o.targets : Delivered(p, o)'
             /\ Active(o)' => \E p \in o.targets : ~Delivered(p, o)'
  <2>0. Known(o) /\ o.targets \subseteq Player
    BY <1>3, <1>6, ItemTypes DEF NoneStarts, Known
  <2>a. /\ override[o].status = "COMPLETED" => \A p \in o.targets : Delivered(p, o)
        /\ Active(o) => \E p \in o.targets : ~Delivered(p, o)
    BY <2>0 DEF CompletedIsDelivered
  <2>b. Enough(o)' <=> \A p \in o.targets : Delivered(p, o)'
    BY NextEnough
  <2>1. CASE o \in completed /\ Enough(o)'
    <3>1. override'[o] = Closed(override[o], "COMPLETED")
      BY <1>1, <2>1
    <3>2. override[o] \in OverrideRow
      BY <1>2, <2>0
    <3>3. override'[o].status # "ACTIVE"
      BY <3>1, <3>2, <1>2, ClosedRow
    <3>4. QED
      BY <2>1, <2>b, <3>3 DEF Active
  <2>2. CASE o \in completed /\ ~Enough(o)'
    <3>1. override'[o] = override[o]
      BY <1>1, <2>2
    <3>2. QED
      BY <2>0, <2>2, <2>a, <2>b, <3>1, <1>4
  <2>3. CASE o \notin completed
    <3>1. override'[o] = override[o]
      BY <1>1, <2>3
    <3>2. QED
      BY <2>0, <2>3, <2>a, <3>1, <1>4, <1>5 DEF Active
  <2>4. QED
    BY <2>1, <2>2, <2>3
<1>7. CompletedIsDelivered'
  BY <1>6 DEF CompletedIsDelivered
<1>8. QED
  BY <1>3, <1>7

(* A step of which the server stores nothing.                              *)
LEMMA DeliveredStays ==
    ASSUME Shapes, CompletedIsDelivered, NoneStarts, stored' = stored,
           \A p \in Player : \A e \in stored[p] : made'[p][e] = made[p][e],
           \A o \in Override : override'[o].status = "COMPLETED" => override[o].status = "COMPLETED"
    PROVE  CompletedIsDelivered'
<1>1. \A p \in Player, o \in Override : Delivered(p, o)' <=> Delivered(p, o)
  BY DEF Delivered, EventsOf
<1>2. \A o \in Override : Known(o)' => Known(o)
  BY DEF NoneStarts, Known
<1>3. \A o \in Override : Known(o) => (Active(o)' => Active(o))
  BY NoneStartsStay DEF OverridesStay, Stays
<1>4. \A o \in Override : o.targets \subseteq Player
  BY ItemTypes
<1>5. QED
  BY <1>1, <1>2, <1>3, <1>4 DEF CompletedIsDelivered

(* A step of one player, or of none.                                       *)
LEMMA OnePlayer ==
    ASSUME IInv, NoneStarts, areas' = areas, Shapes', OneOverridePerArea', CompletedIsDelivered',
           passed' \subseteq Player \ Prompt,
           NEW p, \A r \in Player : r # p =>
             /\ made'[r] = made[r] /\ device'[r] = device[r]
             /\ stored'[r] = stored[r] /\ late'[r] = late[r] /\ (r \in passed' <=> r \in passed),
           p \in Player => Facts(p)' /\ (p \notin Prompt => Page(p)')
    PROVE  IInv'
<1>0. OverridesStay /\ AreasSound' /\ \A r \in Player : Grows(r)
  BY NoneStartsStay, AreasStay DEF IInv
<1>1. ASSUME NEW r \in Player PROVE Facts(r)'
  <2>1. CASE r = p
    BY <2>1
  <2>2. CASE r # p
    BY <1>0, <2>2, FactsStay DEF IInv
  <2>3. QED
    BY <2>1, <2>2
<1>2. ASSUME NEW r \in Player \ Prompt PROVE Page(r)'
  <2>1. CASE r = p
    BY <2>1
  <2>2. CASE r # p
    BY <1>0, <2>2, PageStays DEF IInv
  <2>3. QED
    BY <2>1, <2>2
<1>3. QED
  BY <1>0, <1>1, <1>2 DEF IInv

LEMMA OverridesOnly ==
    ASSUME IInv, OverridesStay, Shapes', OneOverridePerArea', CompletedIsDelivered',
           AreasSound', \A p \in Player : Grows(p), UNCHANGED <<stored, made, device, late, passed>>
    PROVE  IInv'
<1>1. \A p \in Player : Facts(p)'
  BY FactsStay DEF IInv
<1>2. \A p \in Player \ Prompt : Page(p)'
  BY PageStays DEF IInv
<1>3. QED
  BY <1>1, <1>2 DEF IInv

LEMMA NoneStartsOnly ==
    ASSUME IInv, NoneStarts, UNCHANGED <<stored, made, device, late, passed, areas, faults>>,
           \A o \in Override : override'[o].status = "COMPLETED" => override[o].status = "COMPLETED"
    PROVE  IInv'
<1>1. Shapes' /\ OverridesStay /\ OneOverridePerArea'
  BY NoneStartsStay, OneStays DEF IInv, Shapes, NoneStarts
<1>2. CompletedIsDelivered'
  BY DeliveredStays DEF IInv
<1>3. AreasSound' /\ \A p \in Player : Grows(p)
  BY AreasStay DEF IInv
<1>4. QED
  BY <1>1, <1>2, <1>3, OverridesOnly

(* The area's part of what the faults and the staff change.                *)
LEMMA AreaGrows ==
    ASSUME IInv, override' = override, \A p \in Player : Grows(p), intent' = intent,
           assigned' \in [Player -> Seq(Channel \union {None})], aged' \in [Player -> Nat],
           faults' \in 0..MaxFaults, UNCHANGED <<stored, made, device, late, passed>>
    PROVE  IInv' /\ NoneStarts
<1>1. Shapes' /\ NoneStarts
  BY UnchangedStarts DEF IInv, Shapes
<1>2. OverridesStay /\ OneOverridePerArea' /\ CompletedIsDelivered'
  BY <1>1, NoneStartsStay, OneStays, DeliveredStays DEF IInv
<1>3. AreasSound'
  <2>1. ASSUME NEW p \in Player, NEW i, i \in 1..Len(assigned[p]) PROVE i \in 1..Len(assigned'[p])
    BY <2>1 DEF Grows
  <2>2. QED
    BY <2>1 DEF IInv, AreasSound, Known
<1>4. QED
  BY <1>1, <1>2, <1>3, OverridesOnly

LEMMA ReassignKeeps ==
    ASSUME IInv, NEW p \in Player, Reassign(p)
    PROVE  IInv' /\ NoneStarts
<1>1. PICK c \in Channel \union {None} : assigned' = [assigned EXCEPT ![p] = Append(@, c)]
  BY DEF Reassign
<1>2. faults' \in 0..MaxFaults
  BY ParametersAssumption DEF Reassign, Fault, IInv, Shapes
<1>3. PICK w : w = Append(assigned[p], c)
  OBVIOUS
<1>4. assigned[p] \in Seq(Channel \union {None})
  BY DEF IInv, AreasSound
<1>5. /\ w \in Seq(Channel \union {None}) /\ Len(w) = Len(assigned[p]) + 1
      /\ Len(assigned[p]) \in Nat
  BY <1>3, <1>4
<1>6. /\ assigned' \in [Player -> Seq(Channel \union {None})] /\ assigned'[p] = w
      /\ \A r \in Player : r # p => assigned'[r] = assigned[r]
  BY <1>1, <1>3, <1>5 DEF IInv, AreasSound
<1>7. aged' = aged /\ intent' = intent
  BY DEF Reassign
<1>8. ASSUME NEW r \in Player PROVE Grows(r)
  <2>1. /\ Len(assigned[r]) \in Nat /\ Len(assigned'[r]) \in Nat
        /\ Len(assigned[r]) <= Len(assigned'[r])
    <3>1. CASE r = p
      BY <3>1, <1>5, <1>6
    <3>2. CASE r # p
      <4>1. assigned[r] \in Seq(Channel \union {None})
        BY DEF IInv, AreasSound
      <4>2. QED
        BY <3>2, <4>1, <1>6
    <3>3. QED
      BY <3>1, <3>2
  <2>2. aged[r] \in Nat /\ \A o \in Override : Known(o) /\ r \in o.targets => intent[r][o] \in Nat
    BY DEF IInv, AreasSound
  <2>3. QED
    BY <1>7, <2>1, <2>2 DEF Grows
<1>9. QED
  BY <1>2, <1>6, <1>7, <1>8, AreaGrows DEF Reassign, IInv, AreasSound

LEMMA AgesKeeps ==
    ASSUME IInv, NEW p \in Player, Ages(p)
    PROVE  IInv' /\ NoneStarts
<1>1. PICK n \in (aged[p] + 1)..Len(made[p]) : aged' = [aged EXCEPT ![p] = n]
  BY DEF Ages
<1>2. faults' \in 0..MaxFaults
  BY ParametersAssumption DEF Ages, Fault, IInv, Shapes
<1>3. /\ aged \in [Player -> Nat] /\ aged[p] \in Nat /\ Len(made[p]) \in Nat
      /\ assigned' = assigned /\ intent' = intent
  BY DEF Ages, IInv, Shapes, AreasSound
<1>4. n \in Nat /\ aged[p] <= n
  BY <1>3
<1>5. aged' \in [Player -> Nat] /\ \A r \in Player : aged'[r] \in Nat /\ aged[r] <= aged'[r]
  BY <1>1, <1>3, <1>4
<1>6. ASSUME NEW r \in Player PROVE Grows(r)
  <2>1. Len(assigned[r]) \in Nat
    BY DEF IInv, AreasSound
  <2>2. \A o \in Override : Known(o) /\ r \in o.targets => intent[r][o] \in Nat
    BY DEF IInv, AreasSound
  <2>3. QED
    BY <1>3, <1>5, <2>1, <2>2 DEF Grows
<1>7. QED
  BY <1>2, <1>3, <1>5, <1>6, AreaGrows DEF Ages, IInv, AreasSound

LEMMA StartEvolves ==
    ASSUME IInv, NEW o \in Override, Start(o)
    PROVE  /\ Shapes'
           /\ \A r \in Override : Known(r) => Evolves(r)
           /\ \A r \in Override : r # o /\ ~Known(r) => override'[r] = override[r]
           /\ \A r \in Override : r # o /\ Known(r) /\ Running(r)' => r.targets \cap o.targets = {}
           /\ override'[o] = [status |-> "ACTIVE", due |-> FALSE]
           /\ \A r \in Override :
                r # o => (override'[r].status = "COMPLETED" => override[r].status = "COMPLETED")
<1> DEFINE overlapping == {r \in Override : Known(r) /\ Running(r) /\ r.targets \cap o.targets # {}}
<1>1. /\ ~Known(o)
      /\ \A r \in overlapping : ~Conflicts(r, o)
      /\ override' = [r \in Override |->
           IF r = o THEN [status |-> "ACTIVE", due |-> FALSE]
           ELSE IF r \in overlapping /\ o.type = "EMERGENCY" THEN Closed(override[r], "SUPERSEDED")
           ELSE override[r]]
      /\ UNCHANGED <<stored, made, device, late, passed, assigned, aged, faults>>
  BY DEF Start
<1>2. "SUPERSEDED" \in Ended /\ \A r \in Override : Known(r) => override[r] \in OverrideRow
  BY ItemTypes DEF Ended, IInv, Shapes, Known
<1>3. ASSUME NEW r \in Override, r # o, r \in overlapping
      PROVE  /\ override'[r] = Closed(override[r], "SUPERSEDED")
             /\ override'[r] \in OverrideRow /\ override'[r].status = "SUPERSEDED"
  <2>1. o.type = "EMERGENCY"
    BY <1>1, <1>3, ItemTypes DEF Conflicts
  <2>2. override'[r] = Closed(override[r], "SUPERSEDED")
    BY <1>1, <1>3, <2>1
  <2>3. override[r] \in OverrideRow /\ override[r].status = "ACTIVE"
    BY <1>2, <1>3 DEF Running, Active
  <2>4. QED
    BY <1>2, <2>2, <2>3, ClosedRow
<1>4. ASSUME NEW r \in Override, r # o, r \notin overlapping
      PROVE  override'[r] = override[r]
  BY <1>1, <1>4
<1>5. PICK row : row = [status |-> "ACTIVE", due |-> FALSE]
  OBVIOUS
<1>6. override'[o] = row /\ row \in OverrideRow
  BY <1>1, <1>5 DEF OverrideRow
<1>7. Shapes'
  <2>1. \A r \in Override : override'[r] \in OverrideRow \union {Absent}
    BY <1>3, <1>4, <1>6 DEF IInv, Shapes
  <2>2. override' \in [Override -> OverrideRow \union {Absent}]
    BY <1>1, <2>1
  <2>3. QED
    BY <1>1, <2>2 DEF IInv, Shapes
<1>8. ASSUME NEW r \in Override, Known(r) PROVE Evolves(r)
  BY <1>1, <1>2, <1>3, <1>4, <1>8 DEF Evolves
<1>9. ASSUME NEW r \in Override, r # o, Known(r), Running(r)' PROVE r.targets \cap o.targets = {}
  <2>1. CASE r \in overlapping
    BY <1>3, <1>9, <2>1 DEF Running, Active
  <2>2. CASE r \notin overlapping
    BY <1>4, <1>9, <2>2 DEF Running, Active
  <2>3. QED
    BY <2>1, <2>2
<1>10. \A r \in Override : r # o /\ ~Known(r) => override'[r] = override[r]
  BY <1>4
<1>11. \A r \in Override :
         r # o => (override'[r].status = "COMPLETED" => override[r].status = "COMPLETED")
  BY <1>3, <1>4
<1>12. QED
  BY <1>5, <1>6, <1>7, <1>8, <1>9, <1>10, <1>11

LEMMA StartKeeps ==
    ASSUME IInv, NEW o \in Override, Start(o)
    PROVE  IInv' /\ OverridesStay
<1>0. ~Known(o) /\ UNCHANGED <<stored, made, device, late, passed, assigned, aged, faults>>
  BY DEF Start
<1>1. /\ Shapes'
      /\ \A r \in Override : Known(r) => Evolves(r)
      /\ \A r \in Override : r # o /\ ~Known(r) => override'[r] = override[r]
      /\ \A r \in Override : r # o /\ Known(r) /\ Running(r)' => r.targets \cap o.targets = {}
      /\ override'[o] = [status |-> "ACTIVE", due |-> FALSE]
      /\ \A r \in Override :
           r # o => (override'[r].status = "COMPLETED" => override[r].status = "COMPLETED")
  BY StartEvolves
<1>2. OverridesStay
  BY <1>1, EvolvesStays DEF IInv, OverridesStay
<1>3. \A r \in Override : r # o /\ Known(r)' => Known(r)
  BY <1>1 DEF Known
<1>4. OneOverridePerArea'
  <2> SUFFICES ASSUME NEW a \in Override, NEW b \in Override, a # b, Known(a)', Known(b)',
                      Running(a)', Running(b)'
               PROVE  a.targets \cap b.targets = {}
    BY DEF OneOverridePerArea
  <2>1. CASE a = o
    BY <2>1, <1>1, <1>3
  <2>2. CASE b = o
    BY <2>2, <1>1, <1>3
  <2>3. CASE a # o /\ b # o
    <3>1. Known(a) /\ Known(b) /\ Running(a) /\ Running(b)
      BY <2>3, <1>2, <1>3 DEF OverridesStay, Stays
    <3>2. QED
      BY <3>1 DEF IInv, OneOverridePerArea
  <2>4. QED
    BY <2>1, <2>2, <2>3
<1>5. CompletedIsDelivered'
  <2>1. \A p \in Player, r \in Override : Delivered(p, r)' <=> Delivered(p, r)
    BY <1>0 DEF Delivered, EventsOf
  <2>2. \A p \in Player : ~Delivered(p, o)
    <3> SUFFICES ASSUME NEW p \in Player, NEW e \in stored[p], made[p][e].item = o PROVE FALSE
      BY DEF Delivered, EventsOf
    <3>1. Facts(p) /\ e \in 1..Len(made[p])
      BY PlayerShapes DEF IInv
    <3>2. QED
      BY <1>0, <3>1 DEF Facts, EventSound
  <2>3. ASSUME NEW r \in Override, Known(r)'
        PROVE  /\ override'[r].status = "COMPLETED" => \A p \in r.targets : Delivered(p, r)'
               /\ Active(r)' => \E p \in r.targets : ~Delivered(p, r)'
    <3>0. r.targets \subseteq Player /\ r.targets # {}
      BY ItemTypes
    <3>1. CASE r = o
      BY <3>0, <3>1, <2>1, <2>2, <1>1
    <3>2. CASE r # o
      <4>1. Known(r) /\ (Active(r)' => Active(r))
        BY <3>2, <2>3, <1>2, <1>3 DEF OverridesStay, Stays
      <4>2. override'[r].status = "COMPLETED" => override[r].status = "COMPLETED"
        BY <3>2, <1>1
      <4>3. QED
        BY <3>0, <4>1, <4>2, <2>1 DEF IInv, CompletedIsDelivered
    <3>3. QED
      BY <3>1, <3>2
  <2>4. QED
    BY <2>3 DEF CompletedIsDelivered
<1>6. /\ intent' \in [Player -> [Item -> Nat]]
      /\ \A p \in Player, i \in Item : i # o => intent'[p][i] = intent[p][i]
      /\ \A p \in o.targets : intent'[p][o] = Len(assigned[p])
  <2>1. \A p \in Player : intent[p] \in [Item -> Nat] /\ Len(assigned[p]) \in Nat
    BY DEF IInv, AreasSound
  <2>2. o.targets \subseteq Player /\ o \in Item
    BY ItemTypes DEF Item
  <2>3. intent' = [p \in Player |->
          IF p \in o.targets THEN [intent[p] EXCEPT ![o] = Len(assigned[p])] ELSE intent[p]]
    BY DEF Start
  <2>4. QED
    BY <2>1, <2>2, <2>3
<1>7. AreasSound' /\ \A p \in Player : Grows(p)
  <2>0. Normal # o /\ Normal \in Item /\ \A r \in Override : r \in Item
    BY ItemTypes DEF Item
  <2>1. ASSUME NEW p \in Player
        PROVE  /\ intent'[p][Normal] \in 1..Len(assigned[p])
               /\ \A r \in Override : Known(r)' /\ p \in r.targets =>
                    intent'[p][r] \in 1..Len(assigned[p])
    <3>1. intent[p][Normal] \in 1..Len(assigned[p]) /\ Len(assigned[p]) \in Nat
      BY DEF IInv, AreasSound
    <3>2. Len(assigned[p]) \in 1..Len(assigned[p])
      BY <3>1
    <3>3. ASSUME NEW r \in Override, r # o, Known(r)', p \in r.targets
          PROVE  intent'[p][r] \in 1..Len(assigned[p])
      BY <3>3, <1>3, <1>6, <2>0 DEF IInv, AreasSound
    <3>4. QED
      BY <3>1, <3>2, <3>3, <1>6, <2>0
  <2>2. AreasSound'
    BY <1>0, <1>6, <2>1 DEF IInv, AreasSound
  <2>3. ASSUME NEW p \in Player PROVE Grows(p)
    <3>1. aged[p] \in Nat /\ Len(assigned[p]) \in Nat
      BY DEF IInv, AreasSound
    <3>2. \A r \in Override : Known(r) /\ p \in r.targets =>
            intent[p][r] \in Nat /\ intent'[p][r] = intent[p][r]
      BY <1>0, <1>6, <2>0 DEF IInv, AreasSound
    <3>3. QED
      BY <1>0, <3>1, <3>2 DEF Grows
  <2>4. QED
    BY <2>2, <2>3
<1>8. QED
  BY <1>0, <1>1, <1>2, <1>4, <1>5, <1>7, OverridesOnly

LEMMA ClearKeeps ==
    ASSUME IInv, NEW o \in Override, Clear(o)
    PROVE  IInv' /\ NoneStarts
<1>1. override[o] \in OverrideRow /\ "CLEARED" \in Ended
  BY ItemTypes DEF Clear, IInv, Shapes, Known, Ended
<1>2. PICK row : row = Closed(override[o], "CLEARED")
  OBVIOUS
<1>3. row \in OverrideRow /\ row.status = "CLEARED"
  BY <1>1, <1>2, ClosedRow DEF Clear, Active
<1>4. /\ override' \in [Override -> OverrideRow \union {Absent}]
      /\ override'[o] = row
      /\ \A r \in Override : r # o => override'[r] = override[r]
  BY <1>2, <1>3 DEF Clear, IInv, Shapes
<1>5. NoneStarts
  BY <1>1, <1>2, <1>4 DEF NoneStarts, Evolves, Clear
<1>6. \A r \in Override : override'[r].status = "COMPLETED" => override[r].status = "COMPLETED"
  BY <1>3, <1>4
<1>7. QED
  BY <1>5, <1>6, NoneStartsOnly DEF Clear

LEMMA WindowClosesKeeps ==
    ASSUME IInv, NEW o \in Override, WindowCloses(o)
    PROVE  IInv' /\ NoneStarts
<1>1. override[o] \in OverrideRow
  BY ItemTypes DEF WindowCloses, IInv, Shapes, Known
<1>2. PICK row : row = [override[o] EXCEPT !.due = TRUE]
  OBVIOUS
<1>3. row \in OverrideRow /\ row.status = override[o].status
  BY <1>1, <1>2 DEF OverrideRow
<1>4. /\ override' \in [Override -> OverrideRow \union {Absent}]
      /\ override'[o] = row
      /\ \A r \in Override : r # o => override'[r] = override[r]
  <2>1. override' = [override EXCEPT ![o] = row]
    BY <1>2 DEF WindowCloses
  <2>2. QED
    BY <1>3, <2>1 DEF IInv, Shapes
<1>5. NoneStarts
  BY <1>1, <1>2, <1>4 DEF NoneStarts, Evolves, WindowCloses
<1>6. \A r \in Override : override'[r].status = "COMPLETED" => override[r].status = "COMPLETED"
  BY <1>3, <1>4
<1>7. QED
  BY <1>5, <1>6, NoneStartsOnly DEF WindowCloses

(* A player's page has noted an event of its own, of which the server      *)
(* hears later.                                                            *)
LEMMA NotedKeeps ==
    ASSUME IInv, NEW p \in Player \ Prompt, NoneStarts, NEW d, NEW v \in PlaybackEvent,
           Noted(p, d, v), UNCHANGED <<stored, late, passed, areas, faults>>,
           \A o \in Override : override'[o].status = "COMPLETED" => override[o].status = "COMPLETED",
           Playlist(made[p], device[p])', Obeyed(p)'
    PROVE  IInv'
<1>1. PICK d2 \in DeviceState : device' = [device EXCEPT ![p] = d2]
  BY DEF Noted
<1>2. made' = [made EXCEPT ![p] = Append(made[p], v)]
  BY DEF Noted
<1>3. PICK m2 : m2 = Append(made[p], v)
  OBVIOUS
<1>4. made[p] \in Seq(PlaybackEvent)
  BY DEF IInv, Shapes
<1>5. /\ m2 \in Seq(PlaybackEvent)
      /\ \A e \in 1..Len(made[p]) : m2[e] = made[p][e]
  BY <1>3, <1>4, OneMore
<1>6. /\ made' \in [Player -> Seq(PlaybackEvent)] /\ made'[p] = m2
      /\ \A r \in Player : r # p => made'[r] = made[r]
  BY <1>2, <1>3, <1>5 DEF IInv, Shapes
<1>7. /\ device' \in [Player -> DeviceState]
      /\ \A r \in Player : r # p => device'[r] = device[r]
  BY <1>1 DEF IInv, Shapes
<1>8. Shapes' /\ OverridesStay /\ OneOverridePerArea'
  BY <1>6, <1>7, NoneStartsStay, OneStays DEF IInv, Shapes, NoneStarts
<1>9. \A r \in Player : \A e \in stored[r] : made'[r][e] = made[r][e]
  <2> TAKE r \in Player
  <2> TAKE e \in stored[r]
  <2>1. stored[r] \subseteq 1..Len(made[r])
    BY PlayerShapes DEF IInv
  <2>2. CASE r = p
    BY <2>1, <2>2, <1>5, <1>6
  <2>3. CASE r # p
    BY <2>3, <1>6
  <2>4. QED
    BY <2>2, <2>3
<1>10. CompletedIsDelivered'
  BY <1>9, DeliveredStays DEF IInv
<1>11. Facts(p)' /\ Page(p)'
  BY DEF Noted, Page
<1>12. QED
  BY <1>6, <1>7, <1>8, <1>10, <1>11, OnePlayer DEF IInv

LEMMA NextPlaylist ==
    ASSUME NEW m \in Seq(PlaybackEvent), NEW v \in PlaybackEvent, NEW d, NEW d2,
           Playlist(m, d), d2.manifest \notin d2.played, d2.playing \notin d2.played,
           d2.playing # None => v.item = d2.playing /\ v.type = "STARTED",
           \A i \in d.played : i \in d2.played,
           v.type \in Ends => v.item \in d2.played
    PROVE  Playlist(Append(m, v), d2)
<1>1. PICK m2 : m2 = Append(m, v)
  OBVIOUS
<1>2. /\ m2 \in Seq(PlaybackEvent) /\ Len(m2) = Len(m) + 1 /\ Len(m) \in Nat
      /\ \A e \in 1..Len(m) : m2[e] = m[e]
      /\ m2[Len(m) + 1] = v
      /\ \A e \in 1..Len(m2) : e \in 1..Len(m) \/ e = Len(m) + 1
  BY <1>1, OneMore
<1>3. m2 # <<>> /\ m2[Len(m2)] = v
  BY <1>2
<1>4. \A e \in 1..Len(m2) : m2[e].type \in Ends => m2[e].item \in d2.played
  BY <1>2 DEF Playlist
<1>5. Playlist(m2, d2)
  BY <1>3, <1>4 DEF Playlist
<1>6. QED
  BY <1>1, <1>5

LEMMA NextObeyed ==
    ASSUME OverridesStay, NEW p \in Player,
           \A o \in Override : o = device'[p].manifest \/ o = device'[p].playing =>
             Known(o) /\ p \in o.targets
    PROVE  Obeyed(p)'
BY DEF OverridesStay, Stays, Obeyed

LEMMA StartItemKeeps ==
    ASSUME IInv, NEW p \in Player \ Prompt, StartItem(p)
    PROVE  IInv' /\ NoneStarts
<1>1. PICK item : item = device[p].manifest
  OBVIOUS
<1>2. PICK d : d = [device[p] EXCEPT !.playing = item]
  OBVIOUS
<1>3. /\ device[p].playing = None /\ item # None
      /\ UNCHANGED <<override, stored, late, passed, areas, faults>>
      /\ Note(p, item, "STARTED", d)
  BY <1>1, <1>2 DEF StartItem
<1>4. Shapes /\ Facts(p) /\ Page(p) /\ device[p] \in DeviceState /\ made[p] \in Seq(PlaybackEvent)
  BY DEF IInv, Shapes
<1>5. item \in Item
  BY <1>1, <1>3, <1>4 DEF DeviceState
<1>6. /\ d \in DeviceState /\ d.queue = device[p].queue /\ d.rejected = device[p].rejected
      /\ d.drain = device[p].drain /\ d.stage = device[p].stage
      /\ d.manifest = item /\ d.playing = item /\ d.played = device[p].played
  BY <1>1, <1>2, <1>4, <1>5 DEF DeviceState
<1>7. NoneStarts /\ OverridesStay
  BY <1>3, <1>4, UnchangedStarts, NoneStartsStay
<1>8. item \in Override => Known(item) /\ p \in item.targets
  BY <1>1, <1>4 DEF Page, Obeyed
<1>9. PICK v \in PlaybackEvent : v.item = item /\ v.type = "STARTED" /\ Noted(p, d, v)
  <2>1. "STARTED" \in EventType /\ "STARTED" \notin Ends
    BY DEF EventType, Ends
  <2>2. QED
    BY <2>1, <1>3, <1>4, <1>5, <1>6, <1>7, <1>8, Notes DEF IInv
<1>10. made' = [made EXCEPT ![p] = Append(made[p], v)]
  BY <1>9 DEF Noted
<1>11. device'[p].manifest = item /\ device'[p].playing = item /\ device'[p].played = device[p].played
  BY <1>4, <1>6, <1>9 DEF Noted, Shapes
<1>12. Playlist(made[p], device[p])'
  <2>1. PICK d2 : d2 = device'[p]
    OBVIOUS
  <2>2. Playlist(made[p], device[p])
    BY <1>4 DEF Page
  <2>3. Playlist(Append(made[p], v), d2)
    <3>1. /\ d2.manifest = device[p].manifest /\ d2.playing = device[p].manifest
          /\ d2.played = device[p].played
      BY <1>1, <1>11, <2>1
    <3>2. v.type \notin Ends /\ v.item = d2.playing /\ v.type = "STARTED"
      BY <1>9, <1>11, <2>1 DEF Ends
    <3>3. d2.manifest \notin d2.played /\ d2.playing \notin d2.played
      BY <2>2, <3>1 DEF Playlist
    <3>4. QED
      BY <2>2, <3>1, <3>2, <3>3, <1>4, NextPlaylist
  <2>4. made'[p] = Append(made[p], v)
    BY <1>4, <1>10 DEF Shapes
  <2>5. QED
    BY <2>1, <2>3, <2>4
<1>13. Obeyed(p)'
  BY <1>7, <1>8, <1>11, NextObeyed
<1>14. QED
  BY <1>3, <1>7, <1>9, <1>12, <1>13, NotedKeeps

LEMMA EndItemKeeps ==
    ASSUME IInv, NEW p \in Player \ Prompt, NEW type \in Ends, EndItem(p, type)
    PROVE  IInv' /\ NoneStarts
<1>1. PICK item : item = device[p].playing
  OBVIOUS
<1>2. PICK d : d = [device[p] EXCEPT !.manifest = None, !.playing = None, !.played = @ \union {item}]
  OBVIOUS
<1>3. /\ item # None
      /\ UNCHANGED <<override, stored, late, passed, areas, faults>>
      /\ Note(p, item, type, d)
  BY <1>1, <1>2 DEF EndItem
<1>4. Shapes /\ Facts(p) /\ Page(p) /\ device[p] \in DeviceState /\ made[p] \in Seq(PlaybackEvent)
  BY DEF IInv, Shapes
<1>5. item \in Item /\ None \notin Item /\ device[p].played \subseteq Item
  BY <1>1, <1>3, <1>4, NamesAssumption DEF DeviceState, Item
<1>6. /\ d \in DeviceState /\ d.queue = device[p].queue /\ d.rejected = device[p].rejected
      /\ d.drain = device[p].drain /\ d.stage = device[p].stage
      /\ d.manifest = None /\ d.playing = None /\ d.played = device[p].played \union {item}
  BY <1>2, <1>4, <1>5 DEF DeviceState
<1>7. NoneStarts /\ OverridesStay
  BY <1>3, <1>4, UnchangedStarts, NoneStartsStay
<1>8. item \in Override => Known(item) /\ p \in item.targets
  BY <1>1, <1>4 DEF Page, Obeyed
<1>a. Playlist(made[p], device[p])
  BY <1>4 DEF Page
<1>9. PICK v \in PlaybackEvent : v.item = item /\ v.type = type /\ Noted(p, d, v)
  <2>1. type \in EventType /\ type # "INTERRUPTED"
    BY DEF EventType, Ends
  <2>2. \A e \in 1..Len(made[p]) : ~(made[p][e].item = item /\ made[p][e].type = type)
    BY <1>1, <1>a DEF Playlist
  <2>3. QED
    BY <2>1, <2>2, <1>3, <1>4, <1>5, <1>6, <1>7, <1>8, Notes DEF IInv
<1>10. made' = [made EXCEPT ![p] = Append(made[p], v)]
  BY <1>9 DEF Noted
<1>11. /\ device'[p].manifest = None /\ device'[p].playing = None
       /\ device'[p].played = device[p].played \union {item}
  BY <1>4, <1>6, <1>9 DEF Noted, Shapes
<1>12. Playlist(made[p], device[p])'
  <2>1. PICK d2 : d2 = device'[p]
    OBVIOUS
  <2>3. Playlist(Append(made[p], v), d2)
    <3>1. d2.manifest = None /\ d2.playing = None /\ d2.played = device[p].played \union {item}
      BY <1>11, <2>1
    <3>2. v.item \in d2.played
      BY <1>9, <3>1
    <3>3. None \notin d2.played
      BY <1>5, <3>1
    <3>4. QED
      BY <1>a, <3>1, <3>2, <3>3, <1>4, NextPlaylist
  <2>4. made'[p] = Append(made[p], v)
    BY <1>4, <1>10 DEF Shapes
  <2>5. QED
    BY <2>1, <2>3, <2>4
<1>13. Obeyed(p)'
  BY <1>7, <1>11, ItemTypes, NextObeyed
<1>14. QED
  BY <1>3, <1>7, <1>9, <1>12, <1>13, NotedKeeps

LEMMA ChosenIn ==
    ASSUME NEW os, os \subseteq Override, os # {}
    PROVE  Chosen(os) \in os
<1>1. \E o \in os : o.type = "EMERGENCY" \/ \A r \in os : r.type = "PRIORITY"
  <2>1. \A o \in os : o.type \in {"PRIORITY", "EMERGENCY"}
    BY ItemTypes
  <2>2. QED
    BY <2>1
<1>2. QED
  BY <1>1 DEF Chosen

(* What the server plans for a player is a standing override of its area.  *)
LEMMA ProgrammeStands ==
    ASSUME NEW p \in Player
    PROVE  /\ Programme(p) \in Override =>
                /\ Known(Programme(p)) /\ Running(Programme(p)) /\ p \in Programme(p).targets
                /\ ~Settled(p, Programme(p))
           /\ Programme(p) \in Item \union {None}
<1>1. PICK now : now = IF Over(p) # {} /\ ~Settled(p, Chosen(Over(p))) THEN Chosen(Over(p)) ELSE Normal
  OBVIOUS
<1>2. Programme(p) = IF Settled(p, now) \/ ~OnChannel(p, now) THEN None ELSE now
  BY <1>1 DEF Programme
<1>3. CASE now = Normal
  BY <1>2, <1>3, ItemTypes DEF Item
<1>4. CASE now # Normal
  <2>1. now \in Over(p)
    BY <1>1, <1>4, ChosenIn DEF Over
  <2>2. QED
    BY <1>2, <2>1, ItemTypes DEF Over, Item
<1>5. QED
  BY <1>3, <1>4

(* The server closes what has expired.                                     *)
LEMMA Expires ==
    ASSUME Shapes,
           override' = [o \in Override |->
             IF Due(o) THEN Closed(override[o], "EXPIRED") ELSE override[o]]
    PROVE  /\ NoneStarts
           /\ \A o \in Override :
                override'[o].status = "COMPLETED" => override[o].status = "COMPLETED"
<1>1. "EXPIRED" \in Ended /\ \A o \in Override : Known(o) => override[o] \in OverrideRow
  BY ItemTypes DEF Ended, Shapes, Known
<1>2. ASSUME NEW o \in Override, Due(o)
      PROVE  /\ override'[o] = Closed(override[o], "EXPIRED")
             /\ override'[o] \in OverrideRow /\ override'[o].status = "EXPIRED"
  <2>1. override'[o] = Closed(override[o], "EXPIRED")
    BY <1>2
  <2>2. override[o] \in OverrideRow /\ override[o].status = "ACTIVE"
    BY <1>1, <1>2 DEF Due, Active
  <2>3. QED
    BY <1>1, <2>1, <2>2, ClosedRow
<1>3. \A o \in Override : ~Due(o) => override'[o] = override[o]
  OBVIOUS
<1>4. \A o \in Override : override'[o] \in OverrideRow \union {Absent}
  BY <1>2, <1>3 DEF Shapes
<1>5. override' \in [Override -> OverrideRow \union {Absent}]
  BY <1>4
<1>6. \A o \in Override : Known(o) => Evolves(o)
  BY <1>1, <1>2, <1>3 DEF Evolves
<1>7. \A o \in Override : ~Known(o) => override'[o] = override[o]
  BY <1>3 DEF Due
<1>8. NoneStarts
  BY <1>5, <1>6, <1>7 DEF NoneStarts
<1>9. QED
  BY <1>2, <1>3, <1>8

LEMMA FetchPlanned ==
    ASSUME IInv, NEW p \in Player \ Prompt, NoneStarts, UNCHANGED <<stored, late, passed, areas, faults, made>>,
           \A o \in Override : override'[o].status = "COMPLETED" => override[o].status = "COMPLETED",
           NEW d, NEW x \in Item \union {None}, d = [device[p] EXCEPT !.manifest = x],
           device' = [device EXCEPT ![p] = d], x \notin device[p].played,
           x \in Override => x = Programme(p)
    PROVE  IInv'
<1>1. /\ Shapes /\ AreasSound /\ Facts(p) /\ Page(p) /\ device[p] \in DeviceState
      /\ OneOverridePerArea /\ Area(p)' = Area(p)
  BY AreasStay DEF IInv, Shapes
<1>2. /\ d \in DeviceState /\ d.queue = device[p].queue /\ d.rejected = device[p].rejected
      /\ d.drain = device[p].drain /\ d.stage = device[p].stage
      /\ d.manifest = x /\ d.playing = device[p].playing /\ d.played = device[p].played
  BY <1>1 DEF DeviceState
<1>3. /\ device' \in [Player -> DeviceState] /\ device'[p] = d
      /\ \A r \in Player : r # p => device'[r] = device[r]
  BY <1>1, <1>2 DEF Shapes
<1>4. Shapes' /\ OverridesStay /\ OneOverridePerArea'
  BY <1>1, <1>3, NoneStartsStay, OneStays DEF Shapes, NoneStarts
<1>5. CompletedIsDelivered'
  BY DeliveredStays DEF IInv
<1>6. Facts(p)'
  <2>1. \A e \in 1..Len(made[p]) : EventSound(p, made[p][e])'
    BY <1>1, <1>4 DEF Facts, EventSound, OverridesStay, Stays
  <2>2. Typed(made[p], d, stored[p], late[p])
    BY <1>1, <1>2 DEF Facts, Typed
  <2>3. Refused(Area(p), made[p], d.rejected)
    BY <1>1, <1>2 DEF Facts
  <2>4. QED
    BY <1>1, <1>3, <2>1, <2>2, <2>3 DEF Facts
<1>7. Obeyed(p)'
  <2>1. x \in Override => Known(x) /\ p \in x.targets
    BY ProgrammeStands
  <2>2. \A o \in Override : o = d.manifest \/ o = d.playing => Known(o) /\ p \in o.targets
    BY <1>1, <1>2, <2>1 DEF Page, Obeyed
  <2>3. QED
    BY <1>3, <1>4, <2>2, NextObeyed
<1>8. Playlist(made[p], d)
  BY <1>1, <1>2 DEF Page, Playlist
<1>9. Page(p)'
  <2>1. Page(p)
    BY <1>1
  <2>2. QED
    BY <1>1, <1>2, <1>3, <1>7, <1>8, <2>1 DEF Page
<1>10. QED
  BY <1>1, <1>3, <1>4, <1>5, <1>6, <1>9, OnePlayer DEF IInv

LEMMA FetchInterrupts ==
    ASSUME IInv, NEW p \in Player \ Prompt, NoneStarts, UNCHANGED <<stored, late, passed, areas, faults>>,
           \A o \in Override : override'[o].status = "COMPLETED" => override[o].status = "COMPLETED",
           NEW x \in Item \union {None}, NEW item, item = device[p].playing,
           ~Planned(p, Programme(p)), x \notin device[p].played,
           x = Programme(p) \/ x = None,
           NEW d \in DeviceState, d.queue = device[p].queue, d.rejected = device[p].rejected,
           d.drain = device[p].drain, d.stage = device[p].stage,
           d.manifest = x, d.playing = None, d.played = device[p].played \ {item},
           Note(p, item, "INTERRUPTED", d)
    PROVE  IInv'
<1>1. /\ Shapes /\ AreasSound /\ Facts(p) /\ Page(p) /\ device[p] \in DeviceState /\ OneOverridePerArea
      /\ made[p] \in Seq(PlaybackEvent)
  BY DEF IInv, Shapes
<1>2. item # None /\ item # Programme(p)
  BY DEF Planned
<1>3. item \in Item /\ None \notin Item /\ device[p].played \subseteq Item
  BY <1>1, <1>2, NamesAssumption DEF DeviceState, Item
<1>a. Playlist(made[p], device[p])
  BY <1>1 DEF Page
<1>4. device[p].played \ {item} = device[p].played
  BY <1>a DEF Playlist
<1>5. d.manifest = x /\ d.playing = None /\ d.played = device[p].played
  BY <1>4
<1>6. OverridesStay
  BY <1>1, NoneStartsStay
<1>7. item \in Override => Known(item) /\ p \in item.targets
  BY <1>1 DEF Page, Obeyed
<1>9. PICK v \in PlaybackEvent : v.item = item /\ v.type = "INTERRUPTED" /\ Noted(p, d, v)
  <2>1. PICK type \in EventType : type = "INTERRUPTED" /\ type \notin Ends
    BY DEF EventType, Ends
  <2>2. type = "INTERRUPTED" => /\ made[p] # <<>> /\ made[p][Len(made[p])].item = item
                                /\ made[p][Len(made[p])].type = "STARTED"
    BY <1>2, <1>a DEF Playlist
  <2>a. UNCHANGED <<stored, late, passed, areas>>
    OBVIOUS
  <2>3. \A e \in 1..Len(made[p]) :
          made[p][e].item = item /\ made[p][e].type = type => type \notin Ends
    BY <2>1
  <2>4. Note(p, item, type, d)
    BY <2>1
  <2>5. \E v \in PlaybackEvent : v.item = item /\ v.type = type /\ Noted(p, d, v)
    BY <2>1, <2>a, <2>2, <2>3, <2>4, <1>1, <1>3, <1>5, <1>6, <1>7, Notes
  <2>6. QED
    BY <2>1, <2>5
<1>10. made' = [made EXCEPT ![p] = Append(made[p], v)]
  BY <1>9 DEF Noted
<1>11. device'[p].manifest = x /\ device'[p].playing = None /\ device'[p].played = device[p].played
  BY <1>1, <1>5, <1>9 DEF Noted, Shapes
<1>12. x \in Override => Known(x) /\ p \in x.targets
  BY ItemTypes, ProgrammeStands
<1>14. Playlist(made[p], device[p])'
  <2>1. PICK d2 : d2 = device'[p]
    OBVIOUS
  <2>2. Playlist(Append(made[p], v), d2)
    <3>1. d2.manifest = x /\ d2.playing = None /\ d2.played = device[p].played
      BY <1>11, <2>1
    <3>2. v.type \notin Ends
      BY <1>9 DEF Ends
    <3>3. None \notin d2.played
      BY <1>3, <3>1
    <3>4. QED
      BY <1>a, <3>1, <3>2, <3>3, <1>1, NextPlaylist
  <2>3. made'[p] = Append(made[p], v)
    BY <1>1, <1>10 DEF Shapes
  <2>4. QED
    BY <2>1, <2>2, <2>3
<1>15. Obeyed(p)'
  <2>1. None \notin Override
    BY ItemTypes
  <2>2. \A o \in Override : o = device'[p].manifest \/ o = device'[p].playing =>
          Known(o) /\ p \in o.targets
    BY <2>1, <1>11, <1>12
  <2>3. QED
    BY <2>2, <1>6, NextObeyed
<1>16. QED
  BY <1>9, <1>14, <1>15, NotedKeeps

LEMMA FetchKeeps ==
    ASSUME IInv, NEW p \in Player \ Prompt, Fetch(p)
    PROVE  IInv' /\ NoneStarts
<1>1. PICK x : x = IF Programme(p) \in device[p].played THEN None ELSE Programme(p)
  OBVIOUS
<1>2. PICK d : d = [device[p] EXCEPT !.manifest = x]
  OBVIOUS
<1>3. /\ override' = [o \in Override |->
           IF Due(o) THEN Closed(override[o], "EXPIRED") ELSE override[o]]
      /\ UNCHANGED <<stored, late, passed, areas, faults>>
      /\ \/ device' = [device EXCEPT ![p] = d] /\ UNCHANGED made
         \/ /\ ~Planned(p, Programme(p))
            /\ Note(p, d.playing, "INTERRUPTED", [d EXCEPT !.playing = None, !.played = @ \ {d.playing}])
  BY <1>1, <1>2 DEF Fetch
<1>4. /\ NoneStarts
      /\ \A o \in Override : override'[o].status = "COMPLETED" => override[o].status = "COMPLETED"
  BY <1>3, Expires DEF IInv
<1>5. /\ x \in Item \union {None} /\ x \notin device[p].played
      /\ x = Programme(p) \/ x = None
      /\ x \in Override => x = Programme(p)
  <2>1. Programme(p) \in Item \union {None}
    BY ProgrammeStands DEF IInv
  <2>2. device[p] \in DeviceState
    BY DEF IInv, Shapes
  <2>3. None \notin device[p].played /\ None \notin Override
    BY <2>2, NamesAssumption DEF DeviceState, Item
  <2>4. QED
    BY <1>1, <2>1, <2>3
<1>6. CASE device' = [device EXCEPT ![p] = d] /\ UNCHANGED made
  BY <1>2, <1>3, <1>4, <1>5, <1>6, FetchPlanned
<1>7. CASE /\ ~Planned(p, Programme(p))
           /\ Note(p, d.playing, "INTERRUPTED", [d EXCEPT !.playing = None, !.played = @ \ {d.playing}])
  <2>1. device[p] \in DeviceState
    BY DEF IInv, Shapes
  <2>2. PICK item : item = device[p].playing
    OBVIOUS
  <2>3. d.playing = item /\ d.played = device[p].played
    BY <1>2, <2>1, <2>2 DEF DeviceState
  <2>4. PICK d2 : d2 = [d EXCEPT !.playing = None, !.played = @ \ {d.playing}]
    OBVIOUS
  <2>5. /\ d2 \in DeviceState /\ d2.queue = device[p].queue /\ d2.rejected = device[p].rejected
        /\ d2.drain = device[p].drain /\ d2.stage = device[p].stage
        /\ d2.manifest = x /\ d2.playing = None /\ d2.played = device[p].played \ {item}
    BY <1>2, <1>5, <2>1, <2>3, <2>4 DEF DeviceState
  <2>6. ~Planned(p, Programme(p)) /\ Note(p, item, "INTERRUPTED", d2)
    BY <1>7, <2>3, <2>4
  <2>7. QED
    BY <1>3, <1>4, <1>5, <2>2, <2>5, <2>6, FetchInterrupts
<1>8. QED
  BY <1>3, <1>4, <1>6, <1>7

(* The rest of a page's facts, once s2 is stored and l2 is still on its    *)
(* way.                                                                    *)
PageAfter(p, d, s2, l2) ==
    /\ d \in DeviceState
    /\ Typed(made[p], d, s2, l2)
    /\ Refused(Area(p), made[p], d.rejected)
    /\ InOrder(made[p], d.queue, d.rejected, d.drain, s2, l2)
    /\ Kept(made[p], d.queue, d.rejected, s2)
    /\ Checked(Area(p), made[p], d.drain, d.stage)
    /\ p \in passed' => \A e \in l2 : InTime(made[p][e])

(* d2 plans and plays what d does, or forgets it.                          *)
Forgets(d, d2) ==
    /\ d2.manifest \in {d.manifest, None} /\ d2.playing \in {d.playing, None}
    /\ d2.played = d.played

LEMMA ForgetsPlaylist ==
    ASSUME NEW m \in Seq(PlaybackEvent), NEW d \in DeviceState, NEW d2, Playlist(m, d), Forgets(d, d2)
    PROVE  Playlist(m, d2)
<1>1. None \notin Item
  BY NamesAssumption DEF Item
<1>2. None \notin d2.played
  BY <1>1 DEF DeviceState, Forgets
<1>3. \A e \in 1..Len(m) : m[e] \in PlaybackEvent
  OBVIOUS
<1>4. \A e \in 1..Len(m) : m[e].item # None
  BY <1>1, <1>3 DEF PlaybackEvent
<1>5. QED
  BY <1>2, <1>4 DEF Playlist, Forgets

(* A step that no event happens in, about one player.                      *)
OnlyOf(p, d, s2, l2) ==
    /\ made' = made /\ areas' = areas /\ passed' \subseteq Player \ Prompt
    /\ stored' \in [Player -> SUBSET Nat] /\ stored'[p] = s2
    /\ late' \in [Player -> SUBSET Nat] /\ late'[p] = l2
    /\ device' \in [Player -> DeviceState] /\ device'[p] = d
    /\ \A r \in Player : r # p =>
         /\ stored'[r] = stored[r] /\ late'[r] = late[r] /\ device'[r] = device[r]
         /\ r \in passed' <=> r \in passed

LEMMA PageKeeps ==
    ASSUME IInv, NEW p \in Player \ Prompt, NoneStarts, CompletedIsDelivered',
           faults' \in 0..MaxFaults, NEW d, NEW t \in SUBSET (1..Len(made[p])), NEW s2, NEW l2,
           s2 = stored[p] \union t, \A e \in t : InTime(made[p][e]),
           OnlyOf(p, d, s2, l2), PageAfter(p, d, s2, l2), Forgets(device[p], d)
    PROVE  IInv'
<1>1. /\ Shapes /\ Facts(p) /\ Page(p) /\ device[p] \in DeviceState
      /\ Area(p)' = Area(p)
      /\ made[p] \in Seq(PlaybackEvent)
      /\ stored[p] \subseteq 1..Len(made[p])
  BY PlayerShapes, AreasStay DEF IInv, Shapes, OnlyOf
<1>2. Shapes' /\ OverridesStay /\ OneOverridePerArea'
  BY <1>1, NoneStartsStay, OneStays DEF IInv, Shapes, NoneStarts, OnlyOf
<1>3. made'[p] = made[p] /\ stored'[p] = s2 /\ late'[p] = l2 /\ device'[p] = d
  BY DEF OnlyOf
<1>4. Facts(p)'
  <2>1. \A e \in 1..Len(made[p]) : EventSound(p, made[p][e])'
    BY <1>1, <1>2, <1>3 DEF Facts, EventSound, OverridesStay, Stays
  <2>2. \A e, x \in s2 : Alike(made[p][e], made[p][x]) /\ made[p][e].type = "COMPLETED" => e = x
    <3>1. NoRepeat(made[p]) /\ s2 \subseteq 1..Len(made[p])
      BY <1>1 DEF Page
    <3>2. QED
      BY <1>1, <3>1, TakenOnce
  <2>3. \A e \in s2 : InTime(made[p][e])
    BY <1>1 DEF Facts
  <2>4. /\ Typed(made[p], d, s2, l2) /\ Refused(Area(p), made[p], d.rejected)
        /\ p \in passed' => \A e \in l2 : InTime(made[p][e])
    BY DEF PageAfter
  <2>5. QED
    BY <1>1, <1>3, <2>1, <2>2, <2>3, <2>4 DEF Facts
<1>5. Obeyed(p)'
  <2>1. None \notin Override
    BY ItemTypes
  <2>2. \A o \in Override : o = d.manifest \/ o = d.playing => Known(o) /\ p \in o.targets
    BY <1>1, <2>1 DEF Page, Obeyed, Forgets
  <2>3. QED
    BY <1>2, <1>3, <2>2, NextObeyed
<1>6. Page(p)'
  <2>1. Playlist(made[p], d)
    BY <1>1, ForgetsPlaylist DEF Page
  <2>2. History(made[p]) /\ NoRepeat(made[p])
    BY <1>1 DEF Page
  <2>3. /\ InOrder(made[p], d.queue, d.rejected, d.drain, s2, l2)
        /\ Kept(made[p], d.queue, d.rejected, s2)
        /\ Checked(Area(p), made[p], d.drain, d.stage)
    BY DEF PageAfter
  <2>4. QED
    BY <1>1, <1>3, <1>5, <2>1, <2>2, <2>3 DEF Page
<1>7. \A r \in Player : r # p =>
        /\ made'[r] = made[r] /\ device'[r] = device[r]
        /\ stored'[r] = stored[r] /\ late'[r] = late[r] /\ (r \in passed' <=> r \in passed)
  BY DEF OnlyOf
<1>8. QED
  BY <1>2, <1>4, <1>6, <1>7, OnePlayer DEF OnlyOf

(* A step of the page alone, the server hearing nothing new.               *)
LEMMA PageAloneKeeps ==
    ASSUME IInv, NEW p \in Player \ Prompt, UNCHANGED <<override, stored, made>>,
           faults' \in 0..MaxFaults, NEW d, NEW l2,
           OnlyOf(p, d, stored[p], l2), PageAfter(p, d, stored[p], l2), Forgets(device[p], d)
    PROVE  IInv' /\ NoneStarts
<1>1. NoneStarts
  BY UnchangedStarts DEF IInv
<1>2. CompletedIsDelivered'
  BY <1>1, DeliveredStays DEF IInv
<1>3. PICK t \in SUBSET (1..Len(made[p])) : t = {}
  OBVIOUS
<1>4. stored[p] = stored[p] \union t /\ \A e \in t : InTime(made[p][e])
  BY <1>3
<1>5. QED
  BY <1>1, <1>2, <1>4, PageKeeps

LEMMA SentOnly ==
    ASSUME Shapes, NEW p \in Player, NEW d \in DeviceState, NEW s2 \in SUBSET Nat,
           made' = made, stored' = [stored EXCEPT ![p] = s2], UNCHANGED <<late, passed, areas>>,
           passed \subseteq Player \ Prompt, p \in passed => \A e \in late[p] : InTime(made[p][e]),
           AfterSend(p, d, made[p], s2, late[p]),
           d.queue \subseteq 1..Len(made[p]), d.rejected \subseteq 1..Len(made[p]),
           s2 \subseteq 1..Len(made[p]), late[p] \subseteq 1..Len(made[p]),
           Refused(Area(p), made[p], d.rejected), Kept(made[p], d.queue, d.rejected, s2),
           Forgets(device[p], d)
    PROVE  \E d2 : /\ OnlyOf(p, d2, s2, late[p]) /\ PageAfter(p, d2, s2, late[p])
                   /\ Forgets(device[p], d2)
<1>1. PICK d2 \in DeviceState :
        /\ device' = [device EXCEPT ![p] = d2]
        /\ d2.manifest = d.manifest /\ d2.playing = d.playing /\ d2.played = d.played
        /\ d2.queue = d.queue /\ d2.rejected = d.rejected
        /\ \A i \in 1..Len(d2.drain) : d2.drain[i] \subseteq 1..Len(made[p])
        /\ d2.stage # "idle" <=> d2.drain # <<>>
        /\ InOrder(made[p], d2.queue, d2.rejected, d2.drain, s2, late[p])
        /\ Checked(Area(p), made[p], d2.drain, d2.stage)
  <2>1. Area(p)' = Area(p)
    BY DEF areas, Area
  <2>2. QED
    BY <2>1 DEF AfterSend
<1>2. OnlyOf(p, d2, s2, late[p])
  BY <1>1 DEF OnlyOf, Shapes
<1>3. Typed(made[p], d2, s2, late[p])
  BY <1>1 DEF Typed
<1>4. Refused(Area(p), made[p], d2.rejected) /\ Kept(made[p], d2.queue, d2.rejected, s2)
  BY <1>1
<1>5. PageAfter(p, d2, s2, late[p])
  BY <1>1, <1>3, <1>4 DEF PageAfter
<1>6. Forgets(device[p], d2)
  BY <1>1 DEF Forgets
<1>7. QED
  BY <1>2, <1>5, <1>6

(* The page sends on, with another queue and other parts, and the server   *)
(* has stored nothing.                                                     *)
LEMMA SendOnKeeps ==
    ASSUME IInv, NEW p \in Player \ Prompt, UNCHANGED <<override, stored, made, late, passed, areas, faults>>,
           NEW d \in DeviceState, NEW parts \in Seq((SUBSET Nat) \ {{}}), Send(p, d, parts),
           d.queue \subseteq 1..Len(made[p]), d.rejected \subseteq 1..Len(made[p]),
           \A i \in 1..Len(parts) : parts[i] \subseteq 1..Len(made[p]),
           InOrder(made[p], d.queue, d.rejected, parts, stored[p], late[p]),
           Refused(Area(p), made[p], d.rejected), Kept(made[p], d.queue, d.rejected, stored[p]),
           Forgets(device[p], d)
    PROVE  IInv' /\ NoneStarts
<1>0. passed \subseteq Player \ Prompt /\ AreasSound' /\ Area(p)' = Area(p)
  BY UnchangedStarts, AreasStay DEF IInv
<1>1. /\ Shapes /\ Facts(p) /\ made[p] \in Seq(PlaybackEvent) /\ made'[p] = made[p]
      /\ stored[p] \subseteq 1..Len(made[p]) /\ late[p] \subseteq 1..Len(made[p])
  BY PlayerShapes DEF IInv
<1>2. \A e \in 1..Len(made[p]) : EventSound(p, made[p][e])'
  BY <1>1 DEF Facts, EventSound, Known, Active
<1>3. AfterSend(p, d, made[p], stored[p], late[p])
  <2>1. PICK m : m = made[p]
    OBVIOUS
  <2>2. AfterSend(p, d, m, stored[p], late[p])
    BY <2>1, <1>0, <1>1, <1>2, Sends
  <2>3. QED
    BY <2>1, <2>2
<1>4. stored' = [stored EXCEPT ![p] = stored[p]] /\ stored[p] \in SUBSET Nat
  BY <1>1 DEF Shapes
<1>5. \E d2 : /\ OnlyOf(p, d2, stored[p], late[p]) /\ PageAfter(p, d2, stored[p], late[p])
              /\ Forgets(device[p], d2)
  BY <1>0, <1>1, <1>3, <1>4, SentOnly DEF Facts
<1>6. faults' \in 0..MaxFaults
  BY <1>1 DEF Shapes
<1>7. QED
  BY <1>5, <1>6, PageAloneKeeps

LEMMA StartFlushKeeps ==
    ASSUME IInv, NEW p \in Player \ Prompt, StartFlush(p)
    PROVE  IInv' /\ NoneStarts
<1>1. PICK d : d = device[p]
  OBVIOUS
<1>2. UNCHANGED <<override, stored, made, late, passed, areas, faults>> /\ Send(p, d, <<>>)
  BY <1>1 DEF StartFlush
<1>3. /\ Facts(p) /\ Page(p) /\ d \in DeviceState
      /\ d.queue \subseteq 1..Len(made[p]) /\ d.rejected \subseteq 1..Len(made[p])
  BY <1>1, PlayerShapes DEF IInv
<1>4. /\ <<>> \in Seq((SUBSET Nat) \ {{}})
      /\ \A i \in 1..Len(<<>>) : <<>>[i] \subseteq 1..Len(made[p])
  OBVIOUS
<1>5. InOrder(made[p], d.queue, d.rejected, <<>>, stored[p], late[p])
  BY <1>1, <1>3, NoneLeft DEF Page
<1>6. /\ Refused(Area(p), made[p], d.rejected) /\ Kept(made[p], d.queue, d.rejected, stored[p])
      /\ Forgets(device[p], d)
  BY <1>1, <1>3 DEF Facts, Page, Forgets
<1>7. QED
  BY <1>2, <1>3, <1>4, <1>5, <1>6, SendOnKeeps

LEMMA ReadLaterKeeps ==
    ASSUME IInv, NEW p \in Player \ Prompt, ReadLater(p)
    PROVE  IInv' /\ NoneStarts
<1>1. PICK d, parts : d = device[p] /\ parts = device[p].drain
  OBVIOUS
<1>2. UNCHANGED <<override, stored, made, late, passed, areas, faults>> /\ Send(p, d, parts)
  BY <1>1 DEF ReadLater
<1>3. /\ Facts(p) /\ Page(p) /\ d \in DeviceState
      /\ d.queue \subseteq 1..Len(made[p]) /\ d.rejected \subseteq 1..Len(made[p])
      /\ parts \in Seq((SUBSET Nat) \ {{}})
      /\ \A i \in 1..Len(parts) : parts[i] \subseteq 1..Len(made[p])
  BY <1>1, PlayerShapes DEF IInv
<1>4. InOrder(made[p], d.queue, d.rejected, parts, stored[p], late[p])
  BY <1>1, <1>3 DEF Page
<1>5. /\ Refused(Area(p), made[p], d.rejected) /\ Kept(made[p], d.queue, d.rejected, stored[p])
      /\ Forgets(device[p], d)
  BY <1>1, <1>3 DEF Facts, Page, Forgets
<1>6. QED
  BY <1>2, <1>3, <1>4, <1>5, SendOnKeeps

(* An event more is refused for good, which its successor may suffer for.  *)
LEMMA MoreRejected ==
    ASSUME NEW m, NEW q, NEW r, NEW r2, NEW w, NEW s, NEW l, r \subseteq r2
    PROVE  /\ InOrder(m, q, r, w, s, l) => InOrder(m, q, r2, w, s, l)
           /\ \A x : StartLate(m, r, x) => StartLate(m, r2, x)
<1>1. \A x : StartLate(m, r, x) => StartLate(m, r2, x)
  BY DEF StartLate
<1>2. QED
  BY <1>1 DEF InOrder

LEMMA RejectPartKeeps ==
    ASSUME IInv, NEW p \in Player \ Prompt, RejectPart(p)
    PROVE  IInv' /\ NoneStarts
<1>1. PICK d, r : d = device[p] /\ r = device[p].rejected
  OBVIOUS
<1>2. PICK part : part = Head(d.drain)
  OBVIOUS
<1>3. /\ d.stage = "bad"
      /\ UNCHANGED <<override, stored, made, late, passed, areas, faults>>
      /\ \/ /\ Cardinality(part) = 1
            /\ Send(p, [d EXCEPT !.queue = @ \ part, !.rejected = @ \union part], Tail(d.drain))
         \/ /\ Cardinality(part) > 1
            /\ Send(p, d, Halves(part) \o Tail(d.drain))
  BY <1>1, <1>2 DEF RejectPart
<1>4. /\ Shapes /\ Facts(p) /\ Page(p) /\ d \in DeviceState
      /\ made[p] \in Seq(PlaybackEvent)
      /\ d.queue \subseteq 1..Len(made[p]) /\ d.rejected \subseteq 1..Len(made[p])
      /\ d.drain \in Seq((SUBSET Nat) \ {{}}) /\ d.drain # <<>>
      /\ \A i \in 1..Len(d.drain) : d.drain[i] \subseteq 1..Len(made[p])
      /\ stored[p] \subseteq 1..Len(made[p]) /\ late[p] \subseteq 1..Len(made[p])
  BY <1>1, <1>3, PlayerShapes DEF IInv
<1>5. part \subseteq 1..Len(made[p]) /\ part = d.drain[1] /\ part # {}
  BY <1>2, <1>4
<1>6. /\ InOrder(made[p], d.queue, d.rejected, d.drain, stored[p], late[p])
      /\ Refused(Area(p), made[p], d.rejected) /\ Kept(made[p], d.queue, d.rejected, stored[p])
      /\ \E e \in part : Refused(Area(p), made[p], {e})
  BY <1>1, <1>2, <1>3, <1>4 DEF Facts, Page, Checked
<1>7. CASE /\ Cardinality(part) = 1
           /\ Send(p, [d EXCEPT !.queue = @ \ part, !.rejected = @ \union part], Tail(d.drain))
  <2>1. PICK d1 : d1 = [d EXCEPT !.queue = @ \ part, !.rejected = @ \union part]
    OBVIOUS
  <2>2. /\ d1 \in DeviceState /\ d1.queue = d.queue \ part
        /\ d1.rejected = d.rejected \union part
        /\ d1.manifest = d.manifest /\ d1.playing = d.playing /\ d1.played = d.played
    <3>1. part \in SUBSET Nat
      BY <1>5
    <3>2. QED
      BY <2>1, <3>1, <1>4 DEF DeviceState
  <2>3. PICK parts : parts = Tail(d.drain)
    OBVIOUS
  <2>4. /\ parts \in Seq((SUBSET Nat) \ {{}})
        /\ \A i \in 1..Len(parts) : parts[i] \subseteq 1..Len(made[p])
    <3>1. \A i \in 1..Len(parts) : i + 1 \in 1..Len(d.drain) /\ parts[i] = d.drain[i + 1]
      BY <2>3, <1>4
    <3>2. QED
      BY <2>3, <3>1, <1>4
  <2>5. InOrder(made[p], d1.queue, d1.rejected, parts, stored[p], late[p])
    <3>0. InOrder(made[p], d.queue, r, d.drain, stored[p], late[p])
      BY <1>1, <1>6
    <3>1. \A x \in d.queue \ stored[p] : StartLate(made[p], r, x) \/ Below(stored[p], {x})
      BY <3>0 DEF InOrder
    <3>2. PICK t : t = {}
      OBVIOUS
    <3>3. stored[p] \union t = stored[p]
      BY <3>2
    <3>4. \A x \in (d.queue \ Head(d.drain)) \ (stored[p] \union t) :
            StartLate(made[p], r, x) \/ Below(stored[p] \union t, {x})
      BY <3>1, <3>3
    <3>5. InOrder(made[p], d.queue \ Head(d.drain), r, Tail(d.drain), stored[p] \union t, late[p])
      BY <3>0, <3>4, <1>4, HeadAnswered
    <3>6. InOrder(made[p], d1.queue, r, parts, stored[p], late[p])
      BY <3>3, <3>5, <2>2, <2>3, <1>2
    <3>7. r \subseteq d1.rejected
      BY <2>2, <1>1
    <3>8. QED
      BY <3>6, <3>7, MoreRejected
  <2>6. Refused(Area(p), made[p], d1.rejected)
    <3>1. PICK e \in part : Refused(Area(p), made[p], {e})
      BY <1>6
    <3>2. PICK c : part = {c}
      <4>1. PICK n \in Nat : n = Len(made[p])
        BY <1>4
      <4>2. IsFiniteSet(part)
        BY <4>1, <1>5, FinitePositions
      <4>3. QED
        BY <4>2, <1>7, FS_Singleton
    <3>3. Refused(Area(p), made[p], part)
      BY <3>1, <3>2
    <3>4. QED
      BY <3>3, <2>2, <1>6 DEF Refused
  <2>7. Kept(made[p], d1.queue, d1.rejected, stored[p])
    <3>1. d.rejected \subseteq d1.rejected
      BY <2>2
    <3>2. \A x : StartLate(made[p], d.rejected, x) => StartLate(made[p], d1.rejected, x)
      BY <3>1, MoreRejected
    <3>3. QED
      BY <3>2, <2>2, <1>6 DEF Kept
  <2>8. Forgets(device[p], d1)
    BY <2>2, <1>1 DEF Forgets
  <2>9. d1.queue \subseteq 1..Len(made[p]) /\ d1.rejected \subseteq 1..Len(made[p])
    BY <2>2, <1>4, <1>5
  <2>10. Send(p, d1, parts)
    BY <1>7, <2>1, <2>3
  <2>11. QED
    BY <1>3, <2>2, <2>4, <2>5, <2>6, <2>7, <2>8, <2>9, <2>10, SendOnKeeps
<1>8. CASE Cardinality(part) > 1 /\ Send(p, d, Halves(part) \o Tail(d.drain))
  <2>1. PICK parts : parts = Halves(part) \o Tail(d.drain)
    OBVIOUS
  <2>2. PICK m : m = made[p]
    OBVIOUS
  <2>3. /\ parts \in Seq((SUBSET Nat) \ {{}})
        /\ \A i \in 1..Len(parts) : parts[i] \subseteq 1..Len(m)
        /\ InOrder(m, d.queue, d.rejected, parts, stored[p], late[p])
    BY <2>1, <2>2, <1>2, <1>4, <1>5, <1>6, <1>8, HeadCut
  <2>4. Forgets(device[p], d)
    BY <1>1 DEF Forgets
  <2>5. Send(p, d, parts)
    BY <2>1, <1>8
  <2>6. QED
    BY <2>2, <2>3, <2>4, <2>5, <1>3, <1>4, <1>6, SendOnKeeps
<1>9. QED
  BY <1>3, <1>7, <1>8

LEMMA StoppedKeeps ==
    ASSUME IInv, NEW p \in Player \ Prompt, UNCHANGED <<override, stored, made, areas>>,
           faults' \in 0..MaxFaults, NEW d \in DeviceState, device' = [device EXCEPT ![p] = d],
           Forgets(device[p], d), d.drain = <<>>, d.stage = "idle",
           d.queue = device[p].queue, d.rejected = device[p].rejected,
           UNCHANGED <<late, passed>> \/ Forgotten(p)
    PROVE  IInv' /\ NoneStarts
<1>1. /\ Shapes /\ Facts(p) /\ Page(p)
      /\ d.queue \subseteq 1..Len(made[p]) /\ d.rejected \subseteq 1..Len(made[p])
      /\ device[p].drain \in Seq((SUBSET Nat) \ {{}})
      /\ \A i \in 1..Len(device[p].drain) : device[p].drain[i] \subseteq 1..Len(made[p])
      /\ device[p].stage # "idle" <=> device[p].drain # <<>>
      /\ stored[p] \subseteq 1..Len(made[p]) /\ late[p] \subseteq 1..Len(made[p])
  BY PlayerShapes DEF IInv
<1>2. PICK w : w = device[p].drain
  OBVIOUS
<1>3. PICK l2 : l2 = late'[p]
  OBVIOUS
<1>a. ASSUME w # <<>> PROVE Head(w) \subseteq 1..Len(made[p]) /\ Head(w) \in SUBSET Nat
  BY <1>a, <1>1, <1>2
<1>b. ASSUME Forgotten(p), device[p].stage # "idle"
      PROVE  /\ late' = [late EXCEPT ![p] = Head(w)] /\ w # <<>>
             /\ passed' = passed \ {p}
  BY <1>b, <1>1, <1>2 DEF Forgotten
<1>5. /\ late' \in [Player -> SUBSET Nat] /\ passed' \subseteq Player \ Prompt
      /\ \A r \in Player : r # p => late'[r] = late[r] /\ (r \in passed' <=> r \in passed)
      /\ \/ l2 = late[p] /\ (p \in passed' => p \in passed)
         \/ w # <<>> /\ l2 = Head(w) /\ p \notin passed'
  <2>0. passed \subseteq Player \ Prompt
    BY DEF IInv
  <2>1. CASE UNCHANGED <<late, passed>>
    BY <2>0, <2>1, <1>1, <1>3 DEF Shapes
  <2>2. CASE Forgotten(p) /\ device[p].stage # "idle"
    <3>1. PICK h \in SUBSET Nat : h = Head(w)
      BY <2>2, <1>a, <1>b
    <3>2. late' = [late EXCEPT ![p] = h] /\ w # <<>>
      BY <2>2, <3>1, <1>b
    <3>3. QED
      BY <2>0, <2>2, <3>1, <3>2, <1>b, <1>1, <1>3 DEF Shapes
  <2>3. CASE Forgotten(p) /\ device[p].stage = "idle"
    BY <2>1, <2>3 DEF Forgotten
  <2>4. QED
    BY <2>1, <2>2, <2>3
<1>6. InOrder(made[p], d.queue, d.rejected, w, stored[p], late[p])
  BY <1>1, <1>2 DEF Page
<1>7. InOrder(made[p], d.queue, d.rejected, <<>>, stored[p], l2)
  <2>1. CASE l2 = late[p]
    BY <2>1, <1>6, NoneLeft
  <2>2. CASE w # <<>> /\ l2 = Head(w)
    BY <2>2, <1>1, <1>2, <1>6, HeadForgotten
  <2>3. QED
    BY <2>1, <2>2, <1>5
<1>8. l2 \subseteq 1..Len(made[p])
  BY <1>1, <1>5, <1>a
<1>9. Typed(made[p], d, stored[p], l2)
  <2>1. Len(d.drain) = 0 /\ d.drain = <<>>
    OBVIOUS
  <2>2. \A i \in 1..Len(d.drain) : d.drain[i] \subseteq 1..Len(made[p])
    BY <2>1
  <2>3. QED
    BY <1>1, <1>8, <2>1, <2>2 DEF Typed
<1>10. PageAfter(p, d, stored[p], l2)
  <2>1. Refused(Area(p), made[p], d.rejected) /\ Kept(made[p], d.queue, d.rejected, stored[p])
    BY <1>1 DEF Facts, Page
  <2>2. Checked(Area(p), made[p], d.drain, d.stage)
    BY DEF Checked
  <2>3. p \in passed' => \A e \in l2 : InTime(made[p][e])
    BY <1>1, <1>5 DEF Facts
  <2>4. QED
    BY <1>7, <1>9, <2>1, <2>2, <2>3 DEF PageAfter
<1>11. OnlyOf(p, d, stored[p], l2)
  BY <1>1, <1>3, <1>5 DEF OnlyOf, Shapes
<1>12. QED
  BY <1>10, <1>11, PageAloneKeeps

LEMMA FaultType ==
    ASSUME Shapes, Fault
    PROVE  faults' \in 0..MaxFaults
BY ParametersAssumption DEF Shapes, Fault

LEMMA StoppedType ==
    ASSUME NEW d \in DeviceState, NEW c, c = Stopped(d)
    PROVE  /\ c \in DeviceState /\ Forgets(d, c) /\ c.drain = <<>> /\ c.stage = "idle"
           /\ c.queue = d.queue /\ c.rejected = d.rejected
<1>0. <<>> \in Seq((SUBSET Nat) \ {{}})
  OBVIOUS
<1>1. PICK none \in Seq((SUBSET Nat) \ {{}}) : none = <<>>
  BY <1>0
<1>2. PICK b : b = [d EXCEPT !.drain = none]
  OBVIOUS
<1>3. b \in DeviceState
  BY <1>2 DEF DeviceState
<1>4. c = [b EXCEPT !.stage = "idle"]
  BY <1>1, <1>2 DEF Stopped, DeviceState
<1>5. c \in DeviceState
  BY <1>3, <1>4 DEF DeviceState
<1>6. QED
  BY <1>1, <1>2, <1>4, <1>5 DEF Forgets, DeviceState

LEMMA RequestFailsKeeps ==
    ASSUME IInv, NEW p \in Player \ Prompt, RequestFails(p)
    PROVE  IInv' /\ NoneStarts
<1>1. PICK d : d = Stopped(device[p])
  OBVIOUS
<1>2. device[p] \in DeviceState
  BY DEF IInv, Shapes
<1>3. /\ d \in DeviceState /\ Forgets(device[p], d) /\ d.drain = <<>> /\ d.stage = "idle"
      /\ d.queue = device[p].queue /\ d.rejected = device[p].rejected
  BY <1>1, <1>2, StoppedType
<1>4. device' = [device EXCEPT ![p] = d]
  BY <1>1 DEF RequestFails
<1>5. faults' \in 0..MaxFaults
  BY FaultType DEF IInv, RequestFails
<1>6. UNCHANGED <<override, stored, made, areas>> /\ (UNCHANGED <<late, passed>> \/ Forgotten(p))
  BY DEF RequestFails
<1>7. QED
  BY <1>3, <1>4, <1>5, <1>6, StoppedKeeps

LEMMA ReloadKeeps ==
    ASSUME IInv, NEW p \in Player \ Prompt, Reload(p)
    PROVE  IInv' /\ NoneStarts
<1>1. PICK c : c = Stopped(device[p])
  OBVIOUS
<1>2. device[p] \in DeviceState
  BY DEF IInv, Shapes
<1>3. /\ c \in DeviceState /\ Forgets(device[p], c) /\ c.drain = <<>> /\ c.stage = "idle"
      /\ c.queue = device[p].queue /\ c.rejected = device[p].rejected
  BY <1>1, <1>2, StoppedType
<1>4. PICK d : d = [c EXCEPT !.playing = None, !.manifest = None]
  OBVIOUS
<1>5. /\ d \in DeviceState /\ Forgets(device[p], d) /\ d.drain = <<>> /\ d.stage = "idle"
      /\ d.queue = device[p].queue /\ d.rejected = device[p].rejected
  BY <1>3, <1>4 DEF Forgets, DeviceState
<1>6. device' = [device EXCEPT ![p] = d]
  BY <1>1, <1>4 DEF Reload
<1>7. faults' \in 0..MaxFaults
  BY FaultType DEF IInv, Reload
<1>8. UNCHANGED <<override, stored, made, areas>> /\ (UNCHANGED <<late, passed>> \/ Forgotten(p))
  BY DEF Reload
<1>9. QED
  BY <1>5, <1>6, <1>7, <1>8, StoppedKeeps

(* What the server makes of a request it has found valid.                  *)
Recorded(p, part, t) ==
    /\ t \subseteq part /\ Accepted(p, part, t)
    /\ stored' = [stored EXCEPT ![p] = @ \union t]
    /\ made' = made
    /\ NoneStarts /\ CompletedIsDelivered'

LEMMA RecordSettles ==
    ASSUME IInv, NEW p \in Player \ Prompt, NEW part \in SUBSET (1..Len(made[p])), Record(p, part)
    PROVE  \E t \in SUBSET (1..Len(made[p])) : Recorded(p, part, t)
<1>1. PICK t \in SUBSET part :
        /\ Accepted(p, part, t)
        /\ stored' = [stored EXCEPT ![p] = @ \union t]
        /\ UNCHANGED made
        /\ Settle({o \in Override : \E e \in t :
                      made[p][e].item = o /\ made[p][e].type = "COMPLETED"})
  BY DEF Record
<1>2. Shapes /\ made[p] \in Seq(PlaybackEvent) /\ stored[p] \subseteq 1..Len(made[p]) /\ Facts(p) /\ Page(p)
  BY PlayerShapes DEF IInv
<1>3. PICK s : s = stored[p] \union t
  OBVIOUS
<1>4. /\ stored'[p] = s /\ s \subseteq 1..Len(made[p])
      /\ \A r \in Player : r # p => stored'[r] = stored[r]
      /\ \A r \in Player : stored[r] \subseteq stored'[r]
      /\ made' = made
  BY <1>1, <1>2, <1>3 DEF Shapes
<1>5. \A e \in 1..Len(made[p]) : EventSound(p, made[p][e])
  BY <1>2 DEF Facts
<1>6. \A r \in Player : StoredSound(r)'
  <2> TAKE r \in Player
  <2>1. CASE r = p
    <3>1. \A e, x \in s : Alike(made[p][e], made[p][x]) /\ made[p][e].type = "COMPLETED" => e = x
      <4>1. NoRepeat(made[p])
        BY <1>2 DEF Page
      <4>2. PICK m : m = made[p]
        OBVIOUS
      <4>3. \A e, x \in s : Alike(m[e], m[x]) /\ m[e].type = "COMPLETED" => e = x
        BY <4>1, <4>2, <1>2, <1>4, TakenOnce
      <4>4. QED
        BY <4>2, <4>3
    <3>2. \A e \in s : \A o \in Override : made[p][e].item = o => p \in o.targets
      BY <1>4, <1>5 DEF EventSound
    <3>3. QED
      BY <2>1, <3>1, <3>2, <1>4 DEF StoredSound
  <2>2. CASE r # p
    <3>1. Facts(r) /\ stored[r] \subseteq 1..Len(made[r])
      BY PlayerShapes DEF IInv
    <3>2. QED
      BY <2>2, <3>1, <1>4 DEF StoredSound, Facts, EventSound
  <2>3. QED
    BY <2>1, <2>2
<1>7. PICK completed \in SUBSET Override :
        completed = {o \in Override : \E e \in t : made[p][e].item = o /\ made[p][e].type = "COMPLETED"}
  OBVIOUS
<1>8. \A o \in completed : Known(o)
  BY <1>1, <1>5, <1>7 DEF EventSound
<1>9. \A r \in Player : \A e \in stored'[r] \ stored[r] : \A o \in Override :
        made'[r][e].item = o /\ made'[r][e].type = "COMPLETED" => o \in completed
  <2> TAKE r \in Player
  <2> TAKE e \in stored'[r] \ stored[r]
  <2> TAKE o \in Override
  <2>1. r = p /\ e \in t
    BY <1>3, <1>4
  <2>2. QED
    BY <2>1, <1>4, <1>7
<1>10. Settle(completed)
  BY <1>1, <1>7
<1>11. \A r \in Player : \A e \in stored[r] : made'[r][e] = made[r][e]
  BY <1>4
<1>12. NoneStarts /\ CompletedIsDelivered'
  BY <1>2, <1>4, <1>6, <1>8, <1>9, <1>10, <1>11, Settles DEF IInv
<1>13. Recorded(p, part, t) /\ t \in SUBSET (1..Len(made[p]))
  BY <1>1, <1>12 DEF Recorded
<1>14. QED
  BY <1>13

LEMMA PageServable ==
    ASSUME IInv, NEW p \in Player \ Prompt, NEW part \in SUBSET (1..Len(made[p])),
           Convex(part), Below(part, device[p].queue \ (stored[p] \union part))
    PROVE  Servable(p, made[p], stored[p], device[p].queue, device[p].rejected, part)
<1>1. /\ made[p] \in Seq(PlaybackEvent) /\ Facts(p) /\ Page(p)
      /\ device[p].queue \subseteq 1..Len(made[p])
      /\ device[p].rejected \subseteq 1..Len(made[p])
      /\ stored[p] \subseteq 1..Len(made[p])
  BY PlayerShapes DEF IInv
<1>2. /\ History(made[p]) /\ NoRepeat(made[p])
      /\ Kept(made[p], device[p].queue, device[p].rejected, stored[p])
      /\ Refused(Area(p), made[p], device[p].rejected)
  BY <1>1 DEF Facts, Page
<1>3. \A x \in device[p].queue \ stored[p] :
        StartLate(made[p], device[p].rejected, x) \/ Below(stored[p], {x})
  BY <1>1 DEF Page, InOrder
<1>4. QED
  BY <1>1, <1>2, <1>3 DEF Servable

LEMMA ServeLateKeeps ==
    ASSUME IInv, NEW p \in Player \ Prompt, ServeLate(p)
    PROVE  IInv' /\ NoneStarts
<1>1. PICK d, r : d = device[p] /\ r = device[p].rejected
  OBVIOUS
<1>2. /\ Shapes /\ Facts(p) /\ Page(p) /\ d \in DeviceState
      /\ made[p] \in Seq(PlaybackEvent)
      /\ d.queue \subseteq 1..Len(made[p]) /\ d.rejected \subseteq 1..Len(made[p])
      /\ \A i \in 1..Len(d.drain) : d.drain[i] \subseteq 1..Len(made[p])
      /\ d.stage # "idle" <=> d.drain # <<>>
      /\ stored[p] \subseteq 1..Len(made[p]) /\ late[p] \subseteq 1..Len(made[p])
  BY <1>1, PlayerShapes DEF IInv
<1>3. PICK l : l = late[p]
  OBVIOUS
<1>4. /\ late' = [late EXCEPT ![p] = {}] /\ passed' = passed \ {p}
      /\ UNCHANGED <<device, areas, faults>> /\ p \in passed /\ Record(p, l)
  BY <1>3 DEF ServeLate
<1>5. l \in SUBSET (1..Len(made[p])) /\ Convex(l) /\ Below(l, d.queue \ (stored[p] \union l))
  BY <1>1, <1>2, <1>3 DEF Page, InOrder
<1>6. faults' \in 0..MaxFaults /\ Forgets(device[p], d)
  BY <1>1, <1>2, <1>4 DEF Shapes, Forgets
<1>o. InOrder(made[p], d.queue, r, d.drain, stored[p], l)
  BY <1>1, <1>2, <1>3 DEF Page
<1>k. /\ Refused(Area(p), made[p], d.rejected)
      /\ Kept(made[p], d.queue, d.rejected, stored[p])
      /\ Checked(Area(p), made[p], d.drain, d.stage)
  BY <1>1, <1>2 DEF Facts, Page
<1>p. ASSUME NEW s2 \in SUBSET (1..Len(made[p])), stored[p] \subseteq s2,
             \A x \in d.queue \ s2 : StartLate(made[p], r, x) \/ Below(s2, {x})
      PROVE  PageAfter(p, d, s2, {})
  <2>1. Typed(made[p], d, s2, {})
    BY <1>2 DEF Typed
  <2>2. InOrder(made[p], d.queue, d.rejected, d.drain, s2, {})
    <3>1. InOrder(made[p], d.queue, r, d.drain, s2, {})
      BY <1>o, <1>p DEF InOrder, Convex, Below
    <3>2. QED
      BY <3>1, <1>1
  <2>3. Kept(made[p], d.queue, d.rejected, s2)
    BY <1>k, <1>p DEF Kept
  <2>4. QED
    BY <1>2, <1>k, <2>1, <2>2, <2>3 DEF PageAfter
<1>7. PICK t \in SUBSET (1..Len(made[p])) : Recorded(p, l, t)
  BY <1>4, <1>5, RecordSettles
<1>8. /\ t \subseteq l /\ Accepted(p, l, t)
      /\ stored' = [stored EXCEPT ![p] = @ \union t] /\ made' = made
      /\ NoneStarts /\ CompletedIsDelivered'
  BY <1>7 DEF Recorded
<1>9. \A e \in t : InTime(made[p][e])
  BY <1>2, <1>3, <1>4, <1>8 DEF Facts
<1>10. PICK s2 : s2 = stored[p] \union t
  OBVIOUS
<1>11. \A x \in d.queue \ s2 : StartLate(made[p], r, x) \/ Below(s2, {x})
  <2>1. Servable(p, made[p], stored[p], d.queue, r, l)
    BY <1>1, <1>5, PageServable
  <2>2. QED
    BY <2>1, <1>8, <1>10, TakenInOrder
<1>12. PageAfter(p, d, s2, {})
  BY <1>p, <1>2, <1>10, <1>11
<1>13. OnlyOf(p, d, s2, {})
  <2>1. s2 \in SUBSET Nat
    <3>1. \A x \in s2 : x \in 1..Len(made[p])
      BY <1>2, <1>10
    <3>2. QED
      BY <3>1
  <2>2. stored' = [stored EXCEPT ![p] = s2]
    BY <1>8, <1>10
  <2>3. passed' \subseteq Player \ Prompt /\ \A q \in Player : q # p => (q \in passed' <=> q \in passed)
    BY <1>4 DEF IInv
  <2>4. /\ stored' \in [Player -> SUBSET Nat] /\ stored'[p] = s2
        /\ late' \in [Player -> SUBSET Nat] /\ late'[p] = {}
        /\ \A q \in Player : q # p => stored'[q] = stored[q] /\ late'[q] = late[q]
    BY <2>1, <2>2, <1>2, <1>4 DEF Shapes
  <2>5. device' = device /\ device' \in [Player -> DeviceState] /\ device'[p] = d
    BY <1>1, <1>2, <1>4 DEF Shapes
  <2>6. made' = made /\ areas' = areas
    BY <1>4, <1>8
  <2>7. QED
    BY <2>3, <2>4, <2>5, <2>6 DEF OnlyOf
<1>14. QED
  BY <1>6, <1>8, <1>9, <1>10, <1>12, <1>13, PageKeeps

LEMMA ReadLateKeeps ==
    ASSUME IInv, NEW p \in Player \ Prompt, ReadLate(p)
    PROVE  IInv' /\ NoneStarts
<1>1. PICK d : d = device[p]
  OBVIOUS
<1>2. /\ Shapes /\ Facts(p) /\ Page(p) /\ d \in DeviceState
      /\ \A e \in 1..Len(made[p]) : made[p][e] \in PlaybackEvent
      /\ late[p] \subseteq 1..Len(made[p]) /\ passed \subseteq Player \ Prompt
  BY <1>1, PlayerShapes DEF IInv
<1>3. /\ UNCHANGED <<override, stored, made, device, late, areas, faults>>
      /\ passed' \subseteq Player \ Prompt
      /\ \A r \in Player : r # p => (r \in passed' <=> r \in passed)
      /\ p \in passed' => \A e \in late[p] : Valid(p, e)
  BY <1>2 DEF ReadLate
<1>4. p \in passed' => \A e \in late[p] : InTime(made[p][e])
  BY <1>2, <1>3, ValidInTime DEF Facts
<1>5. PageAfter(p, d, stored[p], late[p]) /\ Forgets(device[p], d)
  BY <1>1, <1>2, <1>4 DEF PageAfter, Facts, Page, Forgets
<1>6. OnlyOf(p, d, stored[p], late[p])
  BY <1>1, <1>2, <1>3 DEF OnlyOf, Shapes
<1>7. faults' \in 0..MaxFaults
  BY <1>2, <1>3 DEF Shapes
<1>8. QED
  BY <1>3, <1>5, <1>6, <1>7, PageAloneKeeps

LEMMA AcceptPartKeeps ==
    ASSUME IInv, NEW p \in Player \ Prompt, AcceptPart(p)
    PROVE  IInv' /\ NoneStarts
<1>1. PICK d, r : d = device[p] /\ r = device[p].rejected
  OBVIOUS
<1>2. PICK part : part = Head(d.drain)
  OBVIOUS
<1>3. /\ d.stage = "checked" /\ Record(p, part) /\ UNCHANGED <<late, passed, areas, faults>>
      /\ Send(p, [d EXCEPT !.queue = Removed(@, part)], Tail(d.drain))
  BY <1>1, <1>2 DEF AcceptPart
<1>4. /\ Shapes /\ Facts(p) /\ Page(p) /\ d \in DeviceState
      /\ made[p] \in Seq(PlaybackEvent)
      /\ d.queue \subseteq 1..Len(made[p]) /\ d.rejected \subseteq 1..Len(made[p])
      /\ d.drain \in Seq((SUBSET Nat) \ {{}}) /\ d.drain # <<>>
      /\ \A i \in 1..Len(d.drain) : d.drain[i] \subseteq 1..Len(made[p])
      /\ stored[p] \subseteq 1..Len(made[p]) /\ late[p] \subseteq 1..Len(made[p])
  BY <1>1, <1>3, PlayerShapes DEF IInv
<1>5. part \in SUBSET (1..Len(made[p])) /\ part = d.drain[1] /\ part # {}
  BY <1>2, <1>4
<1>6. /\ InOrder(made[p], d.queue, d.rejected, d.drain, stored[p], late[p])
      /\ Refused(Area(p), made[p], d.rejected) /\ Kept(made[p], d.queue, d.rejected, stored[p])
      /\ \A e \in part : InTime(made[p][e])
  BY <1>1, <1>2, <1>3, <1>4 DEF Facts, Page, Checked
<1>7. PICK t \in SUBSET (1..Len(made[p])) : Recorded(p, part, t)
  BY <1>3, <1>5, RecordSettles
<1>8. /\ t \subseteq part /\ Accepted(p, part, t)
      /\ stored' = [stored EXCEPT ![p] = @ \union t] /\ made' = made
      /\ NoneStarts /\ CompletedIsDelivered'
  BY <1>7 DEF Recorded
<1>9. Servable(p, made[p], stored[p], d.queue, r, part)
  <2>1. Convex(part) /\ Below(part, d.queue \ part)
    BY <1>2, <1>4, <1>6, HeadFirst
  <2>2. Below(part, d.queue \ (stored[p] \union part))
    BY <2>1 DEF Below
  <2>3. QED
    BY <1>1, <1>5, <2>1, <2>2, PageServable
<1>10. PICK s2 : s2 = stored[p] \union t
  OBVIOUS
<1>11. s2 \subseteq 1..Len(made[p]) /\ s2 \in SUBSET Nat /\ stored' = [stored EXCEPT ![p] = s2]
  <2>1. \A x \in s2 : x \in 1..Len(made[p])
    BY <1>4, <1>10
  <2>2. s2 \subseteq 1..Len(made[p]) /\ s2 \in SUBSET Nat
    BY <2>1
  <2>3. QED
    BY <2>2, <1>8, <1>10
<1>12. PICK parts : parts = Tail(d.drain)
  OBVIOUS
<1>13. /\ parts \in Seq((SUBSET Nat) \ {{}})
       /\ \A i \in 1..Len(parts) : parts[i] \subseteq 1..Len(made[p])
  <2>1. \A i \in 1..Len(parts) : i + 1 \in 1..Len(d.drain) /\ parts[i] = d.drain[i + 1]
    BY <1>4, <1>12
  <2>2. QED
    BY <2>1, <1>4, <1>12
<1>14. PICK d1 : d1 = [d EXCEPT !.queue = Removed(@, part)]
  OBVIOUS
<1>15. /\ d1 \in DeviceState /\ d1.queue = d.queue \ part /\ d1.rejected = d.rejected
       /\ d1.manifest = d.manifest /\ d1.playing = d.playing /\ d1.played = d.played
  BY <1>4, <1>14 DEF Removed, DeviceState
<1>16. Forgets(device[p], d1)
  BY <1>1, <1>15 DEF Forgets
<1>17. InOrder(made[p], d1.queue, d1.rejected, parts, s2, late[p])
  <2>1. \A x \in d.queue \ s2 : StartLate(made[p], r, x) \/ Below(s2, {x})
    BY <1>8, <1>9, <1>10, TakenInOrder
  <2>2. \A x \in (d.queue \ Head(d.drain)) \ (stored[p] \union t) :
          StartLate(made[p], r, x) \/ Below(stored[p] \union t, {x})
    BY <2>1, <1>10
  <2>3. InOrder(made[p], d.queue, r, d.drain, stored[p], late[p])
    BY <1>1, <1>6
  <2>4. InOrder(made[p], d.queue \ Head(d.drain), r, Tail(d.drain), stored[p] \union t, late[p])
    BY <2>2, <2>3, <1>4, HeadAnswered
  <2>5. QED
    BY <2>4, <1>1, <1>2, <1>10, <1>12, <1>15
<1>18. Kept(made[p], d1.queue, d1.rejected, s2)
  <2>1. \A e \in part \cap d.queue : e \in s2 \/ StartLate(made[p], r, e)
    <3>1. PICK m, s, q : m = made[p] /\ s = stored[p] /\ q = d.queue
      OBVIOUS
    <3>2. Servable(p, m, s, q, r, part) /\ Accepted(p, part, t) /\ t \subseteq part
      BY <3>1, <1>8, <1>9
    <3>3. \A e \in part \cap q : e \in s \union t \/ StartLate(m, r, e)
      BY <3>2, AllTaken
    <3>4. QED
      BY <3>1, <3>3, <1>10
  <2>2. QED
    BY <2>1, <1>1, <1>6, <1>10, <1>15 DEF Kept
<1>19. AfterSend(p, d1, made[p], s2, late[p])
  <2>0. AreasSound'
    BY <1>3, <1>8, AreasStay DEF IInv
  <2>1. Send(p, d1, parts)
    BY <1>3, <1>12, <1>14
  <2>2. PICK m : m = made[p] /\ m = made'[p]
    BY <1>8
  <2>3. \A e \in 1..Len(m) : EventSound(p, m[e])'
    <3>1. OverridesStay
      BY <1>4, <1>8, NoneStartsStay
    <3>2. QED
      BY <2>2, <3>1, <1>4 DEF Facts, EventSound, OverridesStay, Stays
  <2>4. d1.queue \subseteq 1..Len(m) /\ \A i \in 1..Len(parts) : parts[i] \subseteq 1..Len(m)
    BY <2>2, <1>4, <1>13, <1>15
  <2>5. InOrder(m, d1.queue, d1.rejected, parts, s2, late[p]) /\ m \in Seq(PlaybackEvent)
    BY <2>2, <1>4, <1>17
  <2>6. AfterSend(p, d1, m, s2, late[p])
    BY <2>0, <2>1, <2>2, <2>3, <2>4, <2>5, <1>4, <1>13, <1>15, Sends
  <2>7. QED
    BY <2>2, <2>6
<1>20. PICK d2 : /\ OnlyOf(p, d2, s2, late[p]) /\ PageAfter(p, d2, s2, late[p])
                 /\ Forgets(device[p], d2)
  <2>1. Refused(Area(p), made[p], d1.rejected) /\ d1.queue \subseteq 1..Len(made[p])
        /\ d1.rejected \subseteq 1..Len(made[p])
    BY <1>4, <1>6, <1>15
  <2>2. /\ UNCHANGED <<late, passed, areas>> /\ passed \subseteq Player \ Prompt
        /\ p \in passed => \A e \in late[p] : InTime(made[p][e])
    BY <1>3, <1>4 DEF IInv, Facts
  <2>3. QED
    BY <2>1, <2>2, <1>4, <1>8, <1>11, <1>15, <1>16, <1>18, <1>19, SentOnly
<1>21. faults' \in 0..MaxFaults
  BY <1>3, <1>4 DEF Shapes
<1>22. \A e \in t : InTime(made[p][e])
  BY <1>6, <1>8
<1>23. QED
  BY <1>8, <1>10, <1>20, <1>21, <1>22, PageKeeps

LEMMA PlayAtOnceKeeps ==
    ASSUME IInv, NEW p \in Prompt, PlayAtOnce(p)
    PROVE  IInv' /\ NoneStarts
<1>1. PICK item : item = Programme(p)
  OBVIOUS
<1>2. /\ item \in Override /\ Happens(p, item, "COMPLETED")
      /\ stored' = [stored EXCEPT ![p] = @ \union {Len(made[p]) + 1}]
      /\ Settle({item}) /\ UNCHANGED <<device, late, passed, areas, faults>>
  BY <1>1 DEF PlayAtOnce
<1>3. /\ p \in Player /\ Shapes /\ Facts(p) /\ OneOverridePerArea /\ CompletedIsDelivered
      /\ made[p] \in Seq(PlaybackEvent)
  BY PlayersAssumption DEF IInv, Shapes
<1>4. Known(item) /\ Running(item) /\ p \in item.targets /\ ~Settled(p, item)
  BY <1>1, <1>2, <1>3, ProgrammeStands
<1>5. NoneStarts
  <2>1. \A o \in Override : override'[o] =
          IF o \in {item} /\ Enough(o)' THEN Closed(override[o], "COMPLETED") ELSE override[o]
    BY <1>2 DEF Settle
  <2>2. "COMPLETED" \in Ended /\ \A o \in Override : Known(o) => override[o] \in OverrideRow
    BY <1>3, ItemTypes DEF Ended, Shapes, Known
  <2>3. \A o \in Override : override'[o] \in OverrideRow \union {Absent}
    <3> TAKE o \in Override
    <3>1. CASE o = item /\ Enough(o)'
      BY <3>1, <2>1, <2>2, <1>4, ClosedRow
    <3>2. CASE ~(o = item /\ Enough(o)')
      BY <3>2, <2>1, <1>3 DEF Shapes
    <3>3. QED
      BY <3>1, <3>2
  <2>4. override' \in [Override -> OverrideRow \union {Absent}]
    BY <1>2, <2>3 DEF Settle
  <2>5. \A o \in Override : Known(o) => Evolves(o)
    BY <2>1, <2>2 DEF Evolves
  <2>6. \A o \in Override : ~Known(o) => override'[o] = override[o]
    BY <2>1, <1>4
  <2>7. QED
    BY <2>4, <2>5, <2>6 DEF NoneStarts
<1>6. OverridesStay /\ OneOverridePerArea'
  BY <1>3, <1>5, NoneStartsStay, OneStays
<1>7. PICK v \in PlaybackEvent :
        /\ made' = [made EXCEPT ![p] = Append(made[p], v)]
        /\ v.item = item /\ v.type = "COMPLETED"
        /\ v.overdue <=> override[item].due
        /\ v.ended <=> ~Active(item)
        /\ ~v.during
        /\ EventSound(p, v)'
  <2>1. item \in Item /\ "COMPLETED" \in EventType
    BY <1>2 DEF Item, EventType
  <2>2. QED
    BY <2>1, <1>2, <1>3, <1>4, <1>6, Happened
<1>8. InTime(v)
  BY <1>4, <1>7 DEF InTime, Running
<1>9. PICK n \in Nat : n = Len(made[p])
  BY <1>3
<1>10. PICK m2 : m2 = Append(made[p], v)
  OBVIOUS
<1>11. /\ m2 \in Seq(PlaybackEvent) /\ Len(m2) = n + 1
       /\ \A e \in 1..n : e \in 1..Len(m2) /\ m2[e] = made[p][e]
       /\ m2[n + 1] = v
  BY <1>3, <1>9, <1>10, OneMore
<1>12. PICK s2 : s2 = stored[p] \union {n + 1}
  OBVIOUS
<1>13. stored[p] \subseteq 1..n /\ device[p].rejected \subseteq 1..n
  BY <1>3, <1>9, PlayerShapes
<1>14. s2 \subseteq 1..Len(m2) /\ s2 \in SUBSET Nat
  <2>1. \A x \in s2 : x \in 1..Len(m2)
    BY <1>11, <1>12, <1>13
  <2>2. QED
    BY <2>1
<1>15. /\ made' \in [Player -> Seq(PlaybackEvent)] /\ made'[p] = m2
       /\ stored' \in [Player -> SUBSET Nat] /\ stored'[p] = s2
       /\ \A r \in Player : r # p => made'[r] = made[r] /\ stored'[r] = stored[r]
  <2>1. stored' = [stored EXCEPT ![p] = s2]
    BY <1>2, <1>9, <1>12
  <2>2. made' = [made EXCEPT ![p] = m2]
    BY <1>7, <1>10
  <2>3. QED
    BY <2>1, <2>2, <1>3, <1>11, <1>14 DEF Shapes
<1>16. /\ \A e \in 1..Len(m2) : EventSound(p, m2[e])'
       /\ \A e, x \in stored[p] : Alike(m2[e], m2[x]) /\ m2[e].type = "COMPLETED" => e = x
       /\ \A e \in stored[p] : InTime(m2[e])
       /\ p \in passed => \A e \in late[p] : InTime(m2[e])
       /\ Refused(Area(p), m2, device[p].rejected)
  <2>1. PICK a : a = Area(p)
    OBVIOUS
  <2>2. Refused(a, m2, device[p].rejected)
    BY <2>1, <1>3, <1>6, <1>7, <1>10, MoreFacts
  <2>3. QED
    BY <2>1, <2>2, <1>3, <1>6, <1>7, <1>10, MoreFacts
<1>17. \A e \in stored[p] : ~Alike(m2[e], v)
  <2>1. \A e \in stored[p] : m2[e] = made[p][e]
    BY <1>11, <1>13
  <2>2. QED
    BY <2>1, <1>4, <1>7 DEF Alike, Settled, EventsOf
<1>18. \A e, x \in s2 : Alike(m2[e], m2[x]) /\ m2[e].type = "COMPLETED" => e = x
  BY <1>11, <1>12, <1>16, <1>17 DEF Alike
<1>19. \A e \in s2 : InTime(m2[e])
  BY <1>8, <1>11, <1>12, <1>16
<1>20. Typed(m2, device[p], s2, late[p])
  <2>1. /\ late[p] \subseteq 1..n /\ device[p].queue \subseteq 1..n
        /\ \A i \in 1..Len(device[p].drain) : device[p].drain[i] \subseteq 1..n
        /\ device[p].stage # "idle" <=> device[p].drain # <<>>
    BY <1>3, <1>9, PlayerShapes
  <2>2. \A x \in 1..n : x \in 1..Len(m2)
    BY <1>11
  <2>3. \A i \in 1..Len(device[p].drain) : device[p].drain[i] \subseteq 1..Len(m2)
    BY <2>1, <2>2
  <2>4. s2 \union late[p] \union device[p].queue \union device[p].rejected \subseteq 1..Len(m2)
    BY <2>1, <2>2, <1>13, <1>14
  <2>5. QED
    BY <2>1, <2>3, <2>4 DEF Typed
<1>21. Facts(p)'
  <2>1. AreasSound /\ areas' = areas
    BY <1>2 DEF IInv
  <2>2. \A q \in Player : Area(q)' = Area(q)
    BY <2>1, <1>5, AreasStay
  <2>3. device'[p] = device[p] /\ late'[p] = late[p] /\ passed' = passed /\ Area(p)' = Area(p)
    BY <1>2, <1>3, <2>2
  <2>4. QED
    BY <2>3, <1>15, <1>16, <1>18, <1>19, <1>20 DEF Facts
<1>22. Shapes'
  BY <1>2, <1>3, <1>5, <1>15 DEF Shapes, NoneStarts
<1>23. \A r \in Player : StoredSound(r)'
  <2> TAKE r \in Player
  <2>1. CASE r = p
    <3>1. \A e \in s2 : \A o \in Override : m2[e].item = o => p \in o.targets
      BY <1>14, <1>16 DEF EventSound
    <3>2. QED
      BY <2>1, <3>1, <1>15, <1>18 DEF StoredSound
  <2>2. CASE r # p
    <3>1. Facts(r) /\ stored[r] \subseteq 1..Len(made[r])
      BY PlayerShapes DEF IInv
    <3>2. QED
      BY <2>2, <3>1, <1>15 DEF StoredSound, Facts, EventSound
  <2>3. QED
    BY <2>1, <2>2
<1>24. \A r \in Player : stored[r] \subseteq stored'[r]
  BY <1>12, <1>15
<1>25. \A r \in Player : \A e \in stored[r] : made'[r][e] = made[r][e]
  BY <1>11, <1>13, <1>15
<1>26. \A r \in Player : \A e \in stored'[r] \ stored[r] : \A o \in Override :
         made'[r][e].item = o /\ made'[r][e].type = "COMPLETED" => o \in {item}
  <2> TAKE r \in Player
  <2> TAKE e \in stored'[r] \ stored[r]
  <2>1. r = p /\ e = n + 1
    BY <1>12, <1>15
  <2>2. QED
    BY <2>1, <1>7, <1>11, <1>15
<1>27. CompletedIsDelivered'
  <2>1. PICK completed \in SUBSET Override : completed = {item}
    BY <1>2
  <2>2. \A o \in completed : Known(o)
    BY <2>1, <1>4
  <2>3. QED
    BY <2>1, <2>2, <1>2, <1>3, <1>23, <1>24, <1>25, <1>26, Settles
<1>28. \A r \in Player : r # p =>
         /\ made'[r] = made[r] /\ device'[r] = device[r]
         /\ stored'[r] = stored[r] /\ late'[r] = late[r] /\ (r \in passed' <=> r \in passed)
  BY <1>2, <1>15
<1>29. QED
  BY <1>2, <1>5, <1>6, <1>21, <1>22, <1>27, <1>28, OnePlayer DEF IInv

LEMMA InitSound ==
    ASSUME Init
    PROVE  IInv
<1>1. Shapes
  <2>1. <<>> \in Seq(PlaybackEvent) /\ <<>> \in Seq((SUBSET Nat) \ {{}})
    OBVIOUS
  <2>2. PICK none \in Seq((SUBSET Nat) \ {{}}) : none = <<>>
    BY <2>1
  <2>3. PICK d : d = [manifest |-> None, playing |-> None, played |-> {}, queue |-> {},
                      rejected |-> {}, drain |-> none, stage |-> "idle"]
    OBVIOUS
  <2>4. d \in DeviceState
    BY <2>3 DEF DeviceState
  <2>5. device = [p \in Player |-> d]
    BY <2>2, <2>3 DEF Init
  <2>6. device \in [Player -> DeviceState]
    BY <2>4, <2>5
  <2>7. faults \in 0..MaxFaults
    BY ParametersAssumption DEF Init
  <2>8. made \in [Player -> Seq(PlaybackEvent)] /\ override \in [Override -> OverrideRow \union {Absent}]
    BY <2>1 DEF Init
  <2>9. QED
    BY <2>6, <2>7, <2>8 DEF Init, Shapes
<1>2. \A o \in Override : ~Known(o)
  BY DEF Init, Known
<1>3. OneOverridePerArea /\ CompletedIsDelivered
  BY <1>2 DEF OneOverridePerArea, CompletedIsDelivered
<1>4. ASSUME NEW p \in Player
      PROVE  /\ made[p] = <<>> /\ Len(made[p]) = 0 /\ 1..Len(made[p]) = {}
             /\ stored[p] = {} /\ late[p] = {}
             /\ device[p].queue = {} /\ device[p].rejected = {} /\ device[p].drain = <<>>
             /\ Len(device[p].drain) = 0
             /\ device[p].stage = "idle" /\ device[p].played = {}
             /\ device[p].manifest = None /\ device[p].playing = None
  BY DEF Init
<1>5. ASSUME NEW p \in Player PROVE Facts(p)
  <2>1. passed = {}
    BY DEF Init
  <2>2. QED
    BY <1>4, <2>1 DEF Facts, Typed, Refused
<1>6. ASSUME NEW p \in Player PROVE Page(p)
  <2>1. History(made[p]) /\ NoRepeat(made[p])
    BY <1>4 DEF History, NoRepeat
  <2>2. Playlist(made[p], device[p])
    BY <1>4 DEF Playlist
  <2>3. Obeyed(p)
    BY <1>4, ItemTypes DEF Obeyed
  <2>4. InOrder(made[p], device[p].queue, device[p].rejected, device[p].drain, stored[p], late[p])
    BY <1>4 DEF InOrder, Convex, Below
  <2>5. Kept(made[p], device[p].queue, device[p].rejected, stored[p])
    BY <1>4 DEF Kept
  <2>6. Checked(Area(p), made[p], device[p].drain, device[p].stage)
    BY <1>4 DEF Checked
  <2>7. QED
    BY <2>1, <2>2, <2>3, <2>4, <2>5, <2>6 DEF Page
<1>7. AreasSound
  <2>1. \A c \in Channel : <<c>> \in Seq(Channel \union {None}) /\ Len(<<c>>) = 1
    OBVIOUS
  <2>2. assigned \in [Player -> Seq(Channel \union {None})] /\ \A p \in Player : Len(assigned[p]) = 1
    BY <2>1 DEF Init
  <2>3. /\ intent \in [Player -> [Item -> Nat]] /\ aged \in [Player -> Nat]
        /\ \A p \in Player : intent[p][Normal] = 1
    BY DEF Init, Item
  <2>4. ASSUME NEW p \in Player PROVE intent[p][Normal] \in 1..Len(assigned[p])
    <3>1. Len(assigned[p]) = 1 /\ intent[p][Normal] = 1
      BY <2>2, <2>3
    <3>2. QED
      BY <3>1
  <2>5. QED
    BY <1>2, <2>2, <2>3, <2>4 DEF AreasSound
<1>8. QED
  BY <1>1, <1>3, <1>5, <1>6, <1>7 DEF IInv, Init

LEMMA NextKeeps ==
    ASSUME IInv, [Next]_vars
    PROVE  IInv' /\ OverridesStay
<1>0. Shapes
  BY DEF IInv
<1>1. ASSUME NEW o \in Override, Start(o) PROVE IInv' /\ OverridesStay
  BY <1>1, StartKeeps
<1>2. ASSUME NEW o \in Override, Clear(o) \/ WindowCloses(o) PROVE IInv' /\ OverridesStay
  BY <1>0, <1>2, ClearKeeps, WindowClosesKeeps, NoneStartsStay
<1>3. ASSUME NEW p \in Prompt, PlayAtOnce(p) PROVE IInv' /\ OverridesStay
  BY <1>0, <1>3, PlayAtOnceKeeps, NoneStartsStay
<1>4. ASSUME NEW p \in Player \ Prompt,
             \/ Fetch(p) \/ StartItem(p) \/ EndItem(p, "COMPLETED") \/ EndItem(p, "FAILED")
             \/ StartFlush(p) \/ ReadLater(p) \/ AcceptPart(p) \/ RejectPart(p)
             \/ RequestFails(p) \/ Reload(p) \/ ReadLate(p) \/ ServeLate(p) \/ Ages(p)
      PROVE  IInv' /\ OverridesStay
  <2>1. CASE Fetch(p)
    BY <2>1, <1>0, FetchKeeps, NoneStartsStay
  <2>2. CASE StartItem(p)
    BY <2>2, <1>0, StartItemKeeps, NoneStartsStay
  <2>3. CASE EndItem(p, "COMPLETED") \/ EndItem(p, "FAILED")
    <3>1. "COMPLETED" \in Ends /\ "FAILED" \in Ends
      BY DEF Ends
    <3>2. QED
      BY <2>3, <3>1, <1>0, EndItemKeeps, NoneStartsStay
  <2>4. CASE StartFlush(p)
    BY <2>4, <1>0, StartFlushKeeps, NoneStartsStay
  <2>5. CASE AcceptPart(p)
    BY <2>5, <1>0, AcceptPartKeeps, NoneStartsStay
  <2>6. CASE RejectPart(p)
    BY <2>6, <1>0, RejectPartKeeps, NoneStartsStay
  <2>7. CASE ServeLate(p)
    BY <2>7, <1>0, ServeLateKeeps, NoneStartsStay
  <2>8. CASE RequestFails(p)
    BY <2>8, <1>0, RequestFailsKeeps, NoneStartsStay
  <2>9. CASE Reload(p)
    BY <2>9, <1>0, ReloadKeeps, NoneStartsStay
  <2>10. CASE ReadLater(p)
    BY <2>10, <1>0, ReadLaterKeeps, NoneStartsStay
  <2>11. CASE ReadLate(p)
    BY <2>11, <1>0, ReadLateKeeps, NoneStartsStay
  <2>12. CASE Ages(p)
    BY <2>12, <1>0, AgesKeeps, NoneStartsStay
  <2>13. QED
    BY <1>4, <2>1, <2>2, <2>3, <2>4, <2>5, <2>6, <2>7, <2>8, <2>9, <2>10, <2>11, <2>12
<1>5. ASSUME NEW p \in Player, Reassign(p) PROVE IInv' /\ OverridesStay
  BY <1>0, <1>5, ReassignKeeps, NoneStartsStay
<1>6. CASE UNCHANGED vars
  <2>1. UNCHANGED <<override, stored, made, device, late, passed, areas, faults>>
    BY <1>6 DEF vars
  <2>2. NoneStarts
    BY <1>0, <2>1, UnchangedStarts
  <2>3. QED
    BY <1>0, <2>1, <2>2, NoneStartsOnly, NoneStartsStay
<1>7. QED
  BY <1>1, <1>2, <1>3, <1>4, <1>5, <1>6 DEF Next

(* What ties the queue to the events, the parts still to be sent and what  *)
(* the server has stored holds in every reachable state.                   *)
THEOREM EvidenceInvAlways == Spec => []IInv
<1>1. Init => IInv
  BY InitSound
<1>2. IInv /\ [Next]_vars => IInv'
  BY NextKeeps
<1>3. QED
  BY <1>1, <1>2, PTL DEF Spec

(* No area ever has two overrides to obey, and an override counts as       *)
(* completed exactly when every player it targets has proved its play,     *)
(* with whatever overrides, players and faults.                            *)
THEOREM OverridesAlwaysSound == Spec => []OverridesSound
<1>1. IInv => OverridesSound
  <2> SUFFICES ASSUME IInv PROVE TypeOK
    BY DEF IInv, OverridesSound
  <2>1. ASSUME NEW p \in Player
        PROVE  /\ stored[p] \union late[p] \union device[p].queue \union device[p].rejected
                    \subseteq DOMAIN made[p]
               /\ \A i \in DOMAIN device[p].drain : device[p].drain[i] \subseteq DOMAIN made[p]
               /\ device[p].stage # "idle" <=> device[p].drain # <<>>
    <3>1. DOMAIN made[p] = 1..Len(made[p]) /\ DOMAIN device[p].drain = 1..Len(device[p].drain)
      BY DEF IInv, Shapes, DeviceState
    <3>2. QED
      BY <3>1 DEF IInv, Facts, Typed
  <2>2. ASSUME NEW p \in Player, NEW i \in Item, i = Normal \/ (Known(i) /\ p \in i.targets)
        PROVE  intent[p][i] \in DOMAIN assigned[p]
    <3>1. DOMAIN assigned[p] = 1..Len(assigned[p])
      BY DEF IInv, AreasSound
    <3>2. QED
      BY <2>2, <3>1 DEF IInv, AreasSound, Item
  <2>3. Shapes /\ AreasSound /\ passed \subseteq Player \ Prompt
    BY DEF IInv
  <2>4. QED
    BY <2>1, <2>2, <2>3 DEF TypeOK, Shapes, AreasSound
<1>2. QED
  BY <1>1, EvidenceInvAlways, PTL

(* What counts as played was played while the override stood.              *)
THEOREM EvidenceAlwaysInTime == Spec => []EvidenceInTime
<1>1. IInv => EvidenceInTime
  BY DEF IInv, Facts, InTime, EvidenceInTime
<1>2. QED
  BY <1>1, EvidenceInvAlways, PTL

(* What leaves a device's queue is stored, refused on its own or has       *)
(* overflowed, whatever is lost, repeated or late.                         *)
THEOREM NothingEverLost == Spec => []NothingLost
<1>1. IInv => NothingLost
  <2> SUFFICES ASSUME IInv, NEW p \in Player \ Prompt, NEW e \in 1..Len(made[p])
               PROVE  \/ e \in stored[p] \union device[p].queue \union device[p].rejected
                      \/ Overflowed(p, e) \/ StartMissing(p, e)
    BY DEF NothingLost
  <2>1. Kept(made[p], device[p].queue, device[p].rejected, stored[p])
    BY DEF IInv, Page
  <2>2. QED
    BY <2>1 DEF Kept, Late, StartLate, Overflowed, StartMissing
<1>2. QED
  BY <1>1, EvidenceInvAlways, PTL

(* The proof of a complete play of an override that stood is refused for   *)
(* good only when it is a month late or the area got another channel.      *)
THEOREM TrueProofAlwaysKept == Spec => []TrueProofKept
<1>1. IInv => TrueProofKept
  <2> SUFFICES ASSUME IInv, NEW p \in Player, NEW e \in device[p].rejected,
                      made[p][e].item \in Override, made[p][e].type = "COMPLETED"
               PROVE  \/ made[p][e].overdue \/ made[p][e].ended
                      \/ e <= aged[p] \/ intent[p][made[p][e].item] < Len(assigned[p])
    BY DEF TrueProofKept
  <2>1. Lapsed(Area(p), e, made[p][e])
    BY DEF IInv, Facts, Refused
  <2>2. QED
    BY <2>1 DEF Lapsed, Area
<1>2. QED
  BY <1>1, EvidenceInvAlways, PTL

(* The way an override has ended is final.                                 *)
THEOREM EndedAlwaysFinal == Spec => EndedIsFinal
<1>1. IInv /\ [Next]_vars =>
        [\A o \in Override : Known(o) /\ ~Active(o) => override'[o].status = override[o].status]_vars
  BY NextKeeps DEF OverridesStay, Stays
<1>2. QED
  BY <1>1, EvidenceInvAlways, PTL DEF Spec, EndedIsFinal

-----------------------------------------------------------------------------
(* The events of a queue and of the parts of a batch.                      *)
Pending(q, w) == q \union Sent(w)

LEMMA UnansweredPending ==
    ASSUME NEW d \in DeviceState
    PROVE  Unanswered(d) = Pending(d.queue, d.drain)
BY DEF DeviceState, Unanswered, Pending, Sent

LEMMA PendingType ==
    ASSUME NEW n \in Nat, NEW q \in SUBSET (1..n), NEW w \in Seq((SUBSET Nat) \ {{}}),
           \A i \in 1..Len(w) : w[i] \subseteq 1..n
    PROVE  /\ Pending(q, w) \in SUBSET (1..n) /\ Sent(w) \in SUBSET Pending(q, w)
           /\ IsFiniteSet(Pending(q, w)) /\ Cardinality(Pending(q, w)) \in Nat
<1>1. \A x \in Sent(w) : x \in 1..n
  BY DEF Sent
<1>2. Pending(q, w) \in SUBSET (1..n) /\ Sent(w) \in SUBSET Pending(q, w)
  BY <1>1 DEF Pending
<1>3. QED
  BY <1>2, FinitePositions

(* No part is empty, and no event is in two of them. *)
LEMMA PartsCounted ==
    ASSUME NEW n \in Nat, NEW q \in SUBSET (1..n), NEW w \in Seq((SUBSET Nat) \ {{}}),
           \A i \in 1..Len(w) : w[i] \subseteq 1..n,
           \A i, j \in 1..Len(w) : i < j => Below(w[i], w[j])
    PROVE  Len(w) <= Cardinality(Pending(q, w))
<1>1. PICK f : f = [i \in 1..Len(w) |-> CHOOSE x \in w[i] : TRUE]
  OBVIOUS
<1>2. PICK U : U = Pending(q, w)
  OBVIOUS
<1>3. \A i \in 1..Len(w) : f[i] \in w[i] /\ f[i] \in Nat /\ f[i] \in U
  <2> TAKE i \in 1..Len(w)
  <2>1. w[i] \in (SUBSET Nat) \ {{}}
    OBVIOUS
  <2>2. f[i] \in w[i]
    BY <1>1, <2>1
  <2>3. QED
    BY <1>2, <2>1, <2>2 DEF Pending, Sent
<1>4. \A i, j \in 1..Len(w) : f[i] = f[j] => i = j
  <2> SUFFICES ASSUME NEW i \in 1..Len(w), NEW j \in 1..Len(w), f[i] = f[j], i < j PROVE FALSE
    OBVIOUS
  <2>1. f[i] < f[j]
    BY <1>3 DEF Below
  <2>2. QED
    BY <1>3, <2>1
<1>5. f \in Injection(1..Len(w), U)
  BY <1>1, <1>3, <1>4 DEF Injection, IsInjective
<1>6. IsFiniteSet(U)
  BY <1>2, PendingType
<1>7. Cardinality(1..Len(w)) = Len(w)
  <2>1. PICK k \in Nat : k = Len(w)
    OBVIOUS
  <2>2. Cardinality(1..k) = k
    BY FS_Interval
  <2>3. QED
    BY <2>1, <2>2
<1>8. Cardinality(1..Len(w)) <= Cardinality(U)
  BY <1>5, <1>6, FS_Injection
<1>9. QED
  BY <1>2, <1>7, <1>8

(* What Send sends of a queue and the parts that are left. *)
Sending(q, w) == IF w = <<>> /\ q # {} THEN <<FirstOf(q, BatchSize)>> ELSE w

LEMMA SendingType ==
    ASSUME NEW n \in Nat, NEW q \in SUBSET (1..n), NEW w \in Seq((SUBSET Nat) \ {{}})
    PROVE  /\ Sending(q, w) \in Seq((SUBSET Nat) \ {{}}) /\ Len(Sending(q, w)) >= Len(w)
           /\ \A x \in Sent(Sending(q, w)) : x \in q \union Sent(w)
<1>1. CASE w = <<>> /\ q # {}
  <2>1. PICK a : a = FirstOf(q, BatchSize)
    OBVIOUS
  <2>2. BatchSize > 0 /\ BatchSize \in Nat
    BY ParametersAssumption
  <2>3. a \subseteq q /\ a # {}
    BY <1>1, <2>1, <2>2, FirstOfType
  <2>4. \A x \in a : x \in Nat
    BY <2>3
  <2>5. a \in (SUBSET Nat) \ {{}}
    BY <2>3, <2>4
  <2>6. Sending(q, w) = <<a>>
    BY <1>1, <2>1 DEF Sending
  <2>7. Sent(<<a>>) = a
    BY DEF Sent
  <2>8. <<a>> \in Seq((SUBSET Nat) \ {{}}) /\ Len(<<a>>) >= Len(w)
    BY <1>1, <2>5
  <2>9. QED
    BY <2>3, <2>6, <2>7, <2>8
<1>2. CASE ~(w = <<>> /\ q # {})
  <2>1. Sending(q, w) = w
    BY <1>2 DEF Sending
  <2>2. Len(w) >= Len(w)
    OBVIOUS
  <2>3. QED
    BY <2>1, <2>2
<1>3. QED
  BY <1>1, <1>2

(* Every answer that takes the events of a part leaves less to do, even if *)
(* the next batch is one part more.                                        *)
LEMMA AnsweredLess ==
    ASSUME NEW n \in Nat, NEW q \in SUBSET (1..n), NEW w \in Seq((SUBSET Nat) \ {{}}), w # <<>>,
           \A i \in 1..Len(w) : w[i] \subseteq 1..n,
           \A i, j \in 1..Len(w) : i < j => Below(w[i], w[j]),
           NEW q2, q2 = q \ Head(w), NEW next, next = Sending(q2, Tail(w))
    PROVE  2 * Cardinality(Pending(q2, next)) - Len(next) < 2 * Cardinality(Pending(q, w)) - Len(w)
<1>1. PICK w1 : w1 = Tail(w)
  OBVIOUS
<1>2. Head(w) = w[1] /\ Head(w) # {} /\ Len(w) \in Nat \ {0} /\ 1 \in 1..Len(w)
  OBVIOUS
<1>3. /\ w1 \in Seq((SUBSET Nat) \ {{}}) /\ Len(w1) = Len(w) - 1
      /\ \A i \in 1..Len(w1) : i + 1 \in 1..Len(w) /\ w1[i] = w[i + 1]
  BY <1>1
<1>4. \A x \in Sent(w1) : x \in Sent(w) /\ x \notin Head(w)
  <2> TAKE x \in Sent(w1)
  <2>1. PICK i \in 1..Len(w1) : x \in w1[i]
    BY DEF Sent
  <2>2. x \in w[i + 1] /\ i + 1 \in 1..Len(w) /\ 1 < i + 1
    BY <1>3, <2>1
  <2>3. Below(w[1], w[i + 1])
    BY <1>2, <2>2
  <2>4. x \in Nat
    BY <2>2
  <2>5. ~(x < x)
    BY <2>4
  <2>6. QED
    BY <1>2, <2>2, <2>3, <2>5 DEF Below, Sent
<1>5. q2 \in SUBSET (1..n)
  OBVIOUS
<1>6. /\ next \in Seq((SUBSET Nat) \ {{}}) /\ Len(next) >= Len(w1)
      /\ \A x \in Sent(next) : x \in q2 \union Sent(w1)
  BY <1>1, <1>3, <1>5, SendingType
<1>7. Len(next) \in Nat /\ Len(next) >= Len(w) - 1
  BY <1>3, <1>6
<1>8. PICK U, V : U = Pending(q, w) /\ V = Pending(q2, next)
  OBVIOUS
<1>9. PICK c \in Head(w) : TRUE
  BY <1>2
<1>10. c \in U /\ V \in SUBSET (U \ {c})
  <2>1. c \in U
    BY <1>2, <1>8 DEF Pending, Sent
  <2>2. ASSUME NEW x \in V PROVE x \in U \ {c}
    <3>1. x \in q2 \/ x \in Sent(w1)
      BY <1>6, <1>8 DEF Pending
    <3>2. QED
      BY <3>1, <1>4, <1>8, <1>9 DEF Pending
  <2>3. QED
    BY <2>1, <2>2
<1>11. IsFiniteSet(U) /\ Cardinality(U) \in Nat
  BY <1>8, PendingType
<1>12. IsFiniteSet(U \ {c}) /\ Cardinality(U \ {c}) = Cardinality(U) - 1
  BY <1>10, <1>11, FS_RemoveElement
<1>13. IsFiniteSet(V) /\ Cardinality(V) <= Cardinality(U) - 1
  BY <1>10, <1>12, FS_Subset
<1>14. Cardinality(V) \in Nat
  BY <1>13, FS_CardinalityType
<1>15. PICK a, b, k, l : a = Cardinality(U) /\ b = Cardinality(V) /\ k = Len(w) /\ l = Len(next)
  OBVIOUS
<1>16. a \in Nat /\ b \in Nat /\ k \in Nat /\ l \in Nat /\ b <= a - 1 /\ l >= k - 1
  BY <1>2, <1>7, <1>11, <1>13, <1>14, <1>15
<1>17. 2 * b - l < 2 * a - k
  BY <1>16
<1>18. QED
  BY <1>8, <1>15, <1>17

(* What sending makes of the page's queue and parts. *)
LEMMA SendDrains ==
    ASSUME Shapes, NEW p \in Player, NEW d \in DeviceState, NEW parts, Send(p, d, parts)
    PROVE  device'[p].queue = d.queue /\ device'[p].drain = Sending(d.queue, parts)
BY DEF Send, Sending, Shapes, DeviceState

LEMMA PartAnswered ==
    ASSUME IInv, IInv', NEW p \in Player \ Prompt, device[p].drain # <<>>, NEW d \in DeviceState,
           d.queue = device[p].queue \ Head(device[p].drain),
           Send(p, d, Tail(device[p].drain))
    PROVE  Work(device'[p]) < Work(device[p])
<1>1. PICK q, w : q = device[p].queue /\ w = device[p].drain
  OBVIOUS
<1>2. PICK n \in Nat : n = Len(made[p])
  BY PlayerShapes DEF IInv
<1>3. /\ Shapes /\ Page(p) /\ device[p] \in DeviceState
      /\ q \in SUBSET (1..n) /\ w \in Seq((SUBSET Nat) \ {{}}) /\ w # <<>>
      /\ \A i \in 1..Len(w) : w[i] \subseteq 1..n
  BY <1>1, <1>2, PlayerShapes DEF IInv
<1>4. \A i, j \in 1..Len(w) : i < j => Below(w[i], w[j])
  BY <1>1, <1>3 DEF Page, InOrder
<1>5. PICK q2, next : q2 = q \ Head(w) /\ next = Sending(q2, Tail(w))
  OBVIOUS
<1>6. device'[p].queue = q2 /\ device'[p].drain = next
  <2>1. PICK parts : parts = Tail(w)
    OBVIOUS
  <2>2. d.queue = q2 /\ Send(p, d, parts)
    BY <1>1, <1>5, <2>1
  <2>3. device'[p].queue = d.queue /\ device'[p].drain = Sending(d.queue, parts)
    BY <2>2, <1>3, SendDrains
  <2>4. QED
    BY <1>5, <2>1, <2>2, <2>3
<1>7. device'[p] \in DeviceState
  BY DEF IInv, Shapes
<1>8. Work(device'[p]) = 2 * Cardinality(Pending(q2, next)) - Len(next)
  BY <1>6, <1>7, UnansweredPending DEF Work
<1>9. Work(device[p]) = 2 * Cardinality(Pending(q, w)) - Len(w)
  BY <1>1, <1>3, UnansweredPending DEF Work
<1>10. 2 * Cardinality(Pending(q2, next)) - Len(next) < 2 * Cardinality(Pending(q, w)) - Len(w)
  BY <1>3, <1>4, <1>5, AnsweredLess
<1>11. QED
  BY <1>8, <1>9, <1>10

LEMMA AcceptAdvances ==
    ASSUME IInv, IInv', NEW p \in Player \ Prompt, AcceptPart(p)
    PROVE  Work(device'[p]) < Work(device[p])
<1>1. PICK d, part : d = device[p] /\ part = Head(d.drain)
  OBVIOUS
<1>2. d \in DeviceState /\ d.drain # <<>>
  BY <1>1, PlayerShapes DEF IInv, AcceptPart
<1>3. PICK d1 : d1 = [d EXCEPT !.queue = Removed(@, part)]
  OBVIOUS
<1>4. d1 \in DeviceState /\ d1.queue = d.queue \ part
  BY <1>2, <1>3 DEF Removed, DeviceState
<1>5. Send(p, d1, Tail(d.drain))
  BY <1>1, <1>3 DEF AcceptPart
<1>6. QED
  BY <1>1, <1>2, <1>4, <1>5, PartAnswered

(* A part cut in two costs one answer more, and this was one of them. *)
LEMMA RejectAdvances ==
    ASSUME IInv, IInv', NEW p \in Player \ Prompt, RejectPart(p)
    PROVE  Work(device'[p]) < Work(device[p])
<1>1. PICK d, part : d = device[p] /\ part = Head(d.drain)
  OBVIOUS
<1>2. PICK m : m = made[p]
  OBVIOUS
<1>3. /\ Shapes /\ Page(p) /\ d \in DeviceState /\ m \in Seq(PlaybackEvent)
      /\ d.drain \in Seq((SUBSET Nat) \ {{}}) /\ d.drain # <<>>
      /\ d.queue \subseteq 1..Len(m) /\ Len(m) \in Nat
      /\ \A i \in 1..Len(d.drain) : d.drain[i] \subseteq 1..Len(m)
  BY <1>1, <1>2, PlayerShapes DEF IInv, RejectPart
<1>4. part \in SUBSET Nat /\ part \subseteq 1..Len(m)
  BY <1>1, <1>3
<1>5. CASE Send(p, [d EXCEPT !.queue = @ \ part, !.rejected = @ \union part], Tail(d.drain))
  <2>1. PICK d1 : d1 = [d EXCEPT !.queue = @ \ part, !.rejected = @ \union part]
    OBVIOUS
  <2>2. d1 \in DeviceState /\ d1.queue = d.queue \ part
    BY <2>1, <1>3, <1>4 DEF DeviceState
  <2>3. QED
    BY <1>1, <1>3, <1>5, <2>1, <2>2, PartAnswered
<1>6. CASE Cardinality(part) > 1 /\ Send(p, d, Halves(part) \o Tail(d.drain))
  <2>1. PICK parts : parts = Halves(part) \o Tail(d.drain)
    OBVIOUS
  <2>2. InOrder(m, d.queue, d.rejected, d.drain, stored[p], late[p])
    BY <1>1, <1>2, <1>3 DEF Page
  <2>3. parts # <<>> /\ Sent(parts) = Sent(d.drain) /\ Len(parts) = Len(d.drain) + 1
    BY <1>1, <1>3, <1>4, <1>6, <2>1, <2>2, HeadCut
  <2>4. device'[p].queue = d.queue /\ device'[p].drain = parts
    <3>1. Sending(d.queue, parts) = parts
      BY <2>3 DEF Sending
    <3>2. Send(p, d, parts)
      BY <1>6, <2>1
    <3>3. QED
      BY <3>1, <3>2, <1>3, SendDrains
  <2>5. device'[p] \in DeviceState
    BY DEF IInv, Shapes
  <2>6. Pending(d.queue, parts) = Pending(d.queue, d.drain)
    BY <2>3 DEF Pending
  <2>7. Work(device'[p]) = 2 * Cardinality(Pending(d.queue, d.drain)) - (Len(d.drain) + 1)
    BY <2>3, <2>4, <2>5, <2>6, UnansweredPending DEF Work
  <2>8. Work(d) = 2 * Cardinality(Pending(d.queue, d.drain)) - Len(d.drain)
    BY <1>3, UnansweredPending DEF Work
  <2>9. Cardinality(Pending(d.queue, d.drain)) \in Nat /\ Len(d.drain) \in Nat
    <3>1. PICK n, q, w : n = Len(m) /\ q = d.queue /\ w = d.drain
      OBVIOUS
    <3>2. /\ n \in Nat /\ q \in SUBSET (1..n) /\ w \in Seq((SUBSET Nat) \ {{}})
          /\ \A i \in 1..Len(w) : w[i] \subseteq 1..n
      BY <3>1, <1>3
    <3>3. Cardinality(Pending(q, w)) \in Nat
      BY <3>2, PendingType
    <3>4. QED
      BY <3>1, <3>2, <3>3
  <2>10. QED
    BY <1>1, <2>7, <2>8, <2>9
<1>7. QED
  BY <1>1, <1>5, <1>6 DEF RejectPart

LEMMA WorkCounts ==
    ASSUME NEW n \in Nat, NEW d \in DeviceState, d.queue \in SUBSET (1..n),
           \A i \in 1..Len(d.drain) : d.drain[i] \subseteq 1..n,
           \A i, j \in 1..Len(d.drain) : i < j => Below(d.drain[i], d.drain[j])
    PROVE  Work(d) \in Nat
<1>1. PICK q, w : q = d.queue /\ w = d.drain
  OBVIOUS
<1>2. /\ q \in SUBSET (1..n) /\ w \in Seq((SUBSET Nat) \ {{}}) /\ Len(w) \in Nat
      /\ \A i \in 1..Len(w) : w[i] \subseteq 1..n
      /\ \A i, j \in 1..Len(w) : i < j => Below(w[i], w[j])
  BY <1>1 DEF DeviceState
<1>3. Len(w) <= Cardinality(Pending(q, w))
  BY <1>2, PartsCounted
<1>4. Cardinality(Pending(q, w)) \in Nat
  BY <1>2, PendingType
<1>5. Work(d) = 2 * Cardinality(Pending(q, w)) - Len(w)
  BY <1>1, UnansweredPending DEF Work
<1>6. QED
  BY <1>2, <1>3, <1>4, <1>5

(* While a page waits for an answer, what it notes is only queued. *)
LEMMA NoteWaits ==
    ASSUME Shapes, NEW p \in Player, NEW r \in Player, device[p].stage # "idle",
           NEW item, NEW type, NEW d \in DeviceState, d.stage = device[r].stage,
           d.drain = device[r].drain, Note(r, item, type, d)
    PROVE  device'[p].drain = device[p].drain
<1>1. CASE r = p
  <2>1. device' = [device EXCEPT ![p] = [d EXCEPT !.queue = Queued(@, Len(made[p]) + 1)]]
    BY <1>1 DEF Note
  <2>2. QED
    BY <1>1, <2>1 DEF Shapes, DeviceState
<1>2. CASE r # p
  <2>1. device'[p] = device[p]
    BY <1>2 DEF Note, Send, Shapes
  <2>2. QED
    BY <2>1
<1>3. QED
  BY <1>1, <1>2

(* Only an answer or a fault changes what a waiting page has to send. *)
LEMMA OnlyAnswers ==
    ASSUME IInv, Next, NEW p \in Player, device[p].stage # "idle",
           device'[p].drain # device[p].drain, faults' = faults
    PROVE  p \in Player \ Prompt /\ (AcceptPart(p) \/ RejectPart(p))
<1>0. Shapes /\ OneOverridePerArea
  BY DEF IInv
<1>1. ASSUME NEW o \in Override, Start(o) \/ Clear(o) \/ WindowCloses(o) PROVE FALSE
  BY <1>1 DEF Start, Clear, WindowCloses
<1>2. ASSUME NEW r \in Prompt, PlayAtOnce(r) PROVE FALSE
  BY <1>2 DEF PlayAtOnce
<1>3. ASSUME NEW r \in Player \ Prompt, Fetch(r) PROVE FALSE
  <2>1. PICK item, x, d : /\ item = Programme(r)
                          /\ x = IF item \in device[r].played THEN None ELSE item
                          /\ d = [device[r] EXCEPT !.manifest = x]
    OBVIOUS
  <2>a. x \in Item \union {None}
    BY <1>0, <2>1, ProgrammeStands
  <2>b. d \in DeviceState /\ d.drain = device[r].drain /\ d.stage = device[r].stage
    <3>1. PICK c \in DeviceState : c = device[r]
      BY <1>0 DEF Shapes
    <3>2. d = [c EXCEPT !.manifest = x]
      BY <2>1, <3>1
    <3>3. QED
      BY <2>a, <3>1, <3>2 DEF DeviceState
  <2>2. CASE Planned(r, item) /\ device' = [device EXCEPT ![r] = d]
    BY <1>0, <2>b, <2>2 DEF Shapes
  <2>3. CASE Note(r, d.playing, "INTERRUPTED", [d EXCEPT !.playing = None, !.played = @ \ {d.playing}])
    <3>1. PICK c : c = [d EXCEPT !.playing = None, !.played = @ \ {d.playing}]
      OBVIOUS
    <3>2. c \in DeviceState /\ c.drain = device[r].drain /\ c.stage = device[r].stage
      BY <2>b, <3>1 DEF DeviceState
    <3>3. QED
      BY <1>0, <2>3, <3>1, <3>2, NoteWaits
  <2>4. QED
    BY <1>3, <2>1, <2>2, <2>3 DEF Fetch
<1>4. ASSUME NEW r \in Player \ Prompt, StartItem(r) PROVE FALSE
  <2>1. PICK d : d = [device[r] EXCEPT !.playing = device[r].manifest]
    OBVIOUS
  <2>2. d \in DeviceState /\ d.drain = device[r].drain /\ d.stage = device[r].stage
    <3>1. PICK c \in DeviceState : c = device[r]
      BY <1>0 DEF Shapes
    <3>2. d = [c EXCEPT !.playing = c.manifest]
      BY <2>1, <3>1
    <3>3. QED
      BY <3>1, <3>2 DEF DeviceState
  <2>3. Note(r, device[r].manifest, "STARTED", d)
    BY <1>4, <2>1 DEF StartItem
  <2>4. QED
    BY <1>0, <2>2, <2>3, NoteWaits
<1>5. ASSUME NEW r \in Player \ Prompt, NEW type, EndItem(r, type) PROVE FALSE
  <2>1. PICK d : d = [device[r] EXCEPT !.manifest = None, !.playing = None,
                                       !.played = @ \union {device[r].playing}]
    OBVIOUS
  <2>2. d \in DeviceState /\ d.drain = device[r].drain /\ d.stage = device[r].stage
    <3>1. PICK c \in DeviceState : c = device[r]
      BY <1>0 DEF Shapes
    <3>2. c.playing \in Item /\ c.played \subseteq Item
      BY <1>5, <3>1 DEF EndItem, DeviceState
    <3>3. PICK set \in SUBSET Item : set = c.played \union {c.playing}
      BY <3>2
    <3>4. d = [c EXCEPT !.manifest = None, !.playing = None, !.played = set]
      BY <2>1, <3>1, <3>3
    <3>5. QED
      BY <3>1, <3>3, <3>4 DEF DeviceState
  <2>3. Note(r, device[r].playing, type, d)
    BY <1>5, <2>1 DEF EndItem
  <2>4. QED
    BY <1>0, <2>2, <2>3, NoteWaits
<1>6. ASSUME NEW r \in Player \ Prompt, StartFlush(r) PROVE FALSE
  <2>1. r # p
    BY <1>6 DEF StartFlush
  <2>2. device'[p] = device[p]
    BY <1>0, <1>6, <2>1 DEF StartFlush, Send, Shapes
  <2>3. QED
    BY <2>2
<1>7. ASSUME NEW r \in Player \ Prompt, RequestFails(r) \/ Reload(r) PROVE FALSE
  BY <1>0, <1>7 DEF RequestFails, Reload, Fault, Shapes
<1>8. ASSUME NEW r \in Player \ Prompt, ReadLate(r) \/ ServeLate(r) \/ Ages(r) PROVE FALSE
  BY <1>8 DEF ReadLate, ServeLate, Ages
<1>9. ASSUME NEW r \in Player \ Prompt, AcceptPart(r) \/ RejectPart(r), r # p PROVE FALSE
  <2>1. device'[p] = device[p]
    BY <1>0, <1>9 DEF AcceptPart, RejectPart, Send, Shapes
  <2>2. QED
    BY <2>1
<1>10. ASSUME NEW r \in Player, Reassign(r) PROVE FALSE
  BY <1>10 DEF Reassign
<1>11. ASSUME NEW r \in Player \ Prompt, ReadLater(r) PROVE FALSE
  <2>1. CASE r # p
    BY <1>0, <1>11, <2>1 DEF ReadLater, Send, Shapes
  <2>2. CASE r = p
    <3>1. PICK d, parts : d = device[p] /\ parts = device[p].drain
      OBVIOUS
    <3>2. d \in DeviceState /\ parts # <<>> /\ Send(p, d, parts)
      BY <1>11, <2>2, <3>1, PlayerShapes DEF ReadLater, IInv
    <3>3. device'[p].drain = Sending(d.queue, parts)
      BY <1>0, <3>2, SendDrains
    <3>4. QED
      BY <3>1, <3>2, <3>3 DEF Sending
  <2>3. QED
    BY <2>1, <2>2
<1>12. QED
  BY <1>1, <1>2, <1>3, <1>4, <1>5, <1>6, <1>7, <1>8, <1>9, <1>10, <1>11 DEF Next

(* Every answer, a refusal too, brings a device closer to an empty queue:  *)
(* refusals cannot go on for ever, whatever the server refuses.            *)
THEOREM AnswersAlwaysAdvance == Spec => AnswersAdvance
<1> DEFINE Advances(p) ==
        device[p].stage # "idle" /\ device'[p].drain # device[p].drain /\ faults' = faults
            => Work(device'[p]) \in 0..(Work(device[p]) - 1)
<1>1. IInv /\ [Next]_vars => [\A p \in Player : Advances(p)]_vars
  <2> SUFFICES ASSUME IInv, Next, NEW p \in Player, device[p].stage # "idle",
                      device'[p].drain # device[p].drain, faults' = faults
               PROVE  Work(device'[p]) \in 0..(Work(device[p]) - 1)
    OBVIOUS
  <2>1. p \in Player \ Prompt /\ (AcceptPart(p) \/ RejectPart(p))
    BY OnlyAnswers
  <2>2. IInv'
    BY NextKeeps
  <2>3. Work(device'[p]) < Work(device[p])
    BY <2>1, <2>2, AcceptAdvances, RejectAdvances
  <2>4. Work(device[p]) \in Nat
    <3>1. PICK n \in Nat : n = Len(made[p])
      BY <2>1, PlayerShapes DEF IInv
    <3>2. PICK d \in DeviceState : d = device[p]
      BY DEF IInv, Shapes
    <3>3. /\ d.queue \in SUBSET (1..n)
          /\ \A i \in 1..Len(d.drain) : d.drain[i] \subseteq 1..n
      BY <3>1, <3>2 DEF IInv, Facts, Typed
    <3>4. \A i, j \in 1..Len(d.drain) : i < j => Below(d.drain[i], d.drain[j])
      BY <2>1, <3>2 DEF IInv, Page, InOrder
    <3>5. QED
      BY <3>2, <3>3, <3>4, WorkCounts
  <2>5. Work(device'[p]) \in Nat
    <3>1. PICK n \in Nat : n = Len(made'[p])
      BY <2>2 DEF IInv, Shapes
    <3>2. PICK d \in DeviceState : d = device'[p]
      BY <2>2 DEF IInv, Shapes
    <3>3. /\ d.queue \in SUBSET (1..n)
          /\ \A i \in 1..Len(d.drain) : d.drain[i] \subseteq 1..n
      BY <2>2, <3>1, <3>2 DEF IInv, Facts, Typed
    <3>4. \A i, j \in 1..Len(d.drain) : i < j => Below(d.drain[i], d.drain[j])
      BY <2>1, <2>2, <3>2 DEF IInv, Page, InOrder
    <3>5. QED
      BY <3>2, <3>3, <3>4, WorkCounts
  <2>6. QED
    BY <2>3, <2>4, <2>5
<1>2. QED
  BY <1>1, EvidenceInvAlways, PTL DEF Spec, AnswersAdvance

-----------------------------------------------------------------------------
(* PlayerHealth, of the same players.                                      *)
CONSTANTS Incident, Worker, Request, OfflineTicks, Escalation, MaxClock, MaxRequests
VARIABLES clock, player, incident, request, scan, begun

H == INSTANCE PlayerHealth

(* What requests and lists remember stays true of the rows they name. *)
SessionHasBeat == \A p \in Player : player[p].session => player[p].beat # None
Remembered(q) ==
    request[q] # None =>
        /\ (request[q].at = "recover" /\ request[q].found # None)
               => incident[request[q].found] # H!NoRow
        /\ (request[q].at = "review" /\ request[q].to = "ACKNOWLEDGED")
               => request[q].seen = "OPEN"
ListedExists ==
    \A w \in Worker, p \in Player :
        (scan[w][p] # None /\ scan[w][p].existing # None)
            => incident[scan[w][p].existing] # H!NoRow

HealthInv ==
    /\ H!TypeOK
    /\ SessionHasBeat
    /\ \A q \in Request : Remembered(q)
    /\ ListedExists
    /\ H!OneUnresolved

-----------------------------------------------------------------------------
(* Sets are counted the same way in the instance. *)
LEMMA SameCounting ==
    \A S : (H!IsFiniteSet(S) <=> IsFiniteSet(S)) /\ H!Cardinality(S) = Cardinality(S)
<1>1. \A S : H!IsFiniteSet(S) <=> IsFiniteSet(S)
  BY Zenon DEF H!IsFiniteSet, IsFiniteSet
<1>2. \A S : H!Cardinality(S) = Cardinality(S)
  BY Zenon DEF H!Cardinality, Cardinality
<1>3. QED
  BY <1>1, <1>2

LEMMA SeverityType ==
    ASSUME H!Configured
    PROVE  H!Top \in Nat /\ \A d \in Int : H!Severity(d) \in 0..H!Top
<1>1. H!Top \in Nat
  BY FS_CardinalityType, SameCounting DEF H!Configured, H!Top
<1>2. ASSUME NEW d \in Int PROVE H!Severity(d) \in 0..H!Top
  <2>1. {t \in Escalation : d >= t} \subseteq Escalation
    OBVIOUS
  <2>2. /\ IsFiniteSet({t \in Escalation : d >= t})
        /\ Cardinality({t \in Escalation : d >= t}) <= Cardinality(Escalation)
    BY <2>1, FS_Subset, SameCounting DEF H!Configured
  <2>3. Cardinality({t \in Escalation : d >= t}) \in Nat
    BY <2>2, FS_CardinalityType
  <2>4. QED
    BY <1>1, <2>2, <2>3, SameCounting DEF H!Severity, H!Top
<1>3. QED
  BY <1>1, <1>2

LEMMA RowIsNotNoRow == \A r \in H!IncidentRow : r # H!NoRow
BY DEF H!IncidentRow, H!NoRow, H!Unresolved


(* A row stays a row of its player: what is remembered of it stays true.   *)
RowsStay ==
    \A i \in Incident : incident[i] # H!NoRow =>
        incident'[i] # H!NoRow /\ incident'[i].player = incident[i].player
NoneUnsettled == \A i \in Incident : H!Unsettled(i)' => H!Unsettled(i)

LEMMA RowsKeepListed ==
    ASSUME H!TypeOK, ListedExists, RowsStay, UNCHANGED scan
    PROVE  ListedExists'
BY DEF H!TypeOK, ListedExists, RowsStay, H!Listed

LEMMA RowsKeepRemembered ==
    ASSUME H!TypeOK, RowsStay, NEW q \in Request, Remembered(q), request'[q] = request[q]
    PROVE  Remembered(q)'
<1>1. (request[q] # None /\ request[q].at = "recover" /\ request[q].found # None)
          => request[q].found \in Incident
  BY DEF H!TypeOK, H!Running
<1>2. QED
  BY <1>1 DEF Remembered, RowsStay

LEMMA OneUnresolvedStays ==
    ASSUME H!OneUnresolved, RowsStay, NoneUnsettled
    PROVE  H!OneUnresolved'
<1> SUFFICES ASSUME NEW i \in Incident, NEW j \in Incident, H!Unsettled(i)', H!Unsettled(j)',
                    incident'[i].player = incident'[j].player
             PROVE  i = j
  BY DEF H!OneUnresolved
<1>1. H!Unsettled(i) /\ H!Unsettled(j)
  BY DEF NoneUnsettled
<1>2. incident[i].player = incident[j].player
  BY <1>1 DEF RowsStay, H!Unsettled
<1>3. QED
  BY <1>1, <1>2 DEF H!OneUnresolved

(* Steps that change nothing but one request. *)
LEMMA RequestOnly ==
    ASSUME HealthInv, NEW q \in Request, NEW r \in H!Running \union {None},
           request' = [request EXCEPT ![q] = r],
           UNCHANGED <<clock, player, incident, scan>>, begun' \in 0..MaxRequests,
           Remembered(q)'
    PROVE  HealthInv'
<1>1. H!TypeOK' 
  BY DEF HealthInv, H!TypeOK
<1>2. RowsStay /\ NoneUnsettled
  BY DEF RowsStay, NoneUnsettled, H!Unsettled
<1>3. ASSUME NEW p \in Request PROVE Remembered(p)'
  <2>1. p # q => request'[p] = request[p]
    BY DEF HealthInv, H!TypeOK
  <2>2. QED
    BY <1>2, <2>1, RowsKeepRemembered DEF HealthInv
<1>4. QED
  BY <1>1, <1>2, <1>3, OneUnresolvedStays, RowsKeepListed DEF HealthInv, SessionHasBeat

(* Steps that change players or an incident in place, and end a request. *)
LEMMA RowsOnly ==
    ASSUME HealthInv, RowsStay, NoneUnsettled, UNCHANGED <<scan, begun>>,
           NEW q \in Request, request' = [request EXCEPT ![q] = None] \/ UNCHANGED request,
           clock' \in 0..MaxClock,
           player' \in [Player -> H!PlayerRow], SessionHasBeat',
           incident' \in [Incident -> H!IncidentRow \union {H!NoRow}]
    PROVE  HealthInv'
<1>1. H!TypeOK'
  BY DEF HealthInv, H!TypeOK
<1>2. ASSUME NEW p \in Request PROVE Remembered(p)'
  <2>1. request'[p] = request[p] \/ request'[p] = None
    BY DEF HealthInv, H!TypeOK
  <2>2. CASE request'[p] = None
    BY <2>2 DEF Remembered
  <2>3. CASE request'[p] = request[p]
    BY <2>3, RowsKeepRemembered DEF HealthInv
  <2>4. QED
    BY <2>1, <2>2, <2>3
<1>3. QED
  BY <1>1, <1>2, OneUnresolvedStays, RowsKeepListed DEF HealthInv

LEMMA FoundInPlace ==
    ASSUME H!TypeOK, NEW p \in Player, NEW i \in H!FirstOr(H!IncidentsOf(p))
    PROVE  i \in Incident \union {None} /\ (i # None => incident[i] # H!NoRow)
BY DEF H!FirstOr, H!IncidentsOf

LEMMA AliveType ==
    ASSUME H!TypeOK, NEW p \in Player, NEW now \in 0..MaxClock
    PROVE  /\ H!Alive(p, now) \in [Player -> H!PlayerRow]
           /\ \A v \in Player : H!Alive(p, now)[v].beat =
                IF v = p THEN now ELSE player[v].beat
           /\ \A v \in Player : H!Alive(p, now)[v].session = player[v].session
BY DEF H!TypeOK, H!Alive, H!PlayerRow

LEMMA AliveHasBeat ==
    ASSUME H!Configured, H!TypeOK, SessionHasBeat, NEW p \in Player, NEW now \in 0..MaxClock,
           player' = H!Alive(p, now)
    PROVE  player' \in [Player -> H!PlayerRow] /\ SessionHasBeat'
<1>1. now # None
  BY DEF H!Configured
<1>2. QED
  BY <1>1, AliveType DEF SessionHasBeat

(* A status or a severity is written to a row that exists. *)
LEMMA WrittenRow ==
    ASSUME H!TypeOK, NEW i \in Incident, incident[i] # H!NoRow
    PROVE  /\ \A status \in H!Unresolved \union {"RESOLVED"} :
                /\ [incident EXCEPT ![i].status = status] \in [Incident -> H!IncidentRow \union {H!NoRow}]
                /\ [incident EXCEPT ![i].status = status][i] # H!NoRow
                /\ [incident EXCEPT ![i].status = status][i].player = incident[i].player
                /\ [incident EXCEPT ![i].status = status][i].status = status
           /\ \A n \in 0..H!Top :
                /\ [incident EXCEPT ![i].severity = n] \in [Incident -> H!IncidentRow \union {H!NoRow}]
                /\ [incident EXCEPT ![i].severity = n][i] # H!NoRow
                /\ [incident EXCEPT ![i].severity = n][i].player = incident[i].player
                /\ [incident EXCEPT ![i].severity = n][i].status = incident[i].status
<1>1. incident[i] \in H!IncidentRow
  BY DEF H!TypeOK
<1>2. ASSUME NEW status \in H!Unresolved \union {"RESOLVED"}
      PROVE  [incident[i] EXCEPT !.status = status] \in H!IncidentRow
  BY <1>1 DEF H!IncidentRow
<1>3. ASSUME NEW n \in 0..H!Top
      PROVE  [incident[i] EXCEPT !.severity = n] \in H!IncidentRow
  BY <1>1 DEF H!IncidentRow
<1>4. QED
  BY <1>1, <1>2, <1>3, RowIsNotNoRow DEF H!TypeOK, H!IncidentRow

LEMMA RequestStep ==
    ASSUME H!Configured, HealthInv, NEW q \in Request,
           \/ \E p \in Player : H!HeartbeatBegin(q, p) \/ H!ProofBegin(q, p)
           \/ \E i \in Incident : H!ReviewBegin(q, i)
           \/ H!Heartbeat(q) \/ H!Recover(q) \/ H!Proof(q) \/ H!Review(q) \/ H!Abandon(q)
    PROVE  HealthInv'
<1>1. H!TypeOK /\ Remembered(q) /\ clock \in 0..MaxClock /\ begun \in 0..MaxRequests
  BY DEF HealthInv, H!TypeOK
<1>2. ASSUME NEW r \in H!Running, H!Start(q, r), r.at # "recover",
             r.at = "review" => (r.to = "ACKNOWLEDGED" => r.seen = "OPEN")
      PROVE  HealthInv'
  <2>1. /\ request' = [request EXCEPT ![q] = r] /\ begun' = begun + 1 /\ begun < MaxRequests
        /\ UNCHANGED <<clock, player, incident, scan>>
    BY <1>2 DEF H!Start
  <2>2. begun' \in 0..MaxRequests /\ request'[q] = r
    BY <1>1, <2>1 DEF H!Configured, H!TypeOK
  <2>3. Remembered(q)'
    BY <1>2, <2>2 DEF Remembered
  <2>4. QED
    BY <2>1, <2>2, <2>3, RequestOnly
<1>3. ASSUME NEW p \in Player, H!HeartbeatBegin(q, p) PROVE HealthInv'
  <2> DEFINE r == [at |-> "heartbeat", player |-> p, seen |-> player[p].beat]
  <2>1. player[p].beat \in 0..MaxClock
    BY <1>3 DEF H!HeartbeatBegin, H!Known, HealthInv, SessionHasBeat, H!TypeOK, H!PlayerRow
  <2>2. r \in H!Running /\ r.at = "heartbeat"
    BY <2>1 DEF H!Running
  <2>3. H!Start(q, r)
    BY <1>3 DEF H!HeartbeatBegin
  <2> HIDE DEF r
  <2>4. QED
    BY <1>2, <2>2, <2>3
<1>4. ASSUME NEW p \in Player, H!ProofBegin(q, p) PROVE HealthInv'
  <2> DEFINE r == [at |-> "proof", player |-> p, now |-> clock]
  <2>1. r \in H!Running /\ r.at = "proof"
    BY <1>1 DEF H!Running
  <2>2. H!Start(q, r)
    BY <1>4 DEF H!ProofBegin
  <2> HIDE DEF r
  <2>3. QED
    BY <1>2, <2>1, <2>2
<1>5. ASSUME NEW i \in Incident, H!ReviewBegin(q, i) PROVE HealthInv'
  <2>1. PICK to \in {"ACKNOWLEDGED", "RESOLVED"} :
          /\ to = "ACKNOWLEDGED" => incident[i].status = "OPEN"
          /\ H!Start(q, [at |-> "review", incident |-> i, seen |-> incident[i].status, to |-> to])
    BY <1>5 DEF H!ReviewBegin
  <2> DEFINE r == [at |-> "review", incident |-> i, seen |-> incident[i].status, to |-> to]
  <2>2. /\ r \in H!Running /\ r.at = "review"
        /\ r.to = "ACKNOWLEDGED" => r.seen = "OPEN"
    BY <1>5, <2>1 DEF H!ReviewBegin, H!Running
  <2>3. H!Start(q, r)
    BY <2>1
  <2> HIDE DEF r
  <2>4. QED
    BY <1>2, <2>2, <2>3
<1>6. CASE H!Heartbeat(q)
  <2>1. request[q] \in H!Running /\ request[q].at = "heartbeat" /\ request[q].player \in Player
    BY <1>1, <1>6 DEF H!Heartbeat, H!At, H!TypeOK, H!Running
  <2>2. PICK i \in H!FirstOr(H!IncidentsOf(request[q].player)) \union {None} :
          request' = [request EXCEPT ![q] =
              [at |-> "recover", player |-> request[q].player, now |-> clock, found |-> i]]
    BY <1>6 DEF H!Heartbeat
  <2>3. i \in Incident \union {None} /\ (i # None => incident[i] # H!NoRow)
    BY <1>1, <2>1, FoundInPlace
  <2> DEFINE r == [at |-> "recover", player |-> request[q].player, now |-> clock, found |-> i]
  <2>4. r \in H!Running /\ r.at = "recover" /\ r.found = i
    BY <1>1, <2>1, <2>3 DEF H!Running
  <2>5. request' = [request EXCEPT ![q] = r]
    BY <2>2
  <2> HIDE DEF r
  <2>6. request'[q] = r
    BY <1>1, <2>5 DEF H!TypeOK
  <2>7. UNCHANGED <<clock, player, incident, scan, begun>>
    BY <1>6 DEF H!Heartbeat
  <2>8. Remembered(q)'
    BY <2>3, <2>4, <2>6, <2>7 DEF Remembered
  <2>9. QED
    BY <1>1, <2>4, <2>5, <2>7, <2>8, RequestOnly
<1>7. CASE H!Recover(q)
  <2>1. /\ request[q] \in H!Running /\ request[q].at = "recover"
        /\ request[q].player \in Player /\ request[q].now \in 0..MaxClock
        /\ request[q].found \in Incident \union {None}
    BY <1>1, <1>7 DEF H!Recover, H!At, H!TypeOK, H!Running
  <2>2. player' \in [Player -> H!PlayerRow] /\ SessionHasBeat'
    BY <1>7, <2>1, AliveHasBeat DEF H!Recover, HealthInv
  <2>3. CASE request[q].found = None
    <3>1. UNCHANGED incident
      BY <1>7, <2>3 DEF H!Recover
    <3>2. RowsStay /\ NoneUnsettled
      BY <3>1 DEF RowsStay, NoneUnsettled, H!Unsettled
    <3>3. QED
      BY <1>1, <1>7, <2>2, <3>1, <3>2, RowsOnly DEF H!Recover, H!Leave, H!TypeOK
  <2>4. CASE request[q].found # None
    <3>1. incident' = [incident EXCEPT ![request[q].found].status = "RESOLVED"]
      BY <1>7, <2>4 DEF H!Recover
    <3>2. incident[request[q].found] # H!NoRow
      BY <1>1, <1>7, <2>1, <2>4 DEF Remembered, H!Recover, H!At
    <3>3. incident' \in [Incident -> H!IncidentRow \union {H!NoRow}] /\ RowsStay /\ NoneUnsettled
      <4>1. request[q].found \in Incident /\ "RESOLVED" \in H!Unresolved \union {"RESOLVED"}
        BY <2>1, <2>4
      <4>2. \A i \in Incident : i # request[q].found => incident'[i] = incident[i]
        BY <1>1, <3>1, <4>1 DEF H!TypeOK
      <4>3. /\ incident' \in [Incident -> H!IncidentRow \union {H!NoRow}]
            /\ incident'[request[q].found] # H!NoRow
            /\ incident'[request[q].found].player = incident[request[q].found].player
            /\ incident'[request[q].found].status = "RESOLVED"
        BY <1>1, <3>1, <3>2, <4>1, WrittenRow
      <4>4. QED
        BY <4>2, <4>3 DEF RowsStay, NoneUnsettled, H!Unsettled, H!Unresolved
    <3>4. QED
      BY <1>1, <1>7, <2>2, <3>3, RowsOnly DEF H!Recover, H!Leave, H!TypeOK
  <2>5. QED
    BY <2>3, <2>4
<1>8. CASE H!Proof(q)
  <2>1. request[q].player \in Player /\ request[q].now \in 0..MaxClock
    BY <1>1, <1>8 DEF H!Proof, H!At, H!TypeOK, H!Running
  <2>2. player' \in [Player -> H!PlayerRow] /\ SessionHasBeat'
    BY <1>8, <2>1, AliveHasBeat DEF H!Proof, HealthInv
  <2>3. RowsStay /\ NoneUnsettled
    BY <1>8 DEF H!Proof, RowsStay, NoneUnsettled, H!Unsettled
  <2>4. QED
    BY <1>1, <1>8, <2>2, <2>3, RowsOnly DEF H!Proof, H!Leave, H!TypeOK
<1>9. CASE H!Review(q)
  <2>1. /\ request[q].incident \in Incident /\ request[q].seen \in H!Unresolved
        /\ request[q].to \in {"ACKNOWLEDGED", "RESOLVED"}
    BY <1>1, <1>9 DEF H!Review, H!At, H!TypeOK, H!Running
  <2>2. incident' \in [Incident -> H!IncidentRow \union {H!NoRow}] /\ RowsStay /\ NoneUnsettled
    <3>1. CASE ~H!Reviewable(request[q].incident, request[q].seen)
      BY <1>1, <1>9, <3>1 DEF H!Review, RowsStay, NoneUnsettled, H!Unsettled, H!TypeOK
    <3>2. CASE H!Reviewable(request[q].incident, request[q].seen)
      <4>1. incident' = [incident EXCEPT ![request[q].incident].status = request[q].to]
        BY <1>9, <3>2 DEF H!Review
      <4>2. H!Unsettled(request[q].incident)
        BY <2>1, <3>2 DEF H!Reviewable, H!Unsettled, H!NoRow, H!Unresolved
      <4>3. request[q].to \in H!Unresolved \union {"RESOLVED"}
        BY <2>1 DEF H!Unresolved
      <4>4. \A i \in Incident : i # request[q].incident => incident'[i] = incident[i]
        BY <1>1, <2>1, <4>1 DEF H!TypeOK
      <4>5. /\ incident' \in [Incident -> H!IncidentRow \union {H!NoRow}]
            /\ incident'[request[q].incident] # H!NoRow
            /\ incident'[request[q].incident].player = incident[request[q].incident].player
        BY <1>1, <2>1, <4>1, <4>2, <4>3, WrittenRow DEF H!Unsettled
      <4>6. QED
        BY <4>2, <4>4, <4>5 DEF RowsStay, NoneUnsettled, H!Unsettled
    <3>3. QED
      BY <3>1, <3>2
  <2>3. UNCHANGED player /\ SessionHasBeat'
    BY <1>9 DEF H!Review, HealthInv, SessionHasBeat
  <2>4. QED
    BY <1>1, <1>9, <2>2, <2>3, RowsOnly DEF H!Review, H!Leave, H!TypeOK
<1>10. CASE H!Abandon(q)
  <2>1. request'[q] = None
    BY <1>1, <1>10 DEF H!Abandon, H!Leave, H!TypeOK
  <2>2. Remembered(q)'
    BY <2>1 DEF Remembered
  <2>3. QED
    BY <1>1, <1>10, <2>2, RequestOnly DEF H!Abandon, H!Leave
<1>11. QED
  BY <1>3, <1>4, <1>5, <1>6, <1>7, <1>8, <1>9, <1>10

-----------------------------------------------------------------------------
LEMMA ListStep ==
    ASSUME H!Configured, HealthInv, NEW w \in Worker, H!List(w)
    PROVE  HealthInv'
<1>1. H!TypeOK /\ clock \in 0..MaxClock
  BY DEF HealthInv, H!TypeOK
<1>2. PICK existing \in [Player -> Incident \union {None}] :
        /\ \A p \in Player : existing[p] \in H!FirstOr(H!IncidentsOf(p))
        /\ scan' = [scan EXCEPT ![w] = [p \in Player |->
              IF H!Missing(p)
              THEN [duration |-> clock - player[p].beat - OfflineTicks, existing |-> existing[p]]
              ELSE None]]
  BY DEF H!List
<1>3. ASSUME NEW p \in Player, H!Missing(p)
      PROVE  clock - player[p].beat - OfflineTicks \in 0..MaxClock
  <2>1. player[p].beat \in 0..MaxClock /\ clock - player[p].beat > OfflineTicks
    BY <1>1, <1>3 DEF H!Missing, H!OfflineSince, H!TypeOK, H!PlayerRow
  <2>2. QED
    BY <1>1, <2>1 DEF H!Configured
<1>4. ASSUME NEW p \in Player
      PROVE  /\ scan'[w][p] \in H!Listed \union {None}
             /\ scan'[w][p] # None /\ scan'[w][p].existing # None
                    => incident[scan'[w][p].existing] # H!NoRow
  <2>1. /\ existing[p] \in Incident \union {None}
        /\ existing[p] # None => incident[existing[p]] # H!NoRow
    BY <1>1, <1>2, FoundInPlace
  <2>2. scan'[w][p] =
            IF H!Missing(p)
            THEN [duration |-> clock - player[p].beat - OfflineTicks, existing |-> existing[p]]
            ELSE None
    BY <1>1, <1>2 DEF H!TypeOK
  <2>3. QED
    BY <1>3, <2>1, <2>2 DEF H!Listed
<1>5. scan' \in [Worker -> [Player -> H!Listed \union {None}]]
  <2>1. /\ \A v \in Worker : v # w => scan'[v] = scan[v]
        /\ scan'[w] = [p \in Player |-> scan'[w][p]]
        /\ scan' = [v \in Worker |-> scan'[v]]
    BY <1>1, <1>2 DEF H!TypeOK
  <2>2. scan'[w] \in [Player -> H!Listed \union {None}]
    BY <1>4, <2>1
  <2>3. QED
    BY <1>1, <2>1, <2>2 DEF H!TypeOK
<1>6. UNCHANGED <<clock, player, incident, request, begun>>
  BY DEF H!List
<1>7. ListedExists'
  <2>1. \A v \in Worker : v # w => scan'[v] = scan[v]
    BY <1>1, <1>2 DEF H!TypeOK
  <2>2. QED
    BY <1>4, <1>6, <2>1 DEF HealthInv, ListedExists
<1>8. QED
  BY <1>5, <1>6, <1>7 DEF HealthInv, H!TypeOK, SessionHasBeat, Remembered, H!OneUnresolved,
     H!Unsettled

LEMMA ScanFailsStep ==
    ASSUME HealthInv, NEW w \in Worker, H!ScanFails(w)
    PROVE  HealthInv'
<1>1. /\ scan' = [scan EXCEPT ![w] = [p \in Player |-> None]]
      /\ UNCHANGED <<clock, player, incident, request, begun>>
  BY DEF H!ScanFails
<1>2. scan' \in [Worker -> [Player -> H!Listed \union {None}]] /\ ListedExists'
  BY <1>1 DEF HealthInv, H!TypeOK, ListedExists
<1>3. QED
  BY <1>1, <1>2 DEF HealthInv, H!TypeOK, SessionHasBeat, Remembered, H!OneUnresolved,
     H!Unsettled

(* What an examination of a player may do to its incident. *)
LEMMA ExamineIncident ==
    ASSUME H!Configured, HealthInv, NEW w \in Worker, NEW p \in Player, H!Examine(w, p)
    PROVE  /\ incident' \in [Incident -> H!IncidentRow \union {H!NoRow}]
           /\ RowsStay
           /\ H!OneUnresolved'
           /\ \A i \in Incident : incident[i] # H!NoRow => incident'[i].status = incident[i].status
<1>1. H!TypeOK
  BY DEF HealthInv
<1> DEFINE l == scan[w][p]
<1>2. l \in H!Listed /\ l.existing \in Incident \union {None} /\ l.duration \in 0..MaxClock
  BY <1>1 DEF H!Examine, H!TypeOK, H!Listed
<1>3. H!Severity(l.duration) \in 0..H!Top
  BY <1>2, SeverityType DEF H!Configured
<1>4. CASE l.existing # None
  <2>1. incident' = [incident EXCEPT ![l.existing].severity = H!Severity(l.duration)]
    BY <1>4 DEF H!Examine
  <2>2. l.existing \in Incident /\ incident[l.existing] # H!NoRow
    BY <1>2, <1>4 DEF HealthInv, ListedExists, H!Examine
  <2>3. /\ incident' \in [Incident -> H!IncidentRow \union {H!NoRow}]
        /\ incident'[l.existing] # H!NoRow
        /\ incident'[l.existing].player = incident[l.existing].player
        /\ incident'[l.existing].status = incident[l.existing].status
    BY <1>1, <1>3, <2>1, <2>2, WrittenRow
  <2>4. \A i \in Incident : i # l.existing => incident'[i] = incident[i]
    BY <1>1, <2>1, <2>2 DEF H!TypeOK
  <2>5. RowsStay /\ NoneUnsettled
    BY <2>2, <2>3, <2>4 DEF RowsStay, NoneUnsettled, H!Unsettled
  <2>6. QED
    BY <2>3, <2>4, <2>5, OneUnresolvedStays DEF HealthInv
<1>5. CASE l.existing = None /\ ~H!Openable(p)
  <2>1. UNCHANGED incident
    BY <1>5 DEF H!Examine
  <2>2. QED
    BY <1>1, <2>1 DEF HealthInv, H!TypeOK, RowsStay, H!OneUnresolved, H!Unsettled
<1>6. CASE l.existing = None /\ H!Openable(p)
  <2> DEFINE new == [player |-> p, status |-> "OPEN", severity |-> H!Severity(l.duration)]
  <2>1. PICK i \in Incident :
          incident[i] = H!NoRow /\ incident' = [incident EXCEPT ![i] = new]
    BY <1>6 DEF H!Examine
  <2>2. new \in H!IncidentRow /\ new.player = p
    BY <1>3 DEF H!IncidentRow, H!Unresolved
  <2> HIDE DEF new
  <2>3. incident'[i] = new /\ \A j \in Incident : j # i => incident'[j] = incident[j]
    BY <1>1, <2>1 DEF H!TypeOK
  <2>4. incident' \in [Incident -> H!IncidentRow \union {H!NoRow}]
    BY <1>1, <2>1, <2>2 DEF H!TypeOK
  <2>5. \A j \in Incident : H!Unsettled(j) => incident[j].player # p
    BY <1>6 DEF H!Openable, H!IncidentsOf, H!Unsettled
  <2>6. H!OneUnresolved'
    BY <2>2, <2>3, <2>5 DEF HealthInv, H!OneUnresolved, H!Unsettled
  <2>7. QED
    BY <2>1, <2>3, <2>4, <2>6 DEF RowsStay
<1>7. QED
  BY <1>4, <1>5, <1>6

LEMMA ExamineStep ==
    ASSUME H!Configured, HealthInv, NEW w \in Worker, NEW p \in Player, H!Examine(w, p)
    PROVE  HealthInv'
<1>1. /\ scan' = [scan EXCEPT ![w][p] = None]
      /\ UNCHANGED <<clock, player, request, begun>>
  BY DEF H!Examine
<1>2. /\ incident' \in [Incident -> H!IncidentRow \union {H!NoRow}] /\ RowsStay
      /\ H!OneUnresolved'
  BY ExamineIncident
<1>3. H!TypeOK'
  BY <1>1, <1>2 DEF HealthInv, H!TypeOK
<1>4. \A q \in Request : Remembered(q)'
  BY <1>1, <1>2, RowsKeepRemembered DEF HealthInv
<1>5. ListedExists'
  <2>1. \A v \in Worker, u \in Player : scan'[v][u] = scan[v][u] \/ scan'[v][u] = None
    BY <1>1 DEF HealthInv, H!TypeOK
  <2>2. \A v \in Worker, u \in Player :
          (scan[v][u] # None /\ scan[v][u].existing # None) => scan[v][u].existing \in Incident
    BY DEF HealthInv, H!TypeOK, H!Listed
  <2>3. QED
    BY <1>2, <2>1, <2>2 DEF HealthInv, ListedExists, RowsStay
<1>6. QED
  BY <1>1, <1>2, <1>3, <1>4, <1>5 DEF HealthInv, SessionHasBeat

LEMMA EnrolRetireStep ==
    ASSUME H!Configured, HealthInv, NEW p \in Player, H!Enrol(p) \/ H!Retire(p)
    PROVE  HealthInv'
<1>1. player \in [Player -> H!PlayerRow] /\ clock \in 0..MaxClock /\ clock # None
  BY DEF H!Configured, HealthInv, H!TypeOK
<1>2. player' \in [Player -> H!PlayerRow] /\ SessionHasBeat'
  <2>1. CASE H!Enrol(p)
    BY <1>1, <2>1 DEF HealthInv, H!Enrol, H!PlayerRow, SessionHasBeat
  <2>2. CASE H!Retire(p)
    <3> DEFINE row == [player[p] EXCEPT !.enabled = FALSE, !.session = FALSE]
    <3>1. row \in H!PlayerRow /\ ~row.session
      BY <1>1 DEF H!PlayerRow
    <3>2. player' = [player EXCEPT ![p] = row]
      BY <2>2 DEF H!Retire
    <3> HIDE DEF row
    <3>3. QED
      BY <1>1, <3>1, <3>2 DEF HealthInv, SessionHasBeat
  <2>3. QED
    BY <2>1, <2>2
<1>3. UNCHANGED <<clock, incident, request, scan, begun>>
  BY DEF H!Enrol, H!Retire
<1>4. QED
  BY <1>2, <1>3 DEF HealthInv, H!TypeOK, Remembered, ListedExists, H!OneUnresolved, H!Unsettled

LEMMA InitHealthSound ==
    ASSUME H!Configured
    PROVE  H!Init => HealthInv
BY DEF H!Configured, H!Init, HealthInv, H!TypeOK, H!PlayerRow, SessionHasBeat, Remembered,
   ListedExists, H!OneUnresolved, H!Unsettled

LEMMA NextHealthKeeps ==
    ASSUME H!Configured
    PROVE  HealthInv /\ [H!Next]_(H!vars) => HealthInv'
<1> SUFFICES ASSUME HealthInv, [H!Next]_(H!vars) PROVE HealthInv'
  OBVIOUS
<1>1. ASSUME H!Tick \/ UNCHANGED H!vars PROVE HealthInv'
  <2>1. clock' \in 0..MaxClock /\ UNCHANGED <<player, incident, request, scan, begun>>
    BY <1>1 DEF H!Configured, HealthInv, H!TypeOK, H!Tick, H!vars
  <2>2. QED
    BY <2>1 DEF HealthInv, H!TypeOK, SessionHasBeat, Remembered, ListedExists, H!OneUnresolved,
       H!Unsettled
<1>2. QED
  BY <1>1, RequestStep, ListStep, ScanFailsStep, ExamineStep, EnrolRetireStep DEF H!Next

(* What requests and lists remember is never contradicted by the rows. *)
THEOREM HealthInvAlways ==
    ASSUME H!Configured
    PROVE  H!Spec => []HealthInv
<1>1. QED
  BY InitHealthSound, NextHealthKeeps, PTL DEF H!Spec

(* Every reachable state is well typed. *)
THEOREM HealthTypeCorrect ==
    ASSUME H!Configured
    PROVE  H!Spec => []H!TypeOK
<1>1. HealthInv => H!TypeOK
  BY DEF HealthInv
<1>2. QED
  BY <1>1, HealthInvAlways, PTL

(* A player never has two unresolved incidents, however many workers scan  *)
(* at the same time.                                                       *)
THEOREM OneUnresolvedIncident ==
    ASSUME H!Configured
    PROVE  H!Spec => []H!OneUnresolved
<1>1. HealthInv => H!OneUnresolved
  BY DEF HealthInv
<1>2. QED
  BY <1>1, HealthInvAlways, PTL

StatusAdvances ==
    \A i \in Incident : (incident[i] # H!NoRow /\ incident'[i].status # incident[i].status) =>
        \/ incident[i].status = "OPEN"
        \/ incident[i].status = "ACKNOWLEDGED" /\ incident'[i].status = "RESOLVED"

LEMMA AdvanceStep ==
    ASSUME H!Configured, HealthInv, [H!Next]_(H!vars)
    PROVE  StatusAdvances
<1>1. H!TypeOK
  BY DEF HealthInv
<1>2. CASE UNCHANGED incident
  BY <1>2 DEF StatusAdvances
<1>3. ASSUME NEW q \in Request, H!Recover(q) PROVE StatusAdvances
  <2>1. CASE request[q].found = None
    BY <1>2, <1>3, <2>1 DEF H!Recover
  <2>2. CASE request[q].found # None
    <3>1. incident' = [incident EXCEPT ![request[q].found].status = "RESOLVED"]
      BY <1>3, <2>2 DEF H!Recover
    <3>2. request[q].found \in Incident /\ "RESOLVED" \in H!Unresolved \union {"RESOLVED"}
      BY <1>1, <1>3, <2>2 DEF H!Recover, H!At, H!TypeOK, H!Running
    <3>3. incident[request[q].found] # H!NoRow
      BY <1>3, <2>2 DEF HealthInv, Remembered, H!Recover, H!At
    <3>4. incident'[request[q].found].status = "RESOLVED"
      BY <1>1, <3>1, <3>2, <3>3, WrittenRow
    <3>5. incident[request[q].found].status \in H!Unresolved \union {"RESOLVED"}
      BY <1>1, <3>2, <3>3 DEF H!TypeOK, H!IncidentRow
    <3>6. \A i \in Incident : i # request[q].found => incident'[i] = incident[i]
      BY <1>1, <3>1, <3>2 DEF H!TypeOK
    <3>7. QED
      BY <3>4, <3>5, <3>6 DEF StatusAdvances, H!Unresolved
  <2>3. QED
    BY <2>1, <2>2
<1>4. ASSUME NEW q \in Request, H!Review(q) PROVE StatusAdvances
  <2>1. CASE ~H!Reviewable(request[q].incident, request[q].seen)
    BY <1>2, <1>4, <2>1 DEF H!Review
  <2>2. CASE H!Reviewable(request[q].incident, request[q].seen)
    <3>1. /\ request[q].incident \in Incident /\ request[q].seen \in H!Unresolved
          /\ request[q].to \in {"ACKNOWLEDGED", "RESOLVED"}
          /\ request[q].to = "ACKNOWLEDGED" => request[q].seen = "OPEN"
      BY <1>1, <1>4 DEF H!Review, H!At, H!TypeOK, H!Running, HealthInv, Remembered
    <3>2. incident' = [incident EXCEPT ![request[q].incident].status = request[q].to]
      BY <1>4, <2>2 DEF H!Review
    <3>3. \A i \in Incident : i # request[q].incident => incident'[i] = incident[i]
      BY <1>1, <3>1, <3>2 DEF H!TypeOK
    <3>4. /\ incident[request[q].incident].status = request[q].seen
          /\ incident[request[q].incident] # H!NoRow
      BY <2>2, <3>1 DEF H!Reviewable, H!NoRow, H!Unresolved
    <3>5. incident'[request[q].incident].status = request[q].to
      BY <1>1, <3>1, <3>2, <3>4, WrittenRow DEF H!Unresolved
    <3>6. QED
      BY <3>1, <3>3, <3>4, <3>5 DEF StatusAdvances, H!Unresolved
  <2>3. QED
    BY <2>1, <2>2
<1>5. ASSUME NEW w \in Worker, NEW p \in Player, H!Examine(w, p) PROVE StatusAdvances
  BY <1>5, ExamineIncident DEF StatusAdvances
<1>6. QED
  BY <1>2, <1>3, <1>4, <1>5 DEF H!Next, H!vars, H!Enrol, H!Retire, H!HeartbeatBegin,
     H!ProofBegin, H!ReviewBegin, H!Start, H!Heartbeat, H!Proof, H!Abandon, H!List, H!ScanFails,
     H!Tick

(* An incident is acknowledged once and resolved for good, whatever        *)
(* reviews, recoveries and scans overlap.                                  *)
THEOREM IncidentsOnlyAdvance ==
    ASSUME H!Configured
    PROVE  H!Spec => H!IncidentAdvances
<1>1. HealthInv /\ [H!Next]_(H!vars) => [StatusAdvances]_(H!vars)
  BY AdvanceStep
<1>2. QED
  BY <1>1, HealthInvAlways, PTL DEF H!Spec, H!IncidentAdvances, StatusAdvances
=============================================================================
