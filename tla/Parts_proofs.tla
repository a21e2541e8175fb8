---------------------------- MODULE Parts_proofs ----------------------------
(***************************************************************************)
(* Proofs about four parts that share no state.                            *)
(*                                                                         *)
(* DecodeCheckpoints: types, the bound admission relies on, the order take *)
(* ensures, that asking twice changes nothing, and where the checkpoints   *)
(* lie: how far apart, and that decode_positions says where.               *)
(*                                                                         *)
(* ComputePass: well encoded passes compute what their order says,         *)
(* whatever they encode and however the GPU and the host interleave.       *)
(*                                                                         *)
(* ThinkingControl: the scan and the reading by lines agree on every text, *)
(* so what is inserted lands where it may.                                 *)
(*                                                                         *)
(* PrefixMatch and LineagePair: what tokens and image spans tell of two    *)
(* lineages is what their cells would.                                     *)
(***************************************************************************)
EXTENDS DecodeCheckpoints, ComputePass, ThinkingControl, LineagePair, FiniteSums,
        FiniteSetTheorems, SequenceTheorems, WellFoundedInduction, TLAPS

------------------------------------------------------------------------------
(* DecodeCheckpoints.                                                      *)

(* Multiplication the SMT solver is not asked to find by itself. *)
LEMMA Monotone ==
    ASSUME NEW k \in Nat, NEW a \in Nat, NEW b \in Nat, a =< b
    PROVE  k * a =< k * b
  OBVIOUS

LEMMA Doubled ==
    ASSUME NEW k \in Nat, NEW a \in Nat
    PROVE  k * (2 * a) = (2 * k) * a
  OBVIOUS

LEMMA OneMore ==
    ASSUME NEW k \in Nat, NEW a \in Nat
    PROVE  (k + 1) * a = k * a + a
  OBVIOUS

(* A set of natural numbers has a least element.                           *)
LEMMA LeastNat ==
    ASSUME NEW T, T \subseteq Nat, T # {}
    PROVE  \E x \in T : \A y \in T : x =< y
  <1> DEFINE R == {ss \in Nat \X Nat : ss[1] < ss[2]}
  <1>1. IsWellFoundedOn(R, Nat)
    BY NatLessThanWellFounded DEF OpToRel
  <1> HIDE DEF R
  <1>2. PICK x \in T : \A y \in T : ~ (<<y, x>> \in R)
    BY <1>1, WFMin
  <1>3. \A y \in T : ~ (y < x)
    BY <1>2 DEF R
  <1> QED BY <1>3

LEMMA ElementsOf ==
    ASSUME NEW S, NEW T, NEW held \in Seq(S),
           \A k \in 1 .. Len(held) : held[k] \in T
    PROVE  held \in Seq(T)
  OBVIOUS

(* What a thinned list is. *)
LEMMA ThinFacts ==
    ASSUME NEW held \in Seq(Nat)
    PROVE  /\ thin(held) \in Seq(Nat)
           /\ Len(thin(held)) = Len(held) \div 2
           /\ Len(thin(held)) \in Nat
           /\ 2 * Len(thin(held)) =< Len(held)
           /\ \A k \in 1 .. Len(thin(held)) :
                2 * k \in 1 .. Len(held) /\ thin(held)[k] = held[2 * k]
  <1> DEFINE n == Len(held) \div 2
  <1>1. Len(held) \in Nat
    OBVIOUS
  <1>2. n \in Nat /\ 2 * n =< Len(held)
    BY <1>1
  <1>3. \A k \in 1 .. n : 2 * k \in 1 .. Len(held) /\ held[2 * k] \in Nat
    BY <1>1, <1>2
  <1>4. thin(held) \in Seq(Nat) /\ Len(thin(held)) = n
    BY <1>2, <1>3 DEF thin
  <1> QED
    BY <1>2, <1>3, <1>4 DEF thin

(* The k-th checkpoint held lies at least k strides behind the start: the  *)
(* spacing survives a thinning because the stride doubles with it.         *)
Spaced ==
    \A k \in 1 .. Len(snapshots) :
        start + k * stride =< snapshots[k] /\ snapshots[k] =< pos

Numbers ==
    /\ {interval, max, start, drafts, stride, pos} \subseteq Nat
    /\ snapshots \in Seq(Nat)
    /\ loop \in {"step", "ask", "rest"}

(* A checkpoint that is due may be taken. *)
DueHolds ==
    loop = "rest" => /\ stride # 0 /\ Len(snapshots) < max
                     /\ pos >= next_at(snapshots, stride)

IInv ==
    /\ Numbers
    /\ start =< pos /\ interval =< stride /\ (stride = 0 => interval = 0)
    /\ Len(snapshots) =< max
    /\ snapshots # <<>> => stride # 0
    /\ Spaced
    /\ DueHolds

LEMMA LastPosition ==
    ASSUME IInv
    PROVE  /\ last_pos(snapshots) \in Nat /\ last_pos(snapshots) =< pos
           /\ start + Len(snapshots) * stride =< last_pos(snapshots)
  <1> USE DEF IInv, Numbers
  <1>1. CASE snapshots = <<>>
    BY <1>1 DEF last_pos
  <1>2. CASE snapshots # <<>>
    <2>1. Len(snapshots) \in 1 .. Len(snapshots)
      BY <1>2
    <2> QED
      BY SMTT(30), <1>2, <2>1 DEF last_pos, Spaced
  <1> QED
    BY <1>1, <1>2

LEMMA InitIInv == Init => IInv
  BY DecodeAssumption DEF Init, IInv, Numbers, Spaced, DueHolds

(* What a held checkpoint knows, as a fact of one position. *)
LEMMA SpacedAt ==
    ASSUME Spaced, NEW k \in 1 .. Len(snapshots)
    PROVE  start + k * stride =< snapshots[k] /\ snapshots[k] =< pos
  BY DEF Spaced

LEMMA StepIInv ==
    ASSUME IInv, NEW n \in Nat, Step(n)
    PROVE  IInv'
  <1> USE DEF IInv, Numbers, Step
  <1>1. pos' \in Nat /\ pos =< pos' /\ loop' = "ask"
    OBVIOUS
  <1>2. UNCHANGED <<interval, max, start, drafts, stride, snapshots>>
    OBVIOUS
  <1>3. Numbers'
    BY <1>1, <1>2
  <1>4. Spaced'
    <2> HIDE DEF IInv, Numbers, Step
    <2> SUFFICES ASSUME NEW k \in 1 .. Len(snapshots)
                 PROVE  start + k * stride =< snapshots[k] /\ snapshots[k] =< pos'
      BY <1>2 DEF Spaced
    <2>1. snapshots[k] \in Nat /\ pos \in Nat
      BY DEF IInv, Numbers
    <2>2. start + k * stride =< snapshots[k] /\ snapshots[k] =< pos
      BY SpacedAt DEF IInv
    <2> QED
      BY <1>1, <2>1, <2>2
  <1> QED
    BY <1>1, <1>2, <1>3, <1>4 DEF DueHolds

LEMMA TakeIInv ==
    ASSUME IInv, take
    PROVE  IInv'
  <1> USE DEF IInv, Numbers
  <1>1. /\ last_pos(snapshots) \in Nat
        /\ start + Len(snapshots) * stride =< last_pos(snapshots)
    BY LastPosition
  <1>2. pos >= last_pos(snapshots) + stride
    BY DEF take, DueHolds, next_at
  <1>3. /\ snapshots' \in Seq(Nat) /\ Len(snapshots') = Len(snapshots) + 1
        /\ snapshots'[Len(snapshots) + 1] = pos
        /\ \A k \in 1 .. Len(snapshots) : snapshots'[k] = snapshots[k]
    BY DEF take
  <1>4. start + (Len(snapshots) + 1) * stride =< pos
    BY <1>1, <1>2, OneMore
  <1>5. Spaced'
    <2> SUFFICES ASSUME NEW k \in 1 .. Len(snapshots) + 1
                 PROVE  start + k * stride =< snapshots'[k] /\ snapshots'[k] =< pos
      BY <1>3 DEF Spaced, take
    <2>1. CASE k = Len(snapshots) + 1
      BY <2>1, <1>3, <1>4
    <2>2. CASE k \in 1 .. Len(snapshots)
      BY <2>2, <1>3 DEF Spaced
    <2> QED
      BY <2>1, <2>2
  <1>6. Len(snapshots') =< max'
    BY <1>3 DEF take, DueHolds
  <1> QED
    BY <1>3, <1>5, <1>6 DEF take, DueHolds

LEMMA DueIInv ==
    ASSUME IInv, due
    PROVE  IInv'
  <1> USE DEF IInv, Numbers
  <1>1. CASE MayBeDue /\ Full
    <2>1. stride # 0 /\ max # 0
      BY <1>1 DEF MayBeDue
    <2>2. snapshots' = thin(snapshots) /\ stride' = 2 * stride
      BY <1>1 DEF due
    <2>3. /\ snapshots' \in Seq(Nat) /\ Len(snapshots') = Len(snapshots) \div 2
          /\ \A k \in 1 .. Len(snapshots') :
               2 * k \in 1 .. Len(snapshots) /\ snapshots'[k] = snapshots[2 * k]
      BY <2>2, ThinFacts
    <2>4. Len(snapshots') < max'
      BY <2>1, <2>3 DEF due
    <2>5. Spaced'
      <3> SUFFICES ASSUME NEW k \in 1 .. Len(snapshots')
                   PROVE  start + k * (2 * stride) =< snapshots'[k] /\ snapshots'[k] =< pos
        BY <2>2 DEF Spaced, due
      <3>1. start + (2 * k) * stride =< snapshots[2 * k] /\ snapshots[2 * k] =< pos
        BY <2>3 DEF Spaced
      <3>2. k * (2 * stride) = (2 * k) * stride
        BY <2>3, Doubled
      <3> QED
        BY <2>3, <3>1, <3>2
    <2>6. DueHolds'
      <3>1. start' = start /\ pos' = pos /\ max' = max
        BY DEF due
      <3>2. loop' = "rest" => pos >= next_at(thin(snapshots), 2 * stride)
        BY <1>1 DEF due
      <3> QED
        BY <2>1, <2>2, <2>4, <3>1, <3>2 DEF DueHolds, next_at, last_pos
    <2>7. loop' \in {"step", "ask", "rest"}
      BY <1>1 DEF due
    <2>8. UNCHANGED <<interval, max, start, drafts, pos>>
      BY DEF due
    <2>9. stride' \in Nat /\ interval' =< stride' /\ stride' # 0
      BY <2>1, <2>2, <2>8
    <2>10. Numbers'
      BY <2>3, <2>7, <2>8, <2>9
    <2> QED
      BY <2>3, <2>4, <2>5, <2>6, <2>8, <2>9, <2>10
  <1>2. CASE ~(MayBeDue /\ Full)
    <2>1. UNCHANGED <<interval, max, start, drafts, stride, snapshots, pos>>
      BY <1>2 DEF due
    <2>2. loop' = "rest" => MayBeDue /\ ~Full
      BY <1>2 DEF due
    <2>3. loop' \in {"step", "ask", "rest"}
      BY <1>2 DEF due
    <2>4. DueHolds'
      BY <2>1, <2>2 DEF DueHolds, MayBeDue, Full, next_at, last_pos
    <2> QED
      BY <2>1, <2>3, <2>4 DEF Spaced
  <1> QED
    BY <1>1, <1>2

LEMMA NextIInv == IInv /\ [Next]_vars => IInv'
  <1> SUFFICES ASSUME IInv, [Next]_vars
               PROVE  IInv'
    OBVIOUS
  <1>1. ASSUME NEW n \in 1 .. drafts + 1, Step(n)
        PROVE  IInv'
    <2>1. n \in Nat
      BY <1>1 DEF IInv, Numbers
    <2> QED
      BY <1>1, <2>1, StepIInv
  <1>2. CASE due
    BY <1>2, DueIInv
  <1>3. CASE take
    BY <1>3, TakeIInv
  <1>4. CASE UNCHANGED vars
    BY <1>4 DEF vars, IInv, Numbers, Spaced, DueHolds, next_at, last_pos
  <1> QED
    BY <1>1, <1>2, <1>3, <1>4 DEF Next, Ended

LEMMA Invariance == Spec => []IInv
  BY InitIInv, NextIInv, PTL DEF Spec

(* Every checkpoint held is at a position the generation has fed. *)
THEOREM TypeCorrect == Spec => []DecodeTypeOK
  <1>1. IInv => DecodeTypeOK
    <2> SUFFICES ASSUME IInv
                 PROVE  DecodeTypeOK
      OBVIOUS
    <2>1. ASSUME NEW k \in 1 .. Len(snapshots)
          PROVE  snapshots[k] \in start + 1 .. pos
      <3>1. /\ stride \in Nat \ {0} /\ snapshots[k] \in Nat
            /\ k \in Nat \ {0} /\ {start, pos} \subseteq Nat
        BY DEF IInv, Numbers
      <3>2. start + k * stride =< snapshots[k] /\ snapshots[k] =< pos
        BY SpacedAt DEF IInv
      <3>3. k * 1 =< k * stride /\ k * stride \in Nat
        BY <3>1, Monotone
      <3> QED
        BY <3>1, <3>2, <3>3
    <2>2. snapshots \in Seq(Nat)
      BY DEF IInv, Numbers
    <2>3. snapshots \in Seq(start + 1 .. pos)
      BY <2>1, <2>2, ElementsOf
    <2> QED
      BY <2>3 DEF DecodeTypeOK, IInv, Numbers
  <1> QED
    BY <1>1, Invariance, PTL

(* decode_checkpoints_within is an upper bound at every moment of every    *)
(* generation, whatever its steps confirm.                                 *)
THEOREM AdmissionIsCovered == Spec => []AdmissionCovers
  <1>1. IInv => AdmissionCovers
    <2> SUFFICES ASSUME IInv
                 PROVE  AdmissionCovers
      OBVIOUS
    <2> USE DEF IInv, Numbers
    <2>1. start + Len(snapshots) * stride =< pos
      <3>1. Len(snapshots) * stride \in Nat
        OBVIOUS
      <3> QED
        BY <3>1, LastPosition
    <2>2. Len(snapshots) * interval =< Len(snapshots) * stride
      <3>1. Len(snapshots) \in Nat /\ interval \in Nat /\ stride \in Nat /\ interval =< stride
        OBVIOUS
      <3> QED
        BY <3>1, Monotone, Zenon
    <2> QED
      BY <2>1, <2>2 DEF AdmissionCovers
  <1> QED
    BY <1>1, Invariance, PTL

(* take never refuses a checkpoint: each lies behind the one before. *)
THEOREM TakesInOrder == Spec => []TakeInOrder
  <1>1. IInv => TakeInOrder
    <2> SUFFICES ASSUME IInv, loop = "rest"
                 PROVE  last_pos(snapshots) < pos /\ Len(snapshots) < max
      BY DEF TakeInOrder
    <2>1. last_pos(snapshots) \in Nat
      BY LastPosition
    <2> QED
      BY <2>1 DEF IInv, Numbers, DueHolds, next_at
  <1> QED
    BY <1>1, Invariance, PTL

(* Both, as the runs check them: no checkpoint is refused, none exceeds    *)
(* what decode_checkpoints_within reserved.                                *)
THEOREM CheckpointsAlwaysFit == Spec => []CheckpointsFit
  <1>1. AdmissionCovers /\ TakeInOrder => CheckpointsFit
    BY DEF CheckpointsFit
  <1> QED
    BY <1>1, AdmissionIsCovered, TakesInOrder, PTL

(* Asked twice about one position, due answers the same. *)
THEOREM AskedTwice == Spec => SameAnswer
  <1>1. IInv /\ [Next]_vars => [due /\ loop = "rest" => loop' = "rest"]_vars
    <2> SUFFICES ASSUME IInv, due, loop = "rest"
                 PROVE  loop' = "rest"
      OBVIOUS
    <2>1. MayBeDue /\ ~Full
      BY DEF IInv, Numbers, DueHolds, MayBeDue, Full
    <2> QED
      BY <2>1 DEF due
  <1> QED
    BY <1>1, Invariance, PTL DEF Spec, SameAnswer

------------------------------------------------------------------------------
(* Where the checkpoints are.                                              *)

LEMMA Divides ==
    ASSUME NEW d \in Nat \ {0}, NEW q \in Nat
    PROVE  (d * q) % d = 0
<1>1. d * q \in Nat /\ (d * q) % d \in 0 .. d - 1
  OBVIOUS
<1> DEFINE p == (d * q) \div d
           x == (d * q) % d
<1>2. p \in Nat /\ d * q = d * p + x
  OBVIOUS
<1>3. q >= p /\ q =< p
  <2>1. ASSUME q + 1 =< p
        PROVE  FALSE
    <3>1. d * (q + 1) =< d * p
      BY <2>1, <1>2, Monotone
    <3>2. d * (q + 1) = d * q + d
      OBVIOUS
    <3> QED
      BY <3>1, <3>2, <1>1, <1>2
  <2>2. ASSUME p + 1 =< q
        PROVE  FALSE
    <3>1. d * (p + 1) =< d * q
      BY <2>2, <1>2, Monotone
    <3>2. d * (p + 1) = d * p + d
      BY <1>2
    <3> QED
      BY <3>1, <3>2, <1>1, <1>2
  <2> QED
    BY <2>1, <2>2, <1>2
<1>4. p = q
  BY <1>2, <1>3
<1>5. d * q = d * q + x
  BY <1>2, <1>4
<1>6. x \in Int /\ d * q \in Int
  BY <1>1
<1> HIDE DEF x
<1>7. x = 0
  BY <1>5, <1>6
<1> QED
  BY <1>7 DEF x

LEMMA Quotient ==
    ASSUME NEW d \in Nat \ {0}, NEW q \in Nat
    PROVE  (d * q) \div d = q
<1>1. (d * q) % d = 0
  BY Divides
<1> DEFINE p == (d * q) \div d
<1>2. p \in Nat /\ d * q = d * p
  BY <1>1
<1>3. ASSUME q + 1 =< p
      PROVE  FALSE
  <2>1. d * (q + 1) =< d * p
    BY <1>3, <1>2, Monotone
  <2>2. d * (q + 1) = d * q + d
    OBVIOUS
  <2> QED
    BY <2>1, <2>2, <1>2
<1>4. ASSUME p + 1 =< q
      PROVE  FALSE
  <2>1. d * (p + 1) =< d * q
    BY <1>4, <1>2, Monotone
  <2>2. d * (p + 1) = d * p + d
    BY <1>2
  <2> QED
    BY <2>1, <2>2, <1>2
<1> QED
  BY <1>2, <1>3, <1>4

LEMMA Multiple ==
    ASSUME NEW k \in Nat, NEW d \in Nat \ {0}, k % d = 0
    PROVE  \E q \in Nat : k = d * q
<1>1. k = d * (k \div d) /\ k \div d \in Nat
  OBVIOUS
<1> QED
  BY <1>1

PowerOfTwo(k) == \A d \in 2 .. k : k % d = 0 => d % 2 = 0

LEMMA PowersAre ==
    ASSUME NEW n \in Nat, NEW k
    PROVE  k \in PowersOfTwo(n) <=> k \in 1 .. n /\ PowerOfTwo(k)
  BY DEF PowersOfTwo, PowerOfTwo

LEMMA PowerDoubles ==
    ASSUME NEW k \in Nat \ {0}, PowerOfTwo(k)
    PROVE  PowerOfTwo(2 * k)
<1> SUFFICES ASSUME NEW d \in 2 .. 2 * k, (2 * k) % d = 0, d % 2 # 0
             PROVE  FALSE
  BY DEF PowerOfTwo
<1>1. PICK q \in Nat : 2 * k = d * q
  BY Multiple
<1>2. PICK e \in Nat : d = 2 * e + 1
  <2>1. d = 2 * (d \div 2) + 1 /\ d \div 2 \in Nat
    OBVIOUS
  <2> QED
    BY <2>1
<1>3. d * q = 2 * (e * q) + q /\ e * q \in Nat
  BY <1>2
<1>4. PICK p \in Nat : q = 2 * p
  <2>1. q = 2 * (k - e * q) /\ k - e * q \in Int
    BY <1>1, <1>3
  <2>2. k - e * q \in Nat
    BY <2>1
  <2> QED
    BY <2>1, <2>2
<1>5. d * q = 2 * (d * p) /\ d * p \in Nat
  <2>1. d * q = d * (2 * p)
    BY <1>4
  <2>2. d * (2 * p) = (2 * d) * p
    BY Doubled
  <2>3. (2 * d) * p = 2 * (d * p) /\ d * p \in Nat
    OBVIOUS
  <2> QED
    BY <2>1, <2>2, <2>3
<1>6. k = d * p
  BY <1>1, <1>5
<1>7. k % d = 0
  <2>1. d \in Nat \ {0}
    OBVIOUS
  <2>2. (d * p) % d = 0
    BY <2>1, Divides
  <2> QED
    BY <1>6, <2>2
<1>8. p # 0
  BY <1>6
<1>9. d * 1 =< d * p
  BY <1>8, Monotone
<1>10. d \in 2 .. k
  BY <1>6, <1>9
<1> QED
  BY <1>7, <1>10 DEF PowerOfTwo

LEMMA PowerHalves ==
    ASSUME NEW k \in Nat, k > 1, PowerOfTwo(k)
    PROVE  \E h \in Nat \ {0} : k = 2 * h /\ PowerOfTwo(h)
<1>1. k % k = 0
  <2>1. (k * 1) % k = 0
    BY Divides
  <2> QED
    BY <2>1
<1>2. k % 2 = 0
  BY <1>1 DEF PowerOfTwo
<1>3. PICK h \in Nat : k = 2 * h
  BY <1>2, Multiple
<1>4. PowerOfTwo(h)
  <2> SUFFICES ASSUME NEW d \in 2 .. h, h % d = 0
               PROVE  d % 2 = 0
    BY DEF PowerOfTwo
  <2>1. PICK q \in Nat : h = d * q
    BY <1>3, Multiple
  <2>2. k = d * (2 * q)
    BY <1>3, <2>1
  <2>3. k % d = 0
    BY <2>2, Divides
  <2>4. d \in 2 .. k
    BY <1>3
  <2> QED
    BY <2>3, <2>4 DEF PowerOfTwo
<1> QED
  BY <1>3, <1>4

(* Between a power of two and its double there is none. *)
LEMMA NoPowerBetween ==
    ASSUME NEW a \in Nat \ {0}, NEW b \in Nat \ {0}, PowerOfTwo(a), PowerOfTwo(b), a < b
    PROVE  2 * a =< b
<1> DEFINE Bad == {y \in Nat : \E x \in Nat \ {0} : PowerOfTwo(x) /\ PowerOfTwo(y) /\ x < y /\ y < 2 * x}
<1> SUFFICES ASSUME Bad # {}
             PROVE  FALSE
  OBVIOUS
<1>1. PICK y \in Bad : \A z \in Bad : y =< z
  BY LeastNat
<1>2. PICK x \in Nat \ {0} : PowerOfTwo(x) /\ PowerOfTwo(y) /\ x < y /\ y < 2 * x
  OBVIOUS
<1>3. PICK h \in Nat \ {0} : y = 2 * h /\ PowerOfTwo(h)
  BY <1>2, PowerHalves
<1>4. x > 1
  BY <1>2, <1>3
<1>5. PICK g \in Nat \ {0} : x = 2 * g /\ PowerOfTwo(g)
  BY <1>2, <1>4, PowerHalves
<1>6. g < h /\ h < 2 * g
  BY <1>2, <1>3, <1>5
<1>7. h \in Bad
  BY <1>3, <1>5, <1>6
<1> QED
  BY <1>1, <1>3, <1>7

------------------------------------------------------------------------------
(* The inductive invariant of the spacing: what lies between two           *)
(* checkpoints, and which of the strides so far would not have done.       *)

mark(k) == IF k = 0 THEN start ELSE snapshots[k]

Gaps(m) ==
    \A k \in 1 .. Len(snapshots) :
        /\ mark(k - 1) + stride =< mark(k)
        /\ mark(k) =< mark(k - 1) + stride + m * drafts

Stretch(m) ==
    /\ loop = "step" => pos < last_pos(snapshots) + stride
    /\ loop = "ask"  => pos =< last_pos(snapshots) + stride + drafts
    /\ loop = "rest" => pos =< last_pos(snapshots) + stride + m * drafts

(* The stride has doubled, as more than max strides of half of it fit. *)
Outgrown(m) ==
    m # 1 => \E h \in Nat : m = 2 * h /\ start + (max + 1) * (h * interval) =< pos

SpreadBy(m) ==
    PowerOfTwo(m) /\ stride = m * interval /\ Outgrown(m) /\ Gaps(m) /\ Stretch(m)

InPlace == drafts = 0 => \A k \in 1 .. Len(snapshots) : snapshots[k] = start + k * stride

WInv ==
    /\ IInv
    /\ interval = 0 => stride = 0
    /\ interval # 0 /\ max # 0 => InPlace /\ \E m \in Nat \ {0} : SpreadBy(m)

LEMMA MarkTypes ==
    ASSUME IInv
    PROVE  /\ \A k \in 0 .. Len(snapshots) : mark(k) \in Nat
           /\ last_pos(snapshots) = mark(Len(snapshots)) /\ Len(snapshots) \in Nat
           /\ last_pos(snapshots) \in Nat /\ last_pos(snapshots) =< pos
<1>1. snapshots \in Seq(Nat) /\ start \in Nat
  BY DEF IInv, Numbers
<1>2. (snapshots = <<>>) <=> (Len(snapshots) = 0)
  BY <1>1
<1> QED
  BY <1>1, <1>2, LastPosition DEF mark, last_pos

LEMMA InitWInv == Init => WInv
<1> SUFFICES ASSUME Init
             PROVE  WInv
  OBVIOUS
<1>1. IInv
  BY InitIInv
<1>2. snapshots = <<>> /\ stride = interval /\ pos = start /\ loop = "step"
  BY DEF Init
<1>3. interval \in Nat /\ start \in Nat
  BY <1>1 DEF IInv, Numbers
<1>4. ASSUME interval # 0
      PROVE  SpreadBy(1)
  <2>1. PowerOfTwo(1)
    BY DEF PowerOfTwo
  <2>2. Outgrown(1)
    BY DEF Outgrown
  <2>3. Gaps(1) /\ Stretch(1)
    BY <1>2, <1>3, <1>4 DEF Gaps, Stretch, last_pos
  <2> QED
    BY <1>2, <1>3, <2>1, <2>2, <2>3 DEF SpreadBy
<1>5. InPlace
  BY <1>2 DEF InPlace
<1> QED
  BY <1>1, <1>2, <1>4, <1>5 DEF WInv

(* What a step that leaves the checkpoints and the stride alone keeps.     *)
LEMMA SpreadKept ==
    ASSUME IInv, pos' \in Nat, pos =< pos', NEW m \in Nat \ {0}, SpreadBy(m),
           UNCHANGED <<interval, max, start, drafts, stride, snapshots>>, Stretch(m)'
    PROVE  SpreadBy(m)'
<1>1. PowerOfTwo(m) /\ stride = m * interval /\ Outgrown(m) /\ Gaps(m)
  BY DEF SpreadBy
<1>2. Outgrown(m)'
  <2> SUFFICES ASSUME m # 1
               PROVE  \E h \in Nat : m = 2 * h /\ start + (max + 1) * (h * interval) =< pos'
    BY DEF Outgrown
  <2>1. PICK h \in Nat : m = 2 * h /\ start + (max + 1) * (h * interval) =< pos
    BY <1>1 DEF Outgrown
  <2> DEFINE room == (max + 1) * (h * interval)
  <2>2. room \in Int /\ start \in Nat /\ pos \in Nat
    BY DEF IInv, Numbers
  <2>3. start + room =< pos
    BY <2>1
  <2> HIDE DEF room
  <2>4. start + room =< pos'
    BY <2>2, <2>3
  <2> QED
    BY <2>1, <2>4 DEF room
<1>3. Gaps(m)'
  BY <1>1 DEF Gaps, mark
<1> QED
  BY <1>1, <1>2, <1>3 DEF SpreadBy

LEMMA StepWInv ==
    ASSUME WInv, NEW n \in 1 .. drafts + 1, Step(n)
    PROVE  WInv'
<1>1. IInv /\ drafts \in Nat /\ stride \in Nat /\ pos \in Nat
  BY DEF WInv, IInv, Numbers
<1>2. n \in Nat
  BY <1>1
<1>3. IInv'
  BY <1>1, <1>2, StepIInv
<1>4. /\ loop = "step" /\ pos' = pos + n /\ loop' = "ask"
      /\ UNCHANGED <<interval, max, start, drafts, stride, snapshots>>
  BY DEF Step
<1>5. ASSUME interval # 0, max # 0
      PROVE  InPlace' /\ \E m \in Nat \ {0} : SpreadBy(m)'
  <2>1. PICK m \in Nat \ {0} : SpreadBy(m)
    BY <1>5 DEF WInv
  <2>2. pos < last_pos(snapshots) + stride
    BY <1>4, <2>1 DEF SpreadBy, Stretch
  <2>3. last_pos(snapshots) \in Nat /\ last_pos(snapshots)' = last_pos(snapshots)
    BY <1>1, <1>4, MarkTypes DEF last_pos
  <2>4. Stretch(m)'
    <3>1. pos' =< last_pos(snapshots) + stride + drafts
      BY <1>1, <1>2, <1>4, <2>2, <2>3
    <3> QED
      BY <1>4, <2>3, <3>1 DEF Stretch
  <2>5. SpreadBy(m)'
    BY <1>1, <1>2, <1>4, <2>1, <2>4, SpreadKept
  <2>6. InPlace'
    BY <1>4, <1>5 DEF WInv, InPlace
  <2> QED
    BY <2>5, <2>6
<1> QED
  BY <1>3, <1>4, <1>5 DEF WInv

LEMMA TakeWInv ==
    ASSUME WInv, take
    PROVE  WInv'
<1>1. IInv /\ drafts \in Nat /\ stride \in Nat /\ pos \in Nat /\ snapshots \in Seq(Nat) /\ start \in Nat
  BY DEF WInv, IInv, Numbers
<1>2. IInv'
  BY <1>1, TakeIInv
<1>3. /\ loop = "rest" /\ loop' = "step" /\ snapshots' = Append(snapshots, pos)
      /\ UNCHANGED <<interval, max, start, drafts, stride, pos>>
  BY DEF take
<1>4. /\ last_pos(snapshots) \in Nat /\ pos >= last_pos(snapshots) + stride /\ stride # 0
      /\ last_pos(snapshots) = mark(Len(snapshots)) /\ Len(snapshots) \in Nat
  BY <1>1, <1>3, MarkTypes DEF IInv, DueHolds, next_at
<1>n. PICK n \in Nat : n = Len(snapshots)
  BY <1>4
<1>5. /\ Len(snapshots') = n + 1
      /\ \A k \in 1 .. n : snapshots'[k] = snapshots[k]
      /\ snapshots'[n + 1] = pos
  BY <1>1, <1>3, <1>n
<1>6. /\ \A k \in 0 .. n : mark(k)' = mark(k)
      /\ mark(n + 1)' = pos
  <2>1. ASSUME NEW k \in 1 .. n
        PROVE  mark(k)' = mark(k)
    BY <1>5 DEF mark
  <2>2. mark(0)' = mark(0)
    BY <1>3 DEF mark
  <2>3. mark(n + 1)' = pos
    BY <1>5 DEF mark
  <2>4. \A k \in 0 .. n : k = 0 \/ k \in 1 .. n
    OBVIOUS
  <2> QED
    BY <2>1, <2>2, <2>3, <2>4
<1>7. last_pos(snapshots)' = pos
  BY <1>1, <1>2, <1>4, <1>5, <1>3 DEF last_pos
<1>8. ASSUME interval # 0, max # 0
      PROVE  InPlace' /\ \E m \in Nat \ {0} : SpreadBy(m)'
  <2>1. PICK m \in Nat \ {0} : SpreadBy(m)
    BY <1>8 DEF WInv
  <2>2. pos =< last_pos(snapshots) + stride + m * drafts /\ Gaps(m)
    BY <1>3, <2>1 DEF SpreadBy, Stretch
  <2>3. Gaps(m)'
    <3> SUFFICES ASSUME NEW k \in 1 .. n + 1
                 PROVE  /\ mark(k - 1)' + stride =< mark(k)'
                        /\ mark(k)' =< mark(k - 1)' + stride + m * drafts
      BY <1>3, <1>5 DEF Gaps
    <3>1. CASE k \in 1 .. n
      <4>1. mark(k)' = mark(k) /\ mark(k - 1)' = mark(k - 1)
        BY <1>6, <3>1
      <4> QED
        BY <1>n, <2>2, <3>1, <4>1 DEF Gaps
    <3>2. CASE k = n + 1
      <4>1. mark(k)' = pos
        BY <1>6, <3>2
      <4>2. mark(k - 1)' = mark(n)
        BY <1>6, <3>2
      <4>3. mark(n) = last_pos(snapshots)
        BY <1>4, <1>n
      <4> QED
        BY <1>4, <2>2, <4>1, <4>2, <4>3
    <3> QED
      BY <3>1, <3>2
  <2>4. Stretch(m)'
    BY <1>1, <1>3, <1>4, <1>7 DEF Stretch
  <2>5. SpreadBy(m)'
    BY <1>3, <2>1, <2>3, <2>4 DEF SpreadBy, Outgrown
  <2>6. InPlace'
    <3> SUFFICES ASSUME drafts = 0, NEW k \in 1 .. n + 1
                 PROVE  snapshots'[k] = start + k * stride
      BY <1>3, <1>5 DEF InPlace
    <3>1. \A i \in 1 .. n : snapshots[i] = start + i * stride
      BY <1>8, <1>n DEF WInv, InPlace
    <3>2. CASE k \in 1 .. n
      BY <1>5, <3>1, <3>2
    <3>3. CASE k = n + 1
      <4>1. m * drafts = 0
        OBVIOUS
      <4>2. pos = last_pos(snapshots) + stride
        BY <1>1, <1>4, <2>2, <4>1
      <4>3. last_pos(snapshots) = start + n * stride
        <5>1. CASE n = 0
          BY <1>1, <1>4, <1>n, <5>1 DEF mark
        <5>2. CASE n # 0
          BY <1>4, <1>n, <3>1, <5>2 DEF mark
        <5> QED
          BY <5>1, <5>2
      <4>4. (n + 1) * stride = n * stride + stride
        BY <1>1, <1>4, OneMore
      <4> QED
        BY <1>1, <1>4, <1>5, <3>3, <4>2, <4>3, <4>4
    <3> QED
      BY <3>2, <3>3
  <2> QED
    BY <2>5, <2>6
<1> QED
  BY <1>2, <1>3, <1>8 DEF WInv

LEMMA ThinWInv ==
    ASSUME WInv, due, MayBeDue, Full, IInv', NEW m \in Nat \ {0}, SpreadBy(m), InPlace
    PROVE  InPlace' /\ SpreadBy(2 * m)'
<1>1. /\ interval \in Nat /\ max \in Nat /\ start \in Nat /\ drafts \in Nat /\ stride \in Nat
      /\ pos \in Nat /\ snapshots \in Seq(Nat)
      /\ IInv
  BY DEF WInv, IInv, Numbers
<1>2. /\ snapshots' = thin(snapshots) /\ stride' = 2 * stride
      /\ UNCHANGED <<interval, max, start, drafts, pos>>
      /\ loop \in {"ask", "rest"}
      /\ loop' = IF pos >= next_at(thin(snapshots), 2 * stride) THEN "rest" ELSE "step"
  BY DEF due
<1>3. stride # 0 /\ max # 0 /\ pos >= last_pos(snapshots) + stride /\ Len(snapshots) = max
  BY <1>1 DEF MayBeDue, Full, next_at, IInv
<1>4. PICK n \in Nat : n = Len(snapshots')
  BY <1>1, <1>2, ThinFacts
<1>5. /\ n = max \div 2
      /\ \A k \in 1 .. n : 2 * k \in 1 .. Len(snapshots) /\ snapshots'[k] = snapshots[2 * k]
  BY <1>1, <1>2, <1>3, <1>4, ThinFacts
<1>6. \A k \in 0 .. Len(snapshots) : mark(k) \in Nat
  BY <1>1, MarkTypes
<1>7. \A k \in 0 .. n : mark(k)' = mark(2 * k)
  <2>1. mark(0)' = mark(2 * 0)
    BY <1>2 DEF mark
  <2>2. ASSUME NEW k \in 1 .. n
        PROVE  mark(k)' = mark(2 * k)
    BY <1>5 DEF mark
  <2>3. \A k \in 0 .. n : k = 0 \/ k \in 1 .. n
    OBVIOUS
  <2> QED
    BY <2>1, <2>2, <2>3
<1>8. PICK w \in Nat : w = m * drafts
  BY <1>1
<1>9. (2 * m) * drafts = 2 * w /\ w >= drafts
  <2>1. (2 * m) * drafts = 2 * (m * drafts)
    BY <1>1
  <2>2. drafts * 1 =< drafts * m
    <3>1. 1 =< m
      OBVIOUS
    <3> QED
      BY <1>1, <3>1, Monotone
  <2>3. drafts * m = m * drafts /\ drafts * 1 = drafts
    BY <1>1
  <2> QED
    BY <1>8, <2>1, <2>2, <2>3
<1>10. \A k \in 1 .. Len(snapshots) :
         mark(k - 1) + stride =< mark(k) /\ mark(k) =< mark(k - 1) + stride + w
  BY <1>8 DEF SpreadBy, Gaps
<1>11. pos =< last_pos(snapshots) + stride + w
  <2>1. Stretch(m)
    BY DEF SpreadBy
  <2>2. loop = "ask" => pos =< last_pos(snapshots) + stride + drafts
    BY <2>1 DEF Stretch
  <2>3. loop = "rest" => pos =< last_pos(snapshots) + stride + w
    BY <1>8, <2>1 DEF Stretch
  <2>4. last_pos(snapshots) \in Nat
    BY <1>1, MarkTypes
  <2> QED
    BY <1>1, <1>2, <1>9, <2>2, <2>3, <2>4
<1>12. last_pos(snapshots) = mark(max)
  BY <1>1, <1>3, MarkTypes
<1>13. last_pos(snapshots)' = mark(2 * n)
  <2>1. last_pos(snapshots)' = IF n = 0 THEN start ELSE snapshots'[n]
    <3>1. snapshots' \in Seq(Nat)
      BY <1>1, <1>2, ThinFacts
    <3>2. (snapshots' = <<>>) <=> (n = 0)
      BY <1>4, <3>1
    <3> QED
      BY <1>2, <1>4, <3>2 DEF last_pos
  <2>2. CASE n = 0
    BY <2>1, <2>2 DEF mark
  <2>3. CASE n # 0
    BY <1>5, <2>1, <2>3 DEF mark
  <2> QED
    BY <2>2, <2>3
<1>14. Gaps(2 * m)'
  <2> SUFFICES ASSUME NEW k \in 1 .. n
               PROVE  /\ mark(k - 1)' + 2 * stride =< mark(k)'
                      /\ mark(k)' =< mark(k - 1)' + 2 * stride + 2 * w
    BY <1>2, <1>4, <1>9 DEF Gaps
  <2>1. mark(k)' = mark(2 * k) /\ mark(k - 1)' = mark(2 * k - 2)
    <3>1. k - 1 \in 0 .. n /\ k \in 0 .. n /\ 2 * (k - 1) = 2 * k - 2
      OBVIOUS
    <3> QED
      BY <1>7, <3>1
  <2>2. 2 * k \in 1 .. Len(snapshots) /\ 2 * k - 1 \in 1 .. Len(snapshots)
    BY <1>5
  <2>3. /\ mark(2 * k - 1) + stride =< mark(2 * k) /\ mark(2 * k) =< mark(2 * k - 1) + stride + w
        /\ mark(2 * k - 2) + stride =< mark(2 * k - 1)
        /\ mark(2 * k - 1) =< mark(2 * k - 2) + stride + w
    <3>1. (2 * k - 1) - 1 = 2 * k - 2
      OBVIOUS
    <3> QED
      BY <1>10, <2>2, <3>1
  <2>4. mark(2 * k) \in Nat /\ mark(2 * k - 1) \in Nat /\ mark(2 * k - 2) \in Nat
    <3>1. {2 * k, 2 * k - 1, 2 * k - 2} \subseteq 0 .. Len(snapshots)
      BY <2>2
    <3> QED
      BY <1>6, <3>1
  <2>5. PICK a \in Nat, b \in Nat, c \in Nat :
          a = mark(2 * k - 2) /\ b = mark(2 * k - 1) /\ c = mark(2 * k)
    BY <2>4
  <2>6. /\ b + stride =< c /\ c =< b + stride + w /\ a + stride =< b /\ b =< a + stride + w
    BY <2>3, <2>5
  <2>7. a + 2 * stride =< c /\ c =< a + 2 * stride + 2 * w
    BY <1>1, <2>6
  <2> QED
    BY <2>1, <2>5, <2>7
<1>15. pos =< mark(2 * n) + 2 * stride + 2 * w
  <2>1. 2 * n \in 0 .. max /\ (max = 2 * n \/ max = 2 * n + 1)
    <3>1. n = max \div 2
      BY <1>5
    <3> QED
      BY <1>1, <3>1
  <2>2. mark(max) =< mark(2 * n) + stride + w /\ mark(2 * n) \in Nat /\ mark(max) \in Nat
    <3>1. mark(2 * n) \in Nat /\ mark(max) \in Nat
      BY <1>1, <1>3, <1>6, <2>1
    <3>2. CASE max = 2 * n
      BY <1>1, <3>1, <3>2
    <3>3. CASE max = 2 * n + 1
      <4>1. max \in 1 .. Len(snapshots) /\ max - 1 = 2 * n
        BY <1>1, <1>3, <3>3
      <4> QED
        BY <1>10, <3>1, <4>1
    <3> QED
      BY <2>1, <3>2, <3>3
  <2>3. PICK a \in Nat, b \in Nat : a = mark(2 * n) /\ b = mark(max)
    BY <2>2
  <2>4. b =< a + stride + w /\ pos =< b + stride + w
    BY <1>11, <1>12, <2>2, <2>3
  <2>5. pos =< a + 2 * stride + 2 * w
    BY <1>1, <2>4
  <2> QED
    BY <2>3, <2>5
<1>16. Stretch(2 * m)'
  <2>1. mark(2 * n) \in Nat
    <3>1. 2 * n \in 0 .. Len(snapshots)
      BY <1>1, <1>3, <1>5
    <3> QED
      BY <1>6, <3>1
  <2>2. next_at(thin(snapshots), 2 * stride) = mark(2 * n) + 2 * stride
    BY <1>2, <1>13 DEF next_at, last_pos
  <2>3. loop' = "step" => pos < mark(2 * n) + 2 * stride
    BY <1>1, <1>2, <2>1, <2>2
  <2> QED
    BY <1>2, <1>9, <1>13, <1>15, <2>3 DEF Stretch
<1>17. Outgrown(2 * m)'
  <2>1. start + Len(snapshots) * stride =< last_pos(snapshots) /\ last_pos(snapshots) \in Nat
    BY <1>1, LastPosition
  <2>2. (max + 1) * stride = max * stride + stride /\ max * stride \in Nat
    BY <1>1, OneMore
  <2>3. start + (max + 1) * stride =< pos
    BY <1>1, <1>3, <2>1, <2>2
  <2>4. stride = m * interval
    BY DEF SpreadBy
  <2> QED
    BY <1>2, <2>3, <2>4 DEF Outgrown
<1>18. PowerOfTwo(2 * m) /\ stride' = (2 * m) * interval
  <2>1. stride = m * interval /\ PowerOfTwo(m)
    BY DEF SpreadBy
  <2>2. 2 * (m * interval) = (2 * m) * interval
    BY <1>1
  <2> QED
    BY <1>2, <2>1, <2>2, PowerDoubles
<1>19. InPlace'
  <2> SUFFICES ASSUME drafts = 0, NEW k \in 1 .. n
               PROVE  snapshots'[k] = start + k * (2 * stride)
    BY <1>2, <1>4 DEF InPlace
  <2>1. snapshots[2 * k] = start + (2 * k) * stride
    BY <1>5 DEF InPlace
  <2>2. k * (2 * stride) = (2 * k) * stride
    BY <1>1, Doubled
  <2> QED
    BY <1>5, <2>1, <2>2
<1> QED
  BY <1>2, <1>14, <1>16, <1>17, <1>18, <1>19 DEF SpreadBy

LEMMA DueWInv ==
    ASSUME WInv, due
    PROVE  WInv'
<1>1. /\ IInv /\ interval \in Nat /\ max \in Nat /\ start \in Nat /\ drafts \in Nat /\ stride \in Nat
      /\ pos \in Nat
  BY DEF WInv, IInv, Numbers
<1>2. IInv'
  BY <1>1, DueIInv
<1>3. interval = 0 => stride = 0
  BY DEF WInv
<1>4. UNCHANGED <<interval, max, start, drafts, pos>> /\ loop \in {"ask", "rest"}
  BY DEF due
<1>5. CASE MayBeDue /\ Full
  <2>1. stride # 0 /\ max # 0
    BY <1>5 DEF MayBeDue
  <2>2. PICK m \in Nat \ {0} : SpreadBy(m)
    BY <1>3, <2>1 DEF WInv
  <2>3. InPlace' /\ SpreadBy(2 * m)'
    BY <1>2, <1>3, <1>5, <2>1, <2>2, ThinWInv DEF WInv
  <2>4. 2 * m \in Nat \ {0}
    OBVIOUS
  <2> QED
    BY <1>2, <1>3, <1>4, <2>1, <2>3, <2>4 DEF WInv
<1>6. CASE ~(MayBeDue /\ Full)
  <2>1. /\ UNCHANGED <<interval, max, start, drafts, stride, snapshots, pos>>
        /\ loop' = IF MayBeDue THEN "rest" ELSE "step"
    BY <1>6 DEF due
  <2>2. ASSUME interval # 0, max # 0
        PROVE  InPlace' /\ \E m \in Nat \ {0} : SpreadBy(m)'
    <3>1. PICK m \in Nat \ {0} : SpreadBy(m)
      BY <2>2 DEF WInv
    <3>2. last_pos(snapshots) \in Nat /\ last_pos(snapshots)' = last_pos(snapshots)
      BY <1>1, <2>1, MarkTypes DEF last_pos
    <3>3. stride # 0
      BY <1>1, <2>2 DEF IInv
    <3>4. PICK w \in Nat : w = m * drafts
      BY <1>1
    <3>5. drafts =< w
      <4>1. drafts * 1 =< drafts * m
        BY <1>1, Monotone
      <4>2. drafts * m = m * drafts /\ drafts * 1 = drafts
        BY <1>1
      <4> QED
        BY <3>4, <4>1, <4>2
    <3>6. pos =< last_pos(snapshots) + stride + w
      BY <1>1, <1>4, <3>1, <3>2, <3>4, <3>5 DEF SpreadBy, Stretch
    <3>7. ~MayBeDue => pos < last_pos(snapshots) + stride
      BY <1>1, <2>2, <3>2, <3>3 DEF MayBeDue, next_at
    <3>8. Stretch(m)'
      BY <2>1, <3>2, <3>4, <3>6, <3>7 DEF Stretch
    <3>9. pos' \in Nat /\ pos =< pos'
      BY <1>1, <2>1
    <3>10. SpreadBy(m)'
      BY <1>1, <2>1, <3>1, <3>8, <3>9, SpreadKept
    <3>11. InPlace'
      BY <2>1, <2>2 DEF WInv, InPlace
    <3> QED
      BY <3>10, <3>11
  <2> QED
    BY <1>2, <1>3, <2>1, <2>2 DEF WInv
<1> QED
  BY <1>5, <1>6

LEMMA NextWInv == WInv /\ [Next]_vars => WInv'
<1> SUFFICES ASSUME WInv, [Next]_vars
             PROVE  WInv'
  OBVIOUS
<1>1. CASE \E n \in 1 .. drafts + 1 : Step(n)
  BY <1>1, StepWInv
<1>2. CASE due
  BY <1>2, DueWInv
<1>3. CASE take
  BY <1>3, TakeWInv
<1>4. CASE UNCHANGED vars
  <2>1. IInv' = IInv /\ InPlace' = InPlace /\ (\A m \in Nat \ {0} : SpreadBy(m)' = SpreadBy(m))
    BY <1>4 DEF vars, IInv, Numbers, Spaced, DueHolds, next_at, last_pos, InPlace, SpreadBy, PowerOfTwo,
                Outgrown, Gaps, mark, Stretch
  <2> QED
    BY <1>4, <2>1 DEF WInv, vars
<1> QED
  BY <1>1, <1>2, <1>3, <1>4 DEF Next, Ended

LEMMA AlwaysWInv == Spec => []WInv
  BY InitWInv, NextWInv, PTL DEF Spec

LEMMA EvenBySpread == WInv => EvenlySpread
<1> SUFFICES ASSUME WInv, loop = "step", stride # 0, max # 0, NEW i \in 1 .. Len(snapshots) + 1
             PROVE  LET from == IF i = 1 THEN start ELSE snapshots[i - 1]
                        to   == IF i > Len(snapshots) THEN pos ELSE snapshots[i]
                    IN  /\ to - from < stride + (stride \div interval) * (drafts + 1)
                        /\ i =< Len(snapshots) => to - from >= stride
  BY DEF EvenlySpread
<1>1. /\ IInv /\ interval \in Nat /\ max \in Nat /\ start \in Nat /\ drafts \in Nat /\ stride \in Nat
      /\ pos \in Nat
  BY DEF WInv, IInv, Numbers
<1>2. interval # 0
  BY DEF WInv
<1>3. PICK m \in Nat \ {0} : SpreadBy(m)
  BY <1>2 DEF WInv
<1>4. stride \div interval = m
  <2>1. stride = interval * m
    BY <1>1, <1>3 DEF SpreadBy
  <2> QED
    BY <1>1, <1>2, <2>1, Quotient
<1>5. PICK w \in Nat : w = m * drafts
  BY <1>1
<1>6. m * (drafts + 1) = w + m
  BY <1>1, <1>5
<1>7. /\ \A k \in 0 .. Len(snapshots) : mark(k) \in Nat
      /\ last_pos(snapshots) = mark(Len(snapshots)) /\ Len(snapshots) \in Nat
  BY <1>1, MarkTypes
<1>8. (IF i = 1 THEN start ELSE snapshots[i - 1]) = mark(i - 1) /\ i - 1 \in 0 .. Len(snapshots)
  BY <1>7 DEF mark
<1>9. CASE i = Len(snapshots) + 1
  <2>1. pos < mark(i - 1) + stride
    BY <1>3, <1>7, <1>9 DEF SpreadBy, Stretch
  <2>2. mark(i - 1) \in Nat
    BY <1>7, <1>8
  <2>3. i > Len(snapshots) /\ ~(i =< Len(snapshots))
    BY <1>7, <1>9
  <2>4. PICK a \in Nat : a = mark(i - 1)
    BY <2>2
  <2>5. pos - a < stride + (w + m)
    BY <1>1, <2>1, <2>4
  <2> QED
    BY <1>4, <1>6, <1>8, <2>3, <2>4, <2>5
<1>10. CASE i \in 1 .. Len(snapshots)
  <2>1. mark(i - 1) + stride =< mark(i) /\ mark(i) =< mark(i - 1) + stride + w
    BY <1>3, <1>5, <1>10 DEF SpreadBy, Gaps
  <2>2. mark(i - 1) \in Nat /\ mark(i) \in Nat /\ mark(i) = snapshots[i]
    BY <1>7, <1>8, <1>10 DEF mark
  <2>3. ~(i > Len(snapshots))
    BY <1>7, <1>10
  <2>4. PICK a \in Nat, b \in Nat : a = mark(i - 1) /\ b = mark(i)
    BY <2>2
  <2>5. b - a < stride + (w + m) /\ b - a >= stride
    BY <1>1, <2>1, <2>4
  <2> QED
    BY <1>4, <1>6, <1>8, <2>2, <2>3, <2>4, <2>5
<1> QED
  BY <1>7, <1>9, <1>10

(* The positions at every k-th multiple of the interval, up to `end`.      *)
every(k, end) == {start + i * k * interval : i \in 1 .. end} \cap (start .. end)

(* Held against the invariant: no more than what is due, and all of it.    *)
LEMMA HeldIsEvery ==
    ASSUME WInv, loop = "step", drafts = 0, interval # 0, max # 0, NEW m \in Nat \ {0}, SpreadBy(m)
    PROVE  {snapshots[i] : i \in 1 .. Len(snapshots)} = every(m, pos)
<1>1. /\ interval \in Nat /\ start \in Nat /\ stride \in Nat /\ pos \in Nat /\ snapshots \in Seq(Nat)
      /\ IInv /\ InPlace /\ stride # 0
  BY DEF WInv, IInv, Numbers
<1>2. PICK n \in Nat : n = Len(snapshots)
  BY <1>1
<1>3. /\ \A i \in 1 .. n : snapshots[i] = start + i * stride /\ snapshots[i] =< pos
      /\ pos < start + n * stride + stride
  <2>1. \A i \in 1 .. n : snapshots[i] = start + i * stride /\ snapshots[i] =< pos
    BY <1>1, <1>2 DEF InPlace, IInv, Spaced
  <2>2. pos < last_pos(snapshots) + stride
    BY DEF SpreadBy, Stretch
  <2>3. last_pos(snapshots) = start + n * stride
    <3>1. CASE n = 0
      <4>1. n * stride = 0
        BY <1>1, <3>1
      <4>2. snapshots = <<>>
        <5>1. Len(snapshots) = 0 /\ snapshots \in Seq(Nat)
          BY <1>1, <1>2, <3>1
        <5> QED
          BY <5>1
      <4>3. last_pos(snapshots) = start
        BY <4>2 DEF last_pos
      <4> QED
        BY <1>1, <4>1, <4>3
    <3>2. CASE n # 0
      BY <1>1, <1>2, <2>1, <3>2 DEF last_pos
    <3> QED
      BY <3>1, <3>2
  <2> QED
    BY <2>1, <2>2, <2>3
<1>4. every(m, pos) = {start + i * stride : i \in 1 .. pos} \cap (start .. pos)
  <2>1. stride = m * interval
    BY DEF SpreadBy
  <2>2. \A i \in 1 .. pos : start + i * m * interval = start + i * stride
    <3> SUFFICES ASSUME NEW i \in 1 .. pos
                 PROVE  i * m * interval = i * stride
      OBVIOUS
    <3> QED
      BY <1>1, <2>1
  <2> QED
    BY <2>2 DEF every
<1>5. ASSUME NEW i \in 1 .. n
      PROVE  snapshots[i] \in every(m, pos)
  <2>1. i * 1 =< i * stride
    <3>1. 1 =< stride
      BY <1>1
    <3> QED
      BY <1>1, <3>1, Monotone
  <2>2. PICK x \in Nat : x = i * stride
    BY <1>1
  <2>3. snapshots[i] = start + x /\ start + x =< pos /\ i =< x
    BY <1>3, <2>1, <2>2
  <2>4. i \in 1 .. pos /\ start + x \in start .. pos
    BY <1>1, <2>3
  <2> QED
    BY <1>4, <2>2, <2>3, <2>4
<1>6. ASSUME NEW i \in 1 .. pos, start + i * stride =< pos
      PROVE  i \in 1 .. n
  <2> SUFFICES ASSUME n + 1 =< i
               PROVE  FALSE
    BY <1>2
  <2>1. stride * (n + 1) =< stride * i
    BY <1>1, Monotone
  <2>2. stride * (n + 1) = n * stride + stride /\ stride * i = i * stride /\ n * stride \in Nat
    BY <1>1
  <2>3. i * stride \in Nat
    BY <1>1
  <2> QED
    BY <1>1, <1>3, <1>6, <2>1, <2>2, <2>3
<1>7. every(m, pos) \subseteq {snapshots[i] : i \in 1 .. n}
  <2> SUFFICES ASSUME NEW i \in 1 .. pos, start + i * stride \in start .. pos
               PROVE  start + i * stride \in {snapshots[j] : j \in 1 .. n}
    BY <1>4
  <2>1. start + i * stride =< pos
    BY <1>1
  <2>2. i \in 1 .. n
    BY <1>6, <2>1
  <2> QED
    BY <1>3, <2>2
<1> QED
  BY <1>2, <1>5, <1>7

(* With a smaller stride there would be too many.                          *)
LEMMA SmallerOverflows ==
    ASSUME WInv, interval # 0, max # 0, NEW m \in Nat \ {0}, SpreadBy(m),
           NEW k \in Nat \ {0}, PowerOfTwo(k), k < m
    PROVE  Cardinality(every(k, pos)) > max
<1>1. /\ interval \in Nat /\ start \in Nat /\ pos \in Nat /\ max \in Nat
  BY DEF WInv, IInv, Numbers
<1>2. PICK h \in Nat : m = 2 * h /\ start + (max + 1) * (h * interval) =< pos
  BY DEF SpreadBy, Outgrown
<1>3. k =< h
  <2>1. 2 * k =< m
    BY NoPowerBetween DEF SpreadBy
  <2> QED
    BY <1>2, <2>1
<1>4. PICK s \in Nat : s = k * interval
  BY <1>1
<1>5. s # 0 /\ s =< h * interval /\ h * interval \in Nat
  <2>1. interval * 1 =< interval * k /\ interval * k =< interval * h
    <3>1. 1 =< k
      OBVIOUS
    <3> QED
      BY <1>1, <1>3, <3>1, Monotone
  <2>2. interval * k = s /\ interval * h = h * interval /\ interval * 1 = interval
    BY <1>1, <1>4
  <2> QED
    BY <1>1, <2>1, <2>2
<1>6. start + (max + 1) * s =< pos
  <2>1. (max + 1) * s =< (max + 1) * (h * interval)
    BY <1>1, <1>5, Monotone
  <2>2. (max + 1) * s \in Nat /\ (max + 1) * (h * interval) \in Nat
    BY <1>1, <1>5
  <2> QED
    BY <1>1, <1>2, <2>1, <2>2
<1>7. every(k, pos) = {start + i * s : i \in 1 .. pos} \cap (start .. pos)
  <2>1. \A i \in 1 .. pos : start + i * k * interval = start + i * s
    <3> SUFFICES ASSUME NEW i \in 1 .. pos
                 PROVE  i * k * interval = i * s
      OBVIOUS
    <3> QED
      BY <1>1, <1>4
  <2> QED
    BY <2>1 DEF every
<1> DEFINE f == [i \in 1 .. max + 1 |-> start + i * s]
<1>8. \A i \in 1 .. max + 1 : start + i * s \in every(k, pos)
  <2> SUFFICES ASSUME NEW i \in 1 .. max + 1
               PROVE  start + i * s \in every(k, pos)
    OBVIOUS
  <2>1. s * i =< s * (max + 1) /\ i * 1 =< i * s
    <3>1. 1 =< s /\ i =< max + 1 /\ max + 1 \in Nat
      BY <1>1, <1>5
    <3> QED
      BY <3>1, Monotone
  <2>2. PICK x \in Nat, y \in Nat : x = i * s /\ y = (max + 1) * s
    BY <1>1
  <2>3. s * i = x /\ s * (max + 1) = y /\ i * 1 = i
    BY <1>1, <2>2
  <2>4. x =< y /\ i =< x /\ start + y =< pos
    BY <1>6, <2>1, <2>2, <2>3
  <2>5. i \in 1 .. pos /\ start + x \in start .. pos
    BY <1>1, <2>4
  <2> QED
    BY <1>7, <2>2, <2>5
<1>9. f \in Injection(1 .. max + 1, every(k, pos))
  <2>1. f \in [1 .. max + 1 -> every(k, pos)]
    BY <1>8
  <2>2. ASSUME NEW i \in 1 .. max + 1, NEW j \in 1 .. max + 1, i < j
        PROVE  f[i] # f[j]
    <3>1. s * (i + 1) =< s * j
      <4>1. i + 1 \in Nat /\ j \in Nat /\ i + 1 =< j
        BY <1>1, <2>2
      <4> QED
        BY <4>1, Monotone
    <3>2. PICK x \in Nat, y \in Nat : x = i * s /\ y = j * s
      OBVIOUS
    <3>3. s * (i + 1) = x + s /\ s * j = y
      BY <3>2
    <3>4. x < y
      BY <1>5, <3>1, <3>3
    <3>5. f[i] = start + x /\ f[j] = start + y
      BY <3>2
    <3> QED
      BY <1>1, <3>4, <3>5
  <2>3. \A i, j \in 1 .. max + 1 : i < j \/ j < i \/ i = j
    BY <1>1
  <2>4. \A i, j \in 1 .. max + 1 : f[i] = f[j] => i = j
    <3> HIDE DEF f
    <3> QED
      BY <2>2, <2>3
  <2> HIDE DEF f
  <2> QED
    BY <2>1, <2>4 DEF Injection, IsInjective
<1>10. IsFiniteSet(every(k, pos))
  <2>1. every(k, pos) \in SUBSET (start .. pos)
    BY DEF every
  <2>2. IsFiniteSet(start .. pos)
    <3>1. start \in Int /\ pos \in Int
      BY <1>1
    <3> QED
      BY <3>1, FS_Interval
  <2> QED
    BY <2>1, <2>2, FS_Subset
<1>11. Cardinality(1 .. max + 1) = max + 1
  <2>1. Cardinality(1 .. max + 1) = IF 1 > max + 1 THEN 0 ELSE (max + 1) - 1 + 1
    BY <1>1, FS_Interval
  <2> QED
    BY <1>1, <2>1
<1>12. Cardinality(1 .. max + 1) =< Cardinality(every(k, pos))
  BY <1>9, <1>10, FS_Injection
<1>13. Cardinality(every(k, pos)) \in Nat
  BY <1>10, FS_CardinalityType
<1> QED
  BY <1>1, <1>11, <1>12, <1>13

LEMMA AgreesBySpread == WInv => AgreesWithPositions
<1> SUFFICES ASSUME WInv, drafts = 0, loop = "step"
             PROVE  {snapshots[i] : i \in 1 .. Len(snapshots)}
                      = decode_positions(interval, max, start, pos)
  BY DEF AgreesWithPositions
<1>1. /\ interval \in Nat /\ start \in Nat /\ pos \in Nat /\ max \in Nat /\ snapshots \in Seq(Nat)
      /\ Len(snapshots) \in Nat /\ Len(snapshots) =< max /\ IInv
  BY DEF WInv, IInv, Numbers
<1>2. CASE interval = 0 \/ max = 0
  <2>1. Len(snapshots) = 0
    BY <1>1, <1>2 DEF WInv, IInv
  <2>2. {snapshots[i] : i \in 1 .. Len(snapshots)} = {}
    BY <2>1
  <2> QED
    BY <1>2, <2>2 DEF decode_positions
<1>3. CASE interval # 0 /\ max # 0
  <2>1. PICK m \in Nat \ {0} : SpreadBy(m)
    BY <1>3 DEF WInv
  <2>2. {snapshots[i] : i \in 1 .. Len(snapshots)} = every(m, pos)
    BY <1>3, <2>1, HeldIsEvery
  <2> DEFINE good == {k \in PowersOfTwo(pos + 1) : Cardinality(every(k, pos)) =< max}
  <2>3. decode_positions(interval, max, start, pos) = every(Min(good), pos)
    BY <1>3 DEF decode_positions, every
  <2>4. m \in good
    <3>1. m \in 1 .. pos + 1
      <4>1. CASE m = 1
        BY <1>1, <4>1
      <4>2. CASE m # 1
        <5>1. PICK h \in Nat : m = 2 * h /\ start + (max + 1) * (h * interval) =< pos
          BY <2>1, <4>2 DEF SpreadBy, Outgrown
        <5>2. PICK x \in Nat : x = h * interval
          BY <1>1
        <5>3. h * 1 =< h * interval
          <6>1. 1 =< interval
            BY <1>1, <1>3
          <6> QED
            BY <1>1, <6>1, Monotone
        <5>4. x * 2 =< x * (max + 1)
          <6>1. 2 =< max + 1 /\ max + 1 \in Nat
            BY <1>1, <1>3
          <6> QED
            BY <6>1, Monotone
        <5>5. x * (max + 1) = (max + 1) * x /\ (max + 1) * x \in Nat
          BY <1>1
        <5>6. h =< x /\ 2 * x =< (max + 1) * x
          BY <5>2, <5>3, <5>4, <5>5
        <5>7. start + (max + 1) * x =< pos
          BY <5>1, <5>2
        <5>8. 2 * x =< pos
          BY <1>1, <5>5, <5>6, <5>7
        <5> QED
          BY <1>1, <5>1, <5>6, <5>8
      <4> QED
        BY <4>1, <4>2
    <3>2. Cardinality(every(m, pos)) =< max
      <4> DEFINE f == [i \in 1 .. Len(snapshots) |-> snapshots[i]]
      <4>1. f \in Surjection(1 .. Len(snapshots), every(m, pos))
        <5>1. \A i \in 1 .. Len(snapshots) : snapshots[i] \in every(m, pos)
          BY <2>2
        <5>2. \A x \in every(m, pos) : \E i \in 1 .. Len(snapshots) : snapshots[i] = x
          BY <2>2
        <5> QED
          BY <5>1, <5>2 DEF Surjection
      <4>2. IsFiniteSet(1 .. Len(snapshots)) /\ Cardinality(1 .. Len(snapshots)) = Len(snapshots)
        <5>1. /\ IsFiniteSet(1 .. Len(snapshots))
              /\ Cardinality(1 .. Len(snapshots))
                   = IF 1 > Len(snapshots) THEN 0 ELSE Len(snapshots) - 1 + 1
          <6>1. Len(snapshots) \in Int /\ 1 \in Int
            BY <1>1
          <6> QED
            BY <6>1, FS_Interval
        <5> QED
          BY <1>1, <5>1
      <4> HIDE DEF f
      <4>3. /\ Cardinality(every(m, pos)) =< Cardinality(1 .. Len(snapshots))
            /\ IsFiniteSet(every(m, pos))
        BY <4>1, <4>2, FS_Surjection
      <4>4. Cardinality(every(m, pos)) \in Nat
        BY <4>3, FS_CardinalityType
      <4> QED
        BY <1>1, <4>2, <4>3, <4>4
    <3>3. PowerOfTwo(m)
      BY <2>1 DEF SpreadBy
    <3>4. m \in PowersOfTwo(pos + 1)
      BY <1>1, <3>1, <3>3, PowersAre
    <3> QED
      BY <3>2, <3>4
  <2>5. ASSUME NEW k \in good
        PROVE  k \in Nat /\ m =< k
    <3>1. k \in 1 .. pos + 1 /\ PowerOfTwo(k) /\ Cardinality(every(k, pos)) =< max
      BY <1>1, PowersAre
    <3>2. k \in Nat \ {0}
      BY <1>1, <3>1
    <3>3. ASSUME k < m
          PROVE  FALSE
      <4>1. Cardinality(every(k, pos)) > max
        BY <1>3, <2>1, <3>1, <3>2, <3>3, SmallerOverflows
      <4>2. IsFiniteSet(every(k, pos))
        <5>1. every(k, pos) \in SUBSET (start .. pos)
          BY DEF every
        <5>2. IsFiniteSet(start .. pos)
          <6>1. start \in Int /\ pos \in Int
            BY <1>1
          <6> QED
            BY <6>1, FS_Interval
        <5> QED
          BY <5>1, <5>2, FS_Subset
      <4>3. Cardinality(every(k, pos)) \in Nat
        BY <4>2, FS_CardinalityType
      <4> QED
        BY <1>1, <3>1, <4>1, <4>3
    <3> QED
      BY <3>2, <3>3
  <2>6. Min(good) = m
    <3> HIDE DEF good
    <3>1. \A k \in good : m =< k
      BY <2>5
    <3>2. Min(good) \in good /\ Min(good) =< m
      BY <2>4, <3>1 DEF Min
    <3> QED
      BY <2>5, <3>2
  <2> QED
    BY <2>2, <2>3, <2>6
<1> QED
  BY <1>2, <1>3

(* For every interval, maximum, start and speculation width: checkpoints   *)
(* lie no closer than the stride and no further apart than the steps       *)
(* skipped, and token by token they are where decode_positions says, which *)
(* is what the session store takes for a whole generation.                 *)
THEOREM CheckpointsWellSpaced == Spec => []WellSpaced
<1>1. WInv => EvenlySpread /\ AgreesWithPositions
  BY EvenBySpread, AgreesBySpread
<1>2. EvenlySpread /\ AgreesWithPositions /\ DecodeTypeOK => WellSpaced
  BY DEF WellSpaced
<1> QED
  BY <1>1, <1>2, AlwaysWInv, TypeCorrect, PTL

------------------------------------------------------------------------------
(* ComputePass.                                                            *)

------------------------------------------------------------------------------
(* Facts about the tables. *)

(* LastBefore is the last of the places in front, or 0 when there is none. *)
LEMMA LastBeforeIsLast ==
    ASSUME NEW i \in Nat \ {0}, NEW places
    PROVE  /\ LastBefore(i, places) \in 0 .. i - 1
           /\ LastBefore(i, places) = 0 \/ LastBefore(i, places) \in places
           /\ \A g \in LastBefore(i, places) + 1 .. i - 1 : g \notin places
  <1> DEFINE T == {k \in 0 .. i - 1 : i - 1 - k = 0 \/ i - 1 - k \in places}
  <1>1. T \subseteq Nat /\ i - 1 \in T
    OBVIOUS
  <1>2. PICK k \in T : \A y \in T : k =< y
    BY <1>1, LeastNat
  <1>3. \A g \in (i - 1 - k) + 1 .. i - 1 : g \notin places
    <2> SUFFICES ASSUME NEW g \in (i - 1 - k) + 1 .. i - 1, g \in places
                 PROVE  FALSE
      OBVIOUS
    <2>1. i - 1 - g \in 0 .. i - 1 /\ i - 1 - (i - 1 - g) = g
      OBVIOUS
    <2>2. i - 1 - g \in T
      BY <2>1
    <2> QED BY <1>2, <2>1, <2>2
  <1>4. \E f \in 0 .. i - 1 : (f = 0 \/ f \in places) /\ \A g \in f + 1 .. i - 1 : g \notin places
    <2>1. i - 1 - k \in 0 .. i - 1 /\ (i - 1 - k = 0 \/ i - 1 - k \in places)
      OBVIOUS
    <2> QED BY <1>3, <2>1
  <1> QED BY <1>4 DEF LastBefore

(* Items and fences are places of the program, the writers of a region are *)
(* the items that write it, an item starts behind a place in front of it.  *)
LEMMA TableFacts ==
    ASSUME NEW p \in Encoded
    PROVE  /\ p.items \subseteq 1 .. Len(p.text)
           /\ Len(p.text) \in Nat
           /\ p.ends \subseteq Nat
           /\ DOMAIN p.fillers = RegionsOf(p.text)
           /\ \A r \in RegionsOf(p.text) :
                p.fillers[r] = {i \in p.items : r \in p.text[i].writes}
           /\ \A i \in p.items : p.start[i] \in 0 .. i - 1
           /\ \A i \in p.items : \A r \in p.text[i].reads :
                r \in RegionsOf(p.text) /\ p.latest[i][r] = LastBefore(i, p.fillers[r])
           /\ \A i \in p.items : \A r \in p.text[i].writes : r \in RegionsOf(p.text)
  <1>t. PICK text \in Programs : p = TableOf(text)
    BY DEF Encoded
  <1>i. p.text = text /\ p.items = ItemsOf(text)
    BY <1>t DEF TableOf
  <1>1. Len(p.text) \in Nat /\ DOMAIN p.text = 1 .. Len(p.text)
    BY <1>i, ProgramsAssumption
  <1>e. p.ends = EndsOf(p.text)
    BY <1>t DEF TableOf
  <1>f. p.fillers = FillersOf(p.text, p.items)
    BY <1>t DEF TableOf
  <1>s. p.start = [i \in p.items |-> StartOf(p.text, p.ends, i)]
    BY <1>t DEF TableOf
  <1>l. p.latest = [i \in p.items |->
                        [r \in p.text[i].reads |-> LastBefore(i, p.fillers[r])]]
    BY <1>t DEF TableOf
  <1>2. p.items \subseteq 1 .. Len(p.text)
    BY <1>1, <1>i DEF ItemsOf
  <1>3. p.ends \subseteq Nat
    BY <1>1, <1>e DEF EndsOf
  <1>4. DOMAIN p.fillers = RegionsOf(p.text)
    BY <1>f DEF FillersOf
  <1>5. \A r \in RegionsOf(p.text) :
            p.fillers[r] = {i \in p.items : r \in p.text[i].writes}
    BY <1>f DEF FillersOf
  <1>6. ASSUME NEW i \in p.items
        PROVE  p.start[i] \in 0 .. i - 1
    <2>1. i \in Nat \ {0}
      BY <1>1, <1>2
    <2>2. \A places : LastBefore(i, places) \in 0 .. i - 1
      BY <2>1, LastBeforeIsLast
    <2>3. p.start[i] = StartOf(p.text, p.ends, i)
      BY <1>s
    <2> QED BY <2>2, <2>3 DEF StartOf
  <1>7. \A i \in p.items : /\ p.text[i].reads \subseteq RegionsOf(p.text)
                            /\ p.text[i].writes \subseteq RegionsOf(p.text)
    BY <1>1, <1>2 DEF RegionsOf
  <1>8. \A i \in p.items : \A r \in p.text[i].reads :
            p.latest[i][r] = LastBefore(i, p.fillers[r])
    BY <1>l
  <1> QED BY <1>1, <1>2, <1>3, <1>4, <1>5, <1>6, <1>7, <1>8

------------------------------------------------------------------------------
(* The invariant: what has run is in front of the last fence passed or     *)
(* was let start behind it, and every region holds the result of the last  *)
(* of its writers that ran.                                                *)

Done(i) == i =< at \/ i \in ran

HoldsLast(r) ==
    /\ holds[r] = 0 \/ (holds[r] \in prog.fillers[r] /\ Done(holds[r]))
    /\ \A j \in prog.fillers[r] : Done(j) => j =< holds[r]

PassTypeOK ==
    /\ prog \in Encoded
    /\ at \in Nat
    /\ ran \subseteq prog.items
    /\ holds \in [RegionsOf(prog.text) -> Nat]

PassInv ==
    /\ PassTypeOK
    /\ \A i \in ran : at < i /\ prog.start[i] =< at
    /\ \A r \in RegionsOf(prog.text) : HoldsLast(r)

(* What is ordered cannot be overtaken: of two items that conflict, the    *)
(* later does not run, nor start, in front of the earlier.                 *)
LEMMA NotOvertaken ==
    ASSUME PassTypeOK, ConflictsOrdered(prog),
           NEW i \in prog.items, NEW j \in prog.items, i < j, Conflict(prog, i, j),
           prog.start[j] =< at
    PROVE  i =< at
  <1>1. i \in Nat /\ j \in Nat /\ prog.start[j] \in Nat /\ at \in Nat
    BY TableFacts DEF PassTypeOK
  <1>2. i \notin prog.start[j] + 1 .. j - 1
    BY DEF ConflictsOrdered
  <1> QED BY <1>1, <1>2

(* It holds at the start.                                                  *)
LEMMA InitInv == PassInit => PassInv
  <1> SUFFICES ASSUME PassInit PROVE PassInv
    OBVIOUS
  <1>1. PassTypeOK
    BY DEF PassInit, PassTypeOK
  <1>2. \A r \in RegionsOf(prog.text) : HoldsLast(r)
    <2> SUFFICES ASSUME NEW r \in RegionsOf(prog.text)
                 PROVE  HoldsLast(r)
      OBVIOUS
    <2>1. holds[r] = 0
      BY DEF PassInit
    <2>2. prog.fillers[r] \subseteq prog.items
      BY <1>1, TableFacts DEF PassTypeOK
    <2>3. \A j \in prog.fillers[r] : j \in Nat /\ j >= 1
      BY <1>1, <2>2, TableFacts DEF PassTypeOK
    <2> QED BY <2>1, <2>3 DEF HoldsLast, Done, PassInit
  <1> QED BY <1>1, <1>2 DEF PassInv, PassInit

(* A dispatch or a wait keeps it: no later writer of a region has run.     *)
LEMMA CompleteKeeps ==
    ASSUME PassInv, ConflictsOrdered(prog), NEW i \in prog.items, Complete(i)
    PROVE  PassInv'
  <1>1. PassTypeOK /\ prog' = prog /\ at' = at /\ ran' = ran \cup {i}
    BY DEF PassInv, Complete
  <1>2. i \in Nat /\ at < i /\ i \notin ran /\ prog.start[i] =< at
    BY <1>1, TableFacts DEF Complete, MayStart, PassTypeOK
  <1>3. holds' = [r \in RegionsOf(prog.text) |->
                     IF r \in prog.text[i].writes THEN i ELSE holds[r]]
    BY <1>1 DEF Complete, PassTypeOK
  <1>4. PassTypeOK'
    BY <1>1, <1>2, <1>3 DEF PassTypeOK
  <1>5. \A j \in ran' : at' < j /\ prog'.start[j] =< at'
    BY <1>1, <1>2 DEF PassInv
  <1>6. ASSUME NEW r \in RegionsOf(prog.text)
        PROVE  HoldsLast(r)'
    <2>1. HoldsLast(r)
      BY DEF PassInv
    <2>2. prog.fillers[r] = {j \in prog.items : r \in prog.text[j].writes}
      BY <1>1, TableFacts DEF PassTypeOK
    <2>3. \A j \in prog.fillers[r] : j \in Nat
      BY <1>1, <2>2, TableFacts DEF PassTypeOK
    <2>4. CASE r \in prog.text[i].writes
      <3>1. holds'[r] = i /\ i \in prog.fillers[r]
        BY <1>3, <2>2, <2>4
      <3>2. ASSUME NEW j \in prog.fillers[r], Done(j), i < j
            PROVE  FALSE
        <4>1. j \in prog.items /\ r \in prog.text[j].writes
          BY <2>2
        <4>2. Conflict(prog, i, j)
          BY <2>4, <4>1 DEF Conflict
        <4>3. j \in ran
          BY <1>1, <1>2, <2>3, <3>2 DEF Done, PassTypeOK
        <4>4. prog.start[j] =< at
          BY <4>3 DEF PassInv
        <4>5. i =< at
          BY <1>1, <3>2, <4>1, <4>2, <4>4, NotOvertaken
        <4> QED BY <1>1, <1>2, <4>5 DEF PassTypeOK
      <3>3. \A j \in prog.fillers[r] : Done(j)' => j =< i
        BY <1>1, <1>2, <2>3, <3>2 DEF Done
      <3> QED BY <1>1, <3>1, <3>3 DEF HoldsLast, Done
    <2>5. CASE r \notin prog.text[i].writes
      <3>1. holds'[r] = holds[r] /\ i \notin prog.fillers[r]
        BY <1>3, <2>2, <2>5
      <3>2. \A j \in prog.fillers[r] : Done(j)' <=> Done(j)
        BY <1>1, <3>1 DEF Done
      <3> QED BY <1>1, <2>1, <3>1, <3>2 DEF HoldsLast, Done
    <2> QED BY <2>4, <2>5
  <1> QED BY <1>1, <1>4, <1>5, <1>6 DEF PassInv

(* A fence keeps it: nothing runs, and what has run stays run.             *)
LEMMA FenceKeeps ==
    ASSUME PassInv, NEW f \in prog.ends, PassFence(f)
    PROVE  PassInv'
  <1>1. /\ PassTypeOK /\ prog' = prog /\ holds' = holds
        /\ at' = f /\ at < f /\ ran' = {j \in ran : j > f}
        /\ \A j \in at + 1 .. f : j \in prog.items => j \in ran
    BY DEF PassInv, PassFence
  <1>2. f \in Nat /\ at \in Nat
    BY <1>1, TableFacts DEF PassTypeOK
  <1>3. PassTypeOK'
    BY <1>1, <1>2 DEF PassTypeOK
  <1>4. \A j \in prog.items : j \in Nat /\ prog.start[j] \in Nat
    BY <1>1, TableFacts DEF PassTypeOK
  <1>5. \A j \in ran' : at' < j /\ prog'.start[j] =< at'
    BY <1>1, <1>2, <1>4 DEF PassInv, PassTypeOK
  <1>6. \A j \in prog.items : Done(j)' <=> Done(j)
    BY <1>1, <1>2, <1>4 DEF Done, PassTypeOK
  <1>7. ASSUME NEW r \in RegionsOf(prog.text)
        PROVE  HoldsLast(r)'
    <2>1. prog.fillers[r] \subseteq prog.items
      BY <1>1, TableFacts DEF PassTypeOK
    <2> QED BY <1>1, <1>6, <2>1 DEF HoldsLast, PassInv, Done
  <1> QED BY <1>1, <1>3, <1>5, <1>7 DEF PassInv

------------------------------------------------------------------------------
(* What it gives. *)

(* What a region holds is the last of the writers in front of a place all  *)
(* of them have run to and none behind it has.                             *)
LEMMA HoldsLatest ==
    ASSUME PassInv, NEW r \in RegionsOf(prog.text), NEW i \in Nat \ {0},
           \A j \in prog.fillers[r] : Done(j) <=> j < i
    PROVE  holds[r] = LastBefore(i, prog.fillers[r])
  <1> DEFINE last == LastBefore(i, prog.fillers[r])
  <1>1. /\ last \in 0 .. i - 1
        /\ last = 0 \/ last \in prog.fillers[r]
        /\ \A g \in last + 1 .. i - 1 : g \notin prog.fillers[r]
    BY LastBeforeIsLast
  <1> HIDE DEF last
  <1>2. HoldsLast(r) /\ holds[r] \in Nat
    BY DEF PassInv, PassTypeOK
  <1>3. \A j \in prog.fillers[r] : j \in Nat /\ j >= 1
    BY TableFacts DEF PassInv, PassTypeOK
  <1>4. last =< holds[r]
    BY <1>1, <1>2 DEF HoldsLast
  <1>5. holds[r] =< last
    BY <1>1, <1>2, <1>3 DEF HoldsLast
  <1> QED BY <1>1, <1>2, <1>4, <1>5 DEF last

(* An item that may start finds the results of its own order.              *)
LEMMA InvReads == PassInv /\ WellEncoded(prog) => ReadsInOrder
  <1> SUFFICES ASSUME PassInv, WellEncoded(prog),
                      NEW i \in prog.items, MayStart(i), NEW r \in prog.text[i].reads
               PROVE  holds[r] = prog.latest[i][r]
    BY DEF ReadsInOrder
  <1>1. PassTypeOK /\ ConflictsOrdered(prog)
    BY DEF PassInv, WellEncoded
  <1>2. /\ i \in Nat \ {0} /\ at < i /\ i \notin ran /\ prog.start[i] =< at
        /\ r \in RegionsOf(prog.text)
        /\ prog.latest[i][r] = LastBefore(i, prog.fillers[r])
    BY <1>1, TableFacts DEF MayStart, PassTypeOK
  <1>3. ASSUME NEW j \in prog.fillers[r]
        PROVE  Done(j) <=> j < i
    <2>1. j \in prog.items /\ j \in Nat /\ r \in prog.text[j].writes
      BY <1>1, <1>2, TableFacts DEF PassTypeOK
    <2>2. r \in prog.text[i].reads
      OBVIOUS
    <2>3. Conflict(prog, i, j) /\ Conflict(prog, j, i)
      BY <2>1, <2>2 DEF Conflict
    <2>4. ASSUME j < i PROVE Done(j)
      BY <1>1, <1>2, <2>1, <2>3, <2>4, NotOvertaken DEF Done
    <2>5. ASSUME Done(j), ~(j < i) PROVE FALSE
      <3>1. j \in ran /\ i < j
        BY <1>1, <1>2, <2>1, <2>5 DEF Done, PassTypeOK
      <3>2. prog.start[j] =< at
        BY <3>1 DEF PassInv
      <3>3. i =< at
        BY <1>1, <2>1, <2>3, <3>1, <3>2, NotOvertaken
      <3> QED BY <1>1, <1>2, <3>3 DEF PassTypeOK
    <2> QED BY <2>4, <2>5
  <1> QED BY <1>2, <1>3, HoldsLatest

(* What a program leaves is what its own order leaves.                     *)
LEMMA InvEnds == PassInv => EndsInOrder
  <1> SUFFICES ASSUME PassInv, at > Len(prog.text), NEW r \in DOMAIN holds
               PROVE  holds[r] = LastBefore(at, prog.fillers[r])
    BY DEF EndsInOrder
  <1>1. PassTypeOK /\ r \in RegionsOf(prog.text)
    BY DEF PassInv, PassTypeOK
  <1>2. at \in Nat \ {0} /\ Len(prog.text) \in Nat /\ Len(prog.text) < at
    BY <1>1, TableFacts DEF PassTypeOK
  <1>3. \A j \in prog.fillers[r] : j \in Nat /\ j < at
    BY <1>1, <1>2, TableFacts DEF PassTypeOK
  <1> QED BY <1>1, <1>2, <1>3, HoldsLatest DEF Done

(* Whatever passes are encoded: when conflicting items are ordered and     *)
(* scratch is filled before it is read, every interleaving of the GPU and  *)
(* the host gives every read the result its own order gives it, and leaves *)
(* what that order leaves (level_barrier, begin_concurrent).               *)
THEOREM PassesAreSound ==
    ASSUME \A p \in Encoded : WellEncoded(p)
    PROVE  PassSpec => []PassSound
  <1>1. PassInit => PassInv
    BY InitInv
  <1>2. PassInv /\ [PassNext]_passVars => PassInv'
    <2> SUFFICES ASSUME PassInv, [PassNext]_passVars
                 PROVE  PassInv'
      OBVIOUS
    <2>1. ConflictsOrdered(prog)
      BY DEF PassInv, PassTypeOK, WellEncoded
    <2>2. CASE \E i \in prog.items : Complete(i)
      BY <2>1, <2>2, CompleteKeeps
    <2>3. CASE \E f \in prog.ends : PassFence(f)
      BY <2>3, FenceKeeps
    <2>4. CASE UNCHANGED passVars
      BY <2>4 DEF passVars, PassInv, PassTypeOK, HoldsLast, Done
    <2> QED BY <2>2, <2>3, <2>4 DEF PassNext
  <1>3. PassInv => PassSound
    <2> SUFFICES ASSUME PassInv
                 PROVE  PassSound
      OBVIOUS
    <2>1. WellEncoded(prog)
      BY DEF PassInv, PassTypeOK
    <2>2. ReadsInOrder /\ EndsInOrder
      BY <2>1, InvReads, InvEnds
    <2>3. NothingStale
      BY <2>1, <2>2 DEF NothingStale, ReadsInOrder, WellEncoded, FilledFirst
    <2> QED BY <2>1, <2>2, <2>3 DEF PassSound
  <1> QED BY <1>1, <1>2, <1>3, PTL DEF PassSpec
------------------------------------------------------------------------------
(* ThinkingControl.                                                        *)

(* The greatest of a set that holds its bound. *)
LEMMA MaxIsBound ==
    ASSUME NEW m \in Nat, NEW u \in SUBSET (1 .. m), m \in u
    PROVE  Max(u) = m
<1>1. \A x \in u : x \in Nat /\ x =< m
  OBVIOUS
<1>2. m \in u /\ (\A y \in u : m >= y) /\ \A x \in u : (\A y \in u : x >= y) => x = m
  BY <1>1
<1> QED BY <1>2 DEF Max

(* feed goes through a state behind each character. *)
LEMMA FeedSteps ==
    ASSUME NEW s, NEW text \in Seq(Characters)
    PROVE  \E f : /\ f[0] = s /\ f[Len(text)] = feed(s, text)
                  /\ \A k \in 0 .. Len(text) - 1 : f[k + 1] = push(f[k], text[k + 1])
<1> DEFINE R(D, it) == it = [u \in SUBSET D |->
                               IF u = {} THEN s ELSE push(it[u \ {Max(u)}], text[Max(u)])]
           P(n, it) == R(1 .. n, it)
           N == Len(text)
           c == CHOOSE it : R(DOMAIN text, it)
           F == {n \in Nat : ~ \E it : P(n, it)}
<1>1. feed(s, text) = c[1 .. N]
  <2>1. feed(s, text) = c[DOMAIN text]
    BY DEF feed, FoldLeft, MapThenFoldSet
  <2> QED BY <2>1
<1>2. ASSUME F # {} PROVE FALSE
  <2> HIDE DEF F
  <2>1. F \subseteq Nat
    BY DEF F
  <2>2. PICK m \in F : \A y \in F : m =< y
    BY <1>2, <2>1, LeastNat
  <2>3. m \in Nat /\ ~ \E it : P(m, it)
    BY <2>2 DEF F
  <2>4. CASE m = 0
    <3> DEFINE g == [u \in SUBSET (1 .. 0) |-> s]
    <3>1. P(0, g)
      <4>1. SUBSET (1 .. 0) = {{}}
        OBVIOUS
      <4> QED BY <4>1
    <3> QED BY <2>3, <2>4, <3>1
  <2>5. CASE m > 0
    <3>1. m - 1 \in Nat /\ m - 1 \notin F
      BY <2>2, <2>3, <2>5
    <3>2. PICK g : P(m - 1, g)
      BY <3>1 DEF F
    <3> DEFINE h == [u \in SUBSET (1 .. m) |->
                       IF m \in u THEN push(g[u \ {m}], text[m]) ELSE g[u]]
    <3>3. ASSUME NEW u \in SUBSET (1 .. m)
          PROVE  h[u] = IF u = {} THEN s ELSE push(h[u \ {Max(u)}], text[Max(u)])
      <4>1. CASE m \in u
        <5>1. Max(u) = m
          BY <2>3, <3>3, <4>1, MaxIsBound
        <5>2. u \ {m} \in SUBSET (1 .. m) /\ m \notin u \ {m}
          BY <3>3
        <5>3. h[u \ {m}] = g[u \ {m}] /\ h[u] = push(g[u \ {m}], text[m])
          BY <4>1, <5>2
        <5> HIDE DEF h
        <5> QED BY <4>1, <5>1, <5>3
      <4>2. CASE m \notin u
        <5>1. u \in SUBSET (1 .. m - 1)
          BY <2>3, <3>3, <4>2
        <5>0. u \ {Max(u)} \in SUBSET (1 .. m) /\ m \notin u \ {Max(u)}
          BY <3>3, <4>2
        <5>2. h[u] = g[u] /\ h[u \ {Max(u)}] = g[u \ {Max(u)}]
          BY <4>2, <5>0, <5>1, <3>3
        <5>3. g[u] = IF u = {} THEN s ELSE push(g[u \ {Max(u)}], text[Max(u)])
          BY <3>2, <5>1
        <5> HIDE DEF h
        <5> QED BY <5>2, <5>3
      <4> QED BY <4>1, <4>2
    <3>4. h = [u \in SUBSET (1 .. m) |-> h[u]]
      OBVIOUS
    <3> HIDE DEF h
    <3>5. P(m, h)
      BY <3>3, <3>4
    <3> QED BY <2>3, <3>5
  <2> QED BY <2>3, <2>4, <2>5
<1>3. N \in Nat
  OBVIOUS
<1>4. P(N, c)
  <2>1. PICK it : P(N, it)
    BY <1>2, <1>3
  <2>2. DOMAIN text = 1 .. N
    OBVIOUS
  <2> HIDE DEF R
  <2> QED BY <2>1, <2>2
<1> DEFINE f == [k \in 0 .. N |-> c[1 .. k]]
<1> HIDE DEF c
<1>5. f[0] = s /\ f[N] = feed(s, text)
  <2>1. 1 .. 0 = {} /\ {} \in SUBSET (1 .. N) /\ 0 \in 0 .. N /\ N \in 0 .. N
    BY <1>3
  <2>2. c[{}] = s
    BY <1>4, <2>1
  <2> QED BY <1>1, <2>1, <2>2
<1>6. ASSUME NEW k \in 0 .. N - 1 PROVE f[k + 1] = push(f[k], text[k + 1])
  <2>1. k \in 0 .. N /\ k + 1 \in 0 .. N /\ k + 1 \in Nat /\ k \in Nat
    BY <1>3, <1>6
  <2>2. 1 .. k + 1 \in SUBSET (1 .. N) /\ k + 1 \in 1 .. k + 1 /\ (1 .. k + 1) \ {k + 1} = 1 .. k
    BY <1>3, <2>1
  <2>3. Max(1 .. k + 1) = k + 1
    BY <2>1, <2>2, MaxIsBound
  <2>4. c[1 .. k + 1] = push(c[1 .. k], text[k + 1])
    BY <1>4, <2>2, <2>3
  <2> QED BY <2>1, <2>4
<1> QED
  <2> HIDE DEF f
  <2> QED BY <1>5, <1>6


(* Reading by lines goes through a state behind each character. *)
LEMMA ReadSteps ==
    ASSUME NEW s, NEW text \in Seq(Characters)
    PROVE  \E f : /\ f[0] = s /\ f[Len(text)] = ReadFrom(s, text)
                  /\ \A k \in 0 .. Len(text) - 1 : f[k + 1] = ReadChar(f[k], text[k + 1])
<1> DEFINE R(D, it) == it = [u \in SUBSET D |->
                               IF u = {} THEN s ELSE ReadChar(it[u \ {Max(u)}], text[Max(u)])]
           P(n, it) == R(1 .. n, it)
           N == Len(text)
           c == CHOOSE it : R(DOMAIN text, it)
           F == {n \in Nat : ~ \E it : P(n, it)}
<1>1. ReadFrom(s, text) = c[1 .. N]
  <2>1. ReadFrom(s, text) = c[DOMAIN text]
    BY DEF ReadFrom, FoldLeft, MapThenFoldSet
  <2> QED BY <2>1
<1>2. ASSUME F # {} PROVE FALSE
  <2> HIDE DEF F
  <2>1. F \subseteq Nat
    BY DEF F
  <2>2. PICK m \in F : \A y \in F : m =< y
    BY <1>2, <2>1, LeastNat
  <2>3. m \in Nat /\ ~ \E it : P(m, it)
    BY <2>2 DEF F
  <2>4. CASE m = 0
    <3> DEFINE g == [u \in SUBSET (1 .. 0) |-> s]
    <3>1. P(0, g)
      <4>1. SUBSET (1 .. 0) = {{}}
        OBVIOUS
      <4> QED BY <4>1
    <3> QED BY <2>3, <2>4, <3>1
  <2>5. CASE m > 0
    <3>1. m - 1 \in Nat /\ m - 1 \notin F
      BY <2>2, <2>3, <2>5
    <3>2. PICK g : P(m - 1, g)
      BY <3>1 DEF F
    <3> DEFINE h == [u \in SUBSET (1 .. m) |->
                       IF m \in u THEN ReadChar(g[u \ {m}], text[m]) ELSE g[u]]
    <3>3. ASSUME NEW u \in SUBSET (1 .. m)
          PROVE  h[u] = IF u = {} THEN s ELSE ReadChar(h[u \ {Max(u)}], text[Max(u)])
      <4>1. CASE m \in u
        <5>1. Max(u) = m
          BY <2>3, <3>3, <4>1, MaxIsBound
        <5>2. u \ {m} \in SUBSET (1 .. m) /\ m \notin u \ {m}
          BY <3>3
        <5>3. h[u \ {m}] = g[u \ {m}] /\ h[u] = ReadChar(g[u \ {m}], text[m])
          BY <4>1, <5>2
        <5> HIDE DEF h
        <5> QED BY <4>1, <5>1, <5>3
      <4>2. CASE m \notin u
        <5>1. u \in SUBSET (1 .. m - 1)
          BY <2>3, <3>3, <4>2
        <5>0. u \ {Max(u)} \in SUBSET (1 .. m) /\ m \notin u \ {Max(u)}
          BY <3>3, <4>2
        <5>2. h[u] = g[u] /\ h[u \ {Max(u)}] = g[u \ {Max(u)}]
          BY <4>2, <5>0, <5>1, <3>3
        <5>3. g[u] = IF u = {} THEN s ELSE ReadChar(g[u \ {Max(u)}], text[Max(u)])
          BY <3>2, <5>1
        <5> HIDE DEF h
        <5> QED BY <5>2, <5>3
      <4> QED BY <4>1, <4>2
    <3>4. h = [u \in SUBSET (1 .. m) |-> h[u]]
      OBVIOUS
    <3> HIDE DEF h
    <3>5. P(m, h)
      BY <3>3, <3>4
    <3> QED BY <2>3, <3>5
  <2> QED BY <2>3, <2>4, <2>5
<1>3. N \in Nat
  OBVIOUS
<1>4. P(N, c)
  <2>1. PICK it : P(N, it)
    BY <1>2, <1>3
  <2>2. DOMAIN text = 1 .. N
    OBVIOUS
  <2> HIDE DEF R
  <2> QED BY <2>1, <2>2
<1> DEFINE f == [k \in 0 .. N |-> c[1 .. k]]
<1> HIDE DEF c
<1>5. f[0] = s /\ f[N] = ReadFrom(s, text)
  <2>1. 1 .. 0 = {} /\ {} \in SUBSET (1 .. N) /\ 0 \in 0 .. N /\ N \in 0 .. N
    BY <1>3
  <2>2. c[{}] = s
    BY <1>4, <2>1
  <2> QED BY <1>1, <2>1, <2>2
<1>6. ASSUME NEW k \in 0 .. N - 1 PROVE f[k + 1] = ReadChar(f[k], text[k + 1])
  <2>1. k \in 0 .. N /\ k + 1 \in 0 .. N /\ k + 1 \in Nat /\ k \in Nat
    BY <1>3, <1>6
  <2>2. 1 .. k + 1 \in SUBSET (1 .. N) /\ k + 1 \in 1 .. k + 1 /\ (1 .. k + 1) \ {k + 1} = 1 .. k
    BY <1>3, <2>1
  <2>3. Max(1 .. k + 1) = k + 1
    BY <2>1, <2>2, MaxIsBound
  <2>4. c[1 .. k + 1] = ReadChar(c[1 .. k], text[k + 1])
    BY <1>4, <2>2, <2>3
  <2> QED BY <2>1, <2>4
<1> QED
  <2> HIDE DEF f
  <2> QED BY <1>5, <1>6

(* A line that starts with b blanks and n times a character.               *)
BeginsWith(l, b, ch, n) ==
    /\ b + n =< Len(l)
    /\ \A i \in 1 .. b : l[i] = "blank"
    /\ \A i \in b + 1 .. b + n : l[i] = ch

(* What a run of n fence characters behind b blanks is by lines.           *)
LEMMA RunShape ==
    ASSUME NEW l \in Seq(Characters), NEW b \in Nat, NEW n \in Nat, n > 0,
           NEW ch \in {"tick", "tilde"}, BeginsWith(l, b, ch, n),
           b + n < Len(l) => l[b + n + 1] # ch
    PROVE  BlanksOf(l) = b /\ RunOf(l) = n
<1>0. Len(l) \in Nat /\ b + 1 \in b + 1 .. b + n /\ l[b + 1] = ch /\ b < Len(l) /\ l[b + 1] # "blank"
  BY DEF BeginsWith
<1>1. /\ b \in 0 .. Len(l) /\ (\A i \in 1 .. b : l[i] = "blank") /\ (b < Len(l) => l[b + 1] # "blank")
      /\ \A m \in 0 .. Len(l) :
            (\A i \in 1 .. m : l[i] = "blank") /\ (m < Len(l) => l[m + 1] # "blank") => m = b
  <2>1. ASSUME NEW m \in 0 .. Len(l), \A i \in 1 .. m : l[i] = "blank",
               m < Len(l) => l[m + 1] # "blank"
        PROVE  m = b
    <3>1. CASE m < b
      <4>1. m + 1 \in 1 .. b /\ m < Len(l)
        BY <1>0, <3>1
      <4> QED BY <2>1, <4>1 DEF BeginsWith
    <3>2. CASE m > b
      <4>1. b + 1 \in 1 .. m
        BY <1>0, <3>2
      <4> QED BY <1>0, <2>1, <4>1
    <3> QED BY <3>1, <3>2
  <2> QED BY <1>0, <2>1 DEF BeginsWith
<1>2. BlanksOf(l) = b
  BY <1>1 DEF BlanksOf
<1>3. /\ n \in 0 .. Len(l) - b
      /\ \A i \in b + 1 .. b + n : l[i] = l[b + 1] /\ l[i] \in {"tick", "tilde"}
      /\ b + n < Len(l) => l[b + n + 1] # l[b + 1] \/ l[b + 1] \notin {"tick", "tilde"}
      /\ \A m \in 0 .. Len(l) - b :
            /\ \A i \in b + 1 .. b + m : l[i] = l[b + 1] /\ l[i] \in {"tick", "tilde"}
            /\ b + m < Len(l) => l[b + m + 1] # l[b + 1] \/ l[b + 1] \notin {"tick", "tilde"}
            => m = n
  <2>1. ASSUME NEW m \in 0 .. Len(l) - b,
               \A i \in b + 1 .. b + m : l[i] = l[b + 1] /\ l[i] \in {"tick", "tilde"},
               b + m < Len(l) => l[b + m + 1] # l[b + 1] \/ l[b + 1] \notin {"tick", "tilde"}
        PROVE  m = n
    <3>1. CASE m < n
      <4>1. b + m + 1 \in b + 1 .. b + n /\ b + m < Len(l)
        BY <3>1 DEF BeginsWith
      <4> QED BY <1>0, <2>1, <4>1 DEF BeginsWith
    <3>2. CASE m > n
      <4>1. b + n + 1 \in b + 1 .. b + m /\ b + n < Len(l)
        BY <1>0, <3>2
      <4> QED BY <1>0, <2>1, <4>1
    <3> QED BY <3>1, <3>2
  <2> QED BY <1>0, <2>1 DEF BeginsWith
<1>4. RunOf(l) = n
  BY <1>2, <1>3 DEF RunOf
<1> QED BY <1>2, <1>4

(* Blanks behind which no fence character comes.                           *)
LEMMA NoRunShape ==
    ASSUME NEW l \in Seq(Characters), NEW b \in 0 .. Len(l), \A i \in 1 .. b : l[i] = "blank",
           b < Len(l) => l[b + 1] \notin {"blank", "tick", "tilde"}
    PROVE  ~IsFenceLine(l)
<1>1. /\ b \in 0 .. Len(l) /\ (\A i \in 1 .. b : l[i] = "blank") /\ (b < Len(l) => l[b + 1] # "blank")
      /\ \A m \in 0 .. Len(l) :
            (\A i \in 1 .. m : l[i] = "blank") /\ (m < Len(l) => l[m + 1] # "blank") => m = b
  <2>1. ASSUME NEW m \in 0 .. Len(l), \A i \in 1 .. m : l[i] = "blank",
               m < Len(l) => l[m + 1] # "blank"
        PROVE  m = b
    <3>1. CASE m < b
      <4>1. m + 1 \in 1 .. b /\ m < Len(l)
        BY <3>1
      <4> QED BY <2>1, <4>1
    <3>2. CASE m > b
      <4>1. b + 1 \in 1 .. m /\ b < Len(l)
        BY <3>2
      <4> QED BY <2>1, <4>1
    <3> QED BY <3>1, <3>2
  <2> QED BY <2>1
<1>2. BlanksOf(l) = b
  BY <1>1 DEF BlanksOf
<1>3. /\ 0 \in 0 .. Len(l) - b
      /\ \A i \in b + 1 .. b + 0 : l[i] = l[b + 1] /\ l[i] \in {"tick", "tilde"}
      /\ b + 0 < Len(l) => l[b + 0 + 1] # l[b + 1] \/ l[b + 1] \notin {"tick", "tilde"}
      /\ \A m \in 0 .. Len(l) - b :
            /\ \A i \in b + 1 .. b + m : l[i] = l[b + 1] /\ l[i] \in {"tick", "tilde"}
            /\ b + m < Len(l) => l[b + m + 1] # l[b + 1] \/ l[b + 1] \notin {"tick", "tilde"}
            => m = 0
  <2>1. ASSUME NEW m \in 0 .. Len(l) - b, m > 0,
               \A i \in b + 1 .. b + m : l[i] = l[b + 1] /\ l[i] \in {"tick", "tilde"}
        PROVE  FALSE
    <3>1. b + 1 \in b + 1 .. b + m /\ b < Len(l)
      BY <2>1
    <3> QED BY <2>1, <3>1
  <2> QED BY <2>1
<1>4. RunOf(l) = 0
  BY <1>2, <1>3 DEF RunOf
<1> QED BY <1>4 DEF IsFenceLine

(* Four blanks are not an indent.                                          *)
LEMMA DeepShape ==
    ASSUME NEW l \in Seq(Characters), Len(l) > 3, \A i \in 1 .. 4 : l[i] = "blank"
    PROVE  ~IsFenceLine(l)
<1> DEFINE Fits(m) == (\A i \in 1 .. m : l[i] = "blank") /\ (m < Len(l) => l[m + 1] # "blank")
<1>0. Len(l) \in Nat
  OBVIOUS
<1>1. \E m \in 0 .. Len(l) : Fits(m)
  <2> DEFINE T == {m \in Nat : m < Len(l) /\ l[m + 1] # "blank"}
  <2>1. CASE T = {}
    <3>1. ASSUME NEW i \in 1 .. Len(l) PROVE l[i] = "blank"
      <4>1. i - 1 \in Nat /\ i - 1 < Len(l) /\ (i - 1) + 1 = i
        BY <1>0
      <4> QED BY <2>1, <4>1
    <3> QED BY <1>0, <3>1
  <2>2. CASE T # {}
    <3> HIDE DEF T
    <3>1. PICK m \in T : \A y \in T : m =< y
      <4>1. T \subseteq Nat
        BY DEF T
      <4> QED BY <2>2, <4>1, LeastNat
    <3>2. m \in Nat /\ m < Len(l) /\ l[m + 1] # "blank"
      BY DEF T
    <3>3. ASSUME NEW i \in 1 .. m PROVE l[i] = "blank"
      <4>1. i - 1 \in Nat /\ i - 1 < m /\ i - 1 < Len(l) /\ (i - 1) + 1 = i
        BY <1>0, <3>2
      <4>2. i - 1 \notin T
        BY <3>1, <4>1, <3>2
      <4> QED BY <4>1, <4>2 DEF T
    <3> QED BY <1>0, <3>2, <3>3
  <2> QED BY <2>1, <2>2
<1>2. BlanksOf(l) \in 0 .. Len(l) /\ Fits(BlanksOf(l))
  BY <1>1 DEF BlanksOf
<1>3. BlanksOf(l) > 3
  <2> SUFFICES ASSUME BlanksOf(l) =< 3 PROVE FALSE
    BY <1>2
  <2>1. BlanksOf(l) < Len(l) /\ BlanksOf(l) + 1 \in 1 .. 4
    BY <1>0, <1>2
  <2> QED BY <1>2, <2>1
<1> QED BY <1>2, <1>3 DEF IsFenceLine

(* What `lead` tells of the line read so far.                              *)
Plain(l) ==
    \/ Len(l) > 3 /\ \A i \in 1 .. 4 : l[i] = "blank"
    \/ \E b \in 0 .. 3 : /\ b < Len(l) /\ \A i \in 1 .. b : l[i] = "blank"
                         /\ l[b + 1] \notin {"blank", "tick", "tilde"}
    \/ \E b \in 0 .. 3, ch \in {"tick", "tilde"}, n \in 1 .. 2 :
          BeginsWith(l, b, ch, n) /\ b + n < Len(l) /\ l[b + n + 1] # ch

LeadIndent(lead, l) ==
    \E n \in 0 .. 3 : lead = Indent(n) /\ Len(l) = n /\ \A i \in 1 .. n : l[i] = "blank"
LeadRun(lead, l) ==
    \E b \in 0 .. 3, ch \in {"tick", "tilde"}, n \in Nat :
       n > 0 /\ lead = Run(ch, n) /\ BeginsWith(l, b, ch, n) /\ Len(l) = b + n
LeadAfter(lead, l) ==
    \E b \in 0 .. 3, ch \in {"tick", "tilde"}, n \in Nat, blank \in BOOLEAN, tick \in BOOLEAN :
       /\ n > 2 /\ lead = After([ch |-> ch, len |-> n], blank, tick)
       /\ BeginsWith(l, b, ch, n) /\ b + n < Len(l) /\ l[b + n + 1] # ch
       /\ blank <=> \A i \in b + n + 1 .. Len(l) : l[i] = "blank"
       /\ tick <=> \E i \in b + n + 1 .. Len(l) : l[i] = "tick"
LeadText(lead, l) == lead = TextLine /\ Plain(l)

LeadIs(lead, l) ==
    LeadIndent(lead, l) \/ LeadRun(lead, l) \/ LeadAfter(lead, l) \/ LeadText(lead, l)

LEMMA PlainShape ==
    ASSUME NEW l \in Seq(Characters), Plain(l)
    PROVE  ~IsFenceLine(l)
<1>0. Len(l) \in Nat
  OBVIOUS
<1>1. CASE Len(l) > 3 /\ \A i \in 1 .. 4 : l[i] = "blank"
  BY <1>1, DeepShape
<1>2. ASSUME NEW b \in 0 .. 3, b < Len(l), \A i \in 1 .. b : l[i] = "blank",
             l[b + 1] \notin {"blank", "tick", "tilde"}
      PROVE  ~IsFenceLine(l)
  <2>1. b \in 0 .. Len(l)
    BY <1>0, <1>2
  <2> QED BY <1>2, <2>1, NoRunShape
<1>3. ASSUME NEW b \in 0 .. 3, NEW ch \in {"tick", "tilde"}, NEW n \in 1 .. 2,
             BeginsWith(l, b, ch, n), b + n < Len(l), l[b + n + 1] # ch
      PROVE  ~IsFenceLine(l)
  <2>1. RunOf(l) = n
    <3>1. b \in Nat /\ n \in Nat /\ n > 0
      OBVIOUS
    <3> QED BY <1>3, <3>1, RunShape
  <2> QED BY <2>1 DEF IsFenceLine
<1> QED BY <1>1, <1>2, <1>3 DEF Plain

(* Where no run of three starts the line, nothing opens and nothing closes.*)
LEMMA NoFenceLine ==
    ASSUME NEW l, NEW before, ~IsFenceLine(l)
    PROVE  FenceBehind(before, l) = before
BY DEF FenceBehind

(* A fence that is open. *)
OpenFences == [ch : {"tick", "tilde"}, len : Nat \ {0, 1, 2}]

LEMMA FencesDiffer == NoFence \notin OpenFences
BY DEF NoFence, OpenFences

LEMMA LeadIndentTells ==
    ASSUME NEW l \in Seq(Characters), NEW lead, LeadIndent(lead, l), NEW fence \in OpenFences
    PROVE  /\ opens(lead) = FenceBehind(NoFence, l)
           /\ ~closes(lead, fence) /\ FenceBehind(fence, l) = fence
<1>1. PICK n \in 0 .. 3 : lead = Indent(n) /\ Len(l) = n /\ \A i \in 1 .. n : l[i] = "blank"
  BY DEF LeadIndent
<1>2. n \in 0 .. Len(l)
  BY <1>1
<1>3. ~IsFenceLine(l)
  BY <1>1, <1>2, NoRunShape
<1>4. lead.at = "indent"
  BY <1>1 DEF Indent
<1> QED BY <1>3, <1>4, NoFenceLine DEF opens, closes

LEMMA LeadTextTells ==
    ASSUME NEW l \in Seq(Characters), NEW lead, LeadText(lead, l), NEW fence \in OpenFences
    PROVE  /\ opens(lead) = FenceBehind(NoFence, l)
           /\ ~closes(lead, fence) /\ FenceBehind(fence, l) = fence
<1>3. ~IsFenceLine(l)
  BY PlainShape DEF LeadText
<1>4. lead.at = "text"
  BY DEF LeadText, TextLine
<1> QED BY <1>3, <1>4, NoFenceLine DEF opens, closes

LEMMA LeadRunTells ==
    ASSUME NEW l \in Seq(Characters), NEW lead, LeadRun(lead, l), NEW fence \in OpenFences
    PROVE  /\ opens(lead) = FenceBehind(NoFence, l)
           /\ closes(lead, fence) => FenceBehind(fence, l) = NoFence
           /\ ~closes(lead, fence) => FenceBehind(fence, l) = fence
<1>1. PICK b \in 0 .. 3, ch \in {"tick", "tilde"}, n \in Nat :
         n > 0 /\ lead = Run(ch, n) /\ BeginsWith(l, b, ch, n) /\ Len(l) = b + n
  BY DEF LeadRun
<1>2. BlanksOf(l) = b /\ RunOf(l) = n
  <2>1. b \in Nat /\ ~(b + n < Len(l))
    BY <1>1
  <2> QED BY <1>1, <2>1, RunShape
<1>3. l[b + 1] = ch
  BY <1>1 DEF BeginsWith
<1>4. FenceOf(l) = [ch |-> ch, len |-> n] /\ (IsFenceLine(l) <=> n >= 3)
  BY <1>2, <1>3 DEF FenceOf, IsFenceLine
<1>5. RestOf(l) = <<>>
  BY <1>1, <1>2 DEF RestOf
<1>6. lead.at = "run" /\ lead.run = [ch |-> ch, len |-> n] /\ lead.run.ch = ch /\ lead.run.len = n
  BY <1>1 DEF Run
<1>7. opens(lead) = FenceBehind(NoFence, l)
  <2>1. ~Contains(RestOf(l), "tick")
    BY <1>5 DEF Contains
  <2> QED BY <1>4, <1>6, <2>1 DEF opens, FenceBehind
<1>8. closes(lead, fence) <=> ch = fence.ch /\ n >= fence.len
  BY <1>6 DEF closes
<1>9. fence # NoFence /\ fence.len \in Nat /\ fence.len >= 3
  BY FencesDiffer DEF OpenFences
<1>10. FenceBehind(fence, l) = IF n >= 3 /\ ch = fence.ch /\ n >= fence.len THEN NoFence ELSE fence
  <2>1. \A i \in DOMAIN RestOf(l) : RestOf(l)[i] = "blank"
    BY <1>5
  <2> QED BY <1>4, <1>9, <2>1 DEF FenceBehind
<1> QED BY <1>7, <1>8, <1>9, <1>10

LEMMA LeadAfterTells ==
    ASSUME NEW l \in Seq(Characters), NEW lead, LeadAfter(lead, l), NEW fence \in OpenFences
    PROVE  /\ opens(lead) = FenceBehind(NoFence, l)
           /\ closes(lead, fence) => FenceBehind(fence, l) = NoFence
           /\ ~closes(lead, fence) => FenceBehind(fence, l) = fence
<1>1. PICK b \in 0 .. 3, ch \in {"tick", "tilde"}, n \in Nat, blank \in BOOLEAN, tick \in BOOLEAN :
         /\ n > 2 /\ lead = After([ch |-> ch, len |-> n], blank, tick)
         /\ BeginsWith(l, b, ch, n) /\ b + n < Len(l) /\ l[b + n + 1] # ch
         /\ blank <=> \A i \in b + n + 1 .. Len(l) : l[i] = "blank"
         /\ tick <=> \E i \in b + n + 1 .. Len(l) : l[i] = "tick"
  BY DEF LeadAfter
<1>2. BlanksOf(l) = b /\ RunOf(l) = n
  <2>1. b \in Nat /\ n > 0
    BY <1>1
  <2> QED BY <1>1, <2>1, RunShape
<1>3. l[b + 1] = ch
  BY <1>1 DEF BeginsWith
<1>4. FenceOf(l) = [ch |-> ch, len |-> n] /\ IsFenceLine(l)
  BY <1>1, <1>2, <1>3 DEF FenceOf, IsFenceLine
<1>5. /\ Len(RestOf(l)) = Len(l) - (b + n) /\ DOMAIN RestOf(l) = 1 .. Len(l) - (b + n)
      /\ \A i \in 1 .. Len(l) - (b + n) : RestOf(l)[i] = l[b + n + i]
  BY <1>1, <1>2 DEF RestOf
<1>6. Contains(RestOf(l), "tick") <=> tick
  <2>1. ASSUME Contains(RestOf(l), "tick") PROVE tick
    <3>1. PICK i \in 1 .. Len(l) - (b + n) : l[b + n + i] = "tick"
      BY <1>5, <2>1 DEF Contains
    <3>2. b + n + i \in b + n + 1 .. Len(l)
      OBVIOUS
    <3> QED BY <1>1, <3>1, <3>2
  <2>2. ASSUME tick PROVE Contains(RestOf(l), "tick")
    <3>1. PICK i \in b + n + 1 .. Len(l) : l[i] = "tick"
      BY <1>1, <2>2
    <3>2. i - (b + n) \in 1 .. Len(l) - (b + n) /\ b + n + (i - (b + n)) = i
      OBVIOUS
    <3> QED BY <1>5, <3>1, <3>2 DEF Contains
  <2> QED BY <2>1, <2>2
<1>7. (\A i \in DOMAIN RestOf(l) : RestOf(l)[i] = "blank") <=> blank
  <2>1. ASSUME \A i \in DOMAIN RestOf(l) : RestOf(l)[i] = "blank" PROVE blank
    <3> SUFFICES ASSUME NEW i \in b + n + 1 .. Len(l) PROVE l[i] = "blank"
      BY <1>1
    <3>2. i - (b + n) \in 1 .. Len(l) - (b + n) /\ b + n + (i - (b + n)) = i
      OBVIOUS
    <3> QED BY <1>5, <2>1, <3>2
  <2>2. ASSUME blank, NEW i \in DOMAIN RestOf(l) PROVE RestOf(l)[i] = "blank"
    <3>1. i \in 1 .. Len(l) - (b + n) /\ b + n + i \in b + n + 1 .. Len(l)
      BY <1>5
    <3> QED BY <1>1, <1>5, <2>2, <3>1
  <2> QED BY <2>1, <2>2
<1>8. lead.at = "after" /\ lead.run = [ch |-> ch, len |-> n] /\ lead.run.ch = ch /\ lead.run.len = n
      /\ lead.blank = blank /\ lead.tick = tick
  BY <1>1 DEF After
<1>9. opens(lead) = FenceBehind(NoFence, l)
  <2>1. opens(lead) = IF ~(ch = "tick" /\ tick) THEN [ch |-> ch, len |-> n] ELSE NoFence
    BY <1>8, Zenon DEF opens
  <2>2. FenceBehind(NoFence, l) = IF ~(ch = "tick" /\ tick) THEN [ch |-> ch, len |-> n] ELSE NoFence
    <3>1. FenceOf(l).ch = ch
      BY <1>4
    <3> QED BY <1>4, <1>6, <3>1 DEF FenceBehind
  <2> QED BY <2>1, <2>2
<1>10. closes(lead, fence) <=> blank /\ ch = fence.ch /\ n >= fence.len
  BY <1>8 DEF closes
<1>11. FenceBehind(fence, l) = IF blank /\ ch = fence.ch /\ n >= fence.len THEN NoFence ELSE fence
  <2>1. FenceOf(l).ch = ch /\ FenceOf(l).len = n
    BY <1>4
  <2> QED BY <1>4, <1>7, <2>1, FencesDiffer DEF FenceBehind
<1> QED BY <1>9, <1>10, <1>11

LEMMA LeadTells ==
    ASSUME NEW l \in Seq(Characters), NEW lead, LeadIs(lead, l), NEW fence \in OpenFences
    PROVE  /\ opens(lead) = FenceBehind(NoFence, l)
           /\ closes(lead, fence) => FenceBehind(fence, l) = NoFence
           /\ ~closes(lead, fence) => FenceBehind(fence, l) = fence
BY LeadIndentTells, LeadRunTells, LeadAfterTells, LeadTextTells DEF LeadIs

(* What opens is a fence of at least three.                                *)
LEMMA OpensFence ==
    ASSUME NEW l \in Seq(Characters), NEW lead, LeadIs(lead, l)
    PROVE  opens(lead) \in OpenFences \cup {NoFence}
<1>1. CASE LeadIndent(lead, l)
  BY <1>1 DEF LeadIndent, Indent, opens
<1>2. CASE LeadText(lead, l)
  BY <1>2 DEF LeadText, TextLine, opens
<1>3. CASE LeadRun(lead, l)
  <2>1. PICK ch \in {"tick", "tilde"}, n \in Nat : lead = Run(ch, n)
    BY <1>3 DEF LeadRun
  <2>2. lead.at = "run" /\ lead.run = [ch |-> ch, len |-> n] /\ lead.run.len = n
    BY <2>1 DEF Run
  <2> QED BY <2>2 DEF opens, OpenFences
<1>4. CASE LeadAfter(lead, l)
  <2>1. PICK ch \in {"tick", "tilde"}, n \in Nat, blank \in BOOLEAN, tick \in BOOLEAN :
           n > 2 /\ lead = After([ch |-> ch, len |-> n], blank, tick)
    BY <1>4 DEF LeadAfter
  <2>2. lead.run = [ch |-> ch, len |-> n]
    BY <2>1 DEF After
  <2>3. lead.run \in OpenFences
    BY <2>1, <2>2 DEF OpenFences
  <2> QED BY <2>3 DEF opens
<1> QED BY <1>1, <1>2, <1>3, <1>4 DEF LeadIs

LEMMA BeginsLonger ==
    ASSUME NEW l \in Seq(Characters), NEW c \in Characters, NEW b \in Nat, NEW n \in Nat, NEW ch,
           BeginsWith(l, b, ch, n)
    PROVE  BeginsWith(Append(l, c), b, ch, n)
<1>1. /\ Len(Append(l, c)) = Len(l) + 1 /\ Len(l) \in Nat
      /\ \A i \in 1 .. Len(l) : Append(l, c)[i] = l[i]
  OBVIOUS
<1>2. \A i \in 1 .. b : i \in 1 .. Len(l)
  BY <1>1 DEF BeginsWith
<1>3. \A i \in b + 1 .. b + n : i \in 1 .. Len(l)
  BY <1>1 DEF BeginsWith
<1> QED BY <1>1, <1>2, <1>3 DEF BeginsWith

LEMMA PlainLonger ==
    ASSUME NEW l \in Seq(Characters), NEW c \in Characters, Plain(l)
    PROVE  Plain(Append(l, c))
<1>1. /\ Len(Append(l, c)) = Len(l) + 1 /\ Len(l) \in Nat
      /\ \A i \in 1 .. Len(l) : Append(l, c)[i] = l[i]
  OBVIOUS
<1>2. CASE Len(l) > 3 /\ \A i \in 1 .. 4 : l[i] = "blank"
  BY <1>1, <1>2 DEF Plain
<1>3. ASSUME NEW b \in 0 .. 3, b < Len(l), \A i \in 1 .. b : l[i] = "blank",
             l[b + 1] \notin {"blank", "tick", "tilde"}
      PROVE  Plain(Append(l, c))
  <2>1. b < Len(Append(l, c)) /\ b + 1 \in 1 .. Len(l) /\ \A i \in 1 .. b : i \in 1 .. Len(l)
    BY <1>1, <1>3
  <2> QED BY <1>1, <1>3, <2>1 DEF Plain
<1>4. ASSUME NEW b \in 0 .. 3, NEW ch \in {"tick", "tilde"}, NEW n \in 1 .. 2,
             BeginsWith(l, b, ch, n), b + n < Len(l), l[b + n + 1] # ch
      PROVE  Plain(Append(l, c))
  <2>1. BeginsWith(Append(l, c), b, ch, n)
    BY <1>4, BeginsLonger
  <2>2. b + n < Len(Append(l, c)) /\ Append(l, c)[b + n + 1] # ch
    BY <1>1, <1>4
  <2> QED BY <2>1, <2>2 DEF Plain
<1> QED BY <1>2, <1>3, <1>4 DEF Plain

LEMMA IndentSteps ==
    ASSUME NEW l \in Seq(Characters), NEW lead, LeadIndent(lead, l), NEW c \in Characters
    PROVE  LeadIs(lead_next(lead, c), Append(l, c))
<1>1. PICK n \in 0 .. 3 : lead = Indent(n) /\ Len(l) = n /\ \A i \in 1 .. n : l[i] = "blank"
  BY DEF LeadIndent
<1>2. lead.at = "indent" /\ lead.n = n
  BY <1>1 DEF Indent
<1>3. /\ Len(Append(l, c)) = n + 1 /\ Append(l, c)[n + 1] = c
      /\ \A i \in 1 .. n : Append(l, c)[i] = "blank"
  BY <1>1
<1>4. CASE c = "blank" /\ n < 3
  <2>1. lead_next(lead, c) = Indent(n + 1)
    BY <1>2, <1>4 DEF lead_next
  <2>2. n + 1 \in 0 .. 3 /\ \A i \in 1 .. n + 1 : Append(l, c)[i] = "blank"
    BY <1>3, <1>4
  <2> QED BY <1>3, <2>1, <2>2 DEF LeadIs, LeadIndent
<1>5. CASE c \in {"tick", "tilde"}
  <2>1. lead_next(lead, c) = Run(c, 1)
    BY <1>2, <1>5 DEF lead_next
  <2>2. BeginsWith(Append(l, c), n, c, 1) /\ Len(Append(l, c)) = n + 1 /\ 1 \in Nat
    BY <1>3 DEF BeginsWith
  <2> QED BY <1>5, <2>1, <2>2 DEF LeadIs, LeadRun
<1>6. CASE c = "blank" /\ ~(n < 3)
  <2>1. lead_next(lead, c) = TextLine
    BY <1>2, <1>6 DEF lead_next
  <2>2. Len(Append(l, c)) > 3 /\ \A i \in 1 .. 4 : Append(l, c)[i] = "blank"
    BY <1>3, <1>6
  <2> QED BY <2>1, <2>2 DEF LeadIs, LeadText, Plain
<1>7. CASE c \notin {"blank", "tick", "tilde"}
  <2>1. lead_next(lead, c) = TextLine
    BY <1>2, <1>7 DEF lead_next
  <2>2. n < Len(Append(l, c)) /\ Append(l, c)[n + 1] \notin {"blank", "tick", "tilde"}
    BY <1>3, <1>7
  <2> QED BY <1>3, <2>1, <2>2 DEF LeadIs, LeadText, Plain
<1> QED BY <1>4, <1>5, <1>6, <1>7

LEMMA RunSteps ==
    ASSUME NEW l \in Seq(Characters), NEW lead, LeadRun(lead, l), NEW c \in Characters
    PROVE  LeadIs(lead_next(lead, c), Append(l, c))
<1>1. PICK b \in 0 .. 3, ch \in {"tick", "tilde"}, n \in Nat :
         n > 0 /\ lead = Run(ch, n) /\ BeginsWith(l, b, ch, n) /\ Len(l) = b + n
  BY DEF LeadRun
<1>2. lead.at = "run" /\ lead.run = [ch |-> ch, len |-> n] /\ lead.run.ch = ch /\ lead.run.len = n
  BY <1>1 DEF Run
<1>3. Len(Append(l, c)) = b + n + 1 /\ Append(l, c)[b + n + 1] = c
  BY <1>1
<1>4. BeginsWith(Append(l, c), b, ch, n)
  <2>1. b \in Nat
    OBVIOUS
  <2> QED BY <1>1, <2>1, BeginsLonger
<1>5. CASE c = ch
  <2>1. lead_next(lead, c) = Run(c, n + 1)
    BY <1>2, <1>5 DEF lead_next
  <2>2. BeginsWith(Append(l, c), b, ch, n + 1)
    BY <1>3, <1>4, <1>5 DEF BeginsWith
  <2>3. n + 1 \in Nat /\ n + 1 > 0 /\ Len(Append(l, c)) = b + (n + 1)
    BY <1>3
  <2> QED BY <1>5, <2>1, <2>2, <2>3 DEF LeadIs, LeadRun
<1>6. CASE c # ch /\ n >= 3
  <2>1. lead_next(lead, c) = After([ch |-> ch, len |-> n], c = "blank", c = "tick")
    BY <1>2, <1>6, SMT DEF lead_next
  <2> DEFINE blank == c = "blank"
             tick == c = "tick"
  <2>2. blank \in BOOLEAN /\ tick \in BOOLEAN
    OBVIOUS
  <2>3. /\ blank <=> \A i \in b + n + 1 .. Len(Append(l, c)) : Append(l, c)[i] = "blank"
        /\ tick <=> \E i \in b + n + 1 .. Len(Append(l, c)) : Append(l, c)[i] = "tick"
    <3>1. \A i : i \in b + n + 1 .. Len(Append(l, c)) <=> i = b + n + 1
      BY <1>3
    <3> QED BY <1>3, <3>1
  <2>4. b + n < Len(Append(l, c)) /\ n > 2 /\ Append(l, c)[b + n + 1] # ch
    BY <1>3, <1>6
  <2> HIDE DEF blank, tick
  <2>5. LeadAfter(After([ch |-> ch, len |-> n], blank, tick), Append(l, c))
    BY <1>4, <2>2, <2>3, <2>4 DEF LeadAfter
  <2> QED BY <2>1, <2>5 DEF LeadIs, blank, tick
<1>7. CASE c # ch /\ ~(n >= 3)
  <2>1. lead_next(lead, c) = TextLine
    BY <1>2, <1>7 DEF lead_next
  <2>2. n \in 1 .. 2 /\ b + n < Len(Append(l, c)) /\ Append(l, c)[b + n + 1] # ch
    BY <1>1, <1>3, <1>7
  <2> QED BY <1>4, <2>1, <2>2 DEF LeadIs, LeadText, Plain
<1> QED BY <1>5, <1>6, <1>7

LEMMA AfterSteps ==
    ASSUME NEW l \in Seq(Characters), NEW lead, LeadAfter(lead, l), NEW c \in Characters
    PROVE  LeadIs(lead_next(lead, c), Append(l, c))
<1>1. PICK b \in 0 .. 3, ch \in {"tick", "tilde"}, n \in Nat, blank \in BOOLEAN, tick \in BOOLEAN :
         /\ n > 2 /\ lead = After([ch |-> ch, len |-> n], blank, tick)
         /\ BeginsWith(l, b, ch, n) /\ b + n < Len(l) /\ l[b + n + 1] # ch
         /\ blank <=> \A i \in b + n + 1 .. Len(l) : l[i] = "blank"
         /\ tick <=> \E i \in b + n + 1 .. Len(l) : l[i] = "tick"
  BY DEF LeadAfter
<1>2. lead.at = "after" /\ lead.run = [ch |-> ch, len |-> n] /\ lead.blank = blank /\ lead.tick = tick
  BY <1>1 DEF After
<1>3. /\ Len(Append(l, c)) = Len(l) + 1 /\ Append(l, c)[Len(l) + 1] = c /\ Len(l) \in Nat
      /\ \A i \in 1 .. Len(l) : Append(l, c)[i] = l[i]
  OBVIOUS
<1>4. BeginsWith(Append(l, c), b, ch, n)
  <2>1. b \in Nat
    OBVIOUS
  <2> QED BY <1>1, <2>1, BeginsLonger
<1> DEFINE blanks == blank /\ c = "blank"
           ticks == tick \/ c = "tick"
<1>5. lead_next(lead, c) = After([ch |-> ch, len |-> n], blanks, ticks)
  <2>1. lead_next(lead, c) = After(lead.run, lead.blank /\ c = "blank", lead.tick \/ c = "tick")
    BY <1>2, Zenon DEF lead_next
  <2> QED BY <1>2, <2>1, Zenon
<1>6. blanks \in BOOLEAN /\ ticks \in BOOLEAN
  OBVIOUS
<1>7. blanks <=> \A i \in b + n + 1 .. Len(Append(l, c)) : Append(l, c)[i] = "blank"
  <2>1. \A i : i \in b + n + 1 .. Len(Append(l, c)) <=> i \in b + n + 1 .. Len(l) \/ i = Len(l) + 1
    BY <1>1, <1>3
  <2>2. \A i \in b + n + 1 .. Len(l) : i \in 1 .. Len(l)
    OBVIOUS
  <2> QED BY <1>1, <1>3, <2>1, <2>2
<1>8. ticks <=> \E i \in b + n + 1 .. Len(Append(l, c)) : Append(l, c)[i] = "tick"
  <2>1. \A i : i \in b + n + 1 .. Len(Append(l, c)) <=> i \in b + n + 1 .. Len(l) \/ i = Len(l) + 1
    BY <1>1, <1>3
  <2>2. \A i \in b + n + 1 .. Len(l) : i \in 1 .. Len(l)
    OBVIOUS
  <2> QED BY <1>1, <1>3, <2>1, <2>2
<1>9. b + n < Len(Append(l, c)) /\ Append(l, c)[b + n + 1] # ch
  BY <1>1, <1>3
<1> HIDE DEF blanks, ticks
<1>10. LeadAfter(After([ch |-> ch, len |-> n], blanks, ticks), Append(l, c))
  BY <1>1, <1>4, <1>6, <1>7, <1>8, <1>9 DEF LeadAfter
<1> QED BY <1>5, <1>10 DEF LeadIs

LEMMA LeadSteps ==
    ASSUME NEW l \in Seq(Characters), NEW lead, LeadIs(lead, l), NEW c \in Characters
    PROVE  LeadIs(lead_next(lead, c), Append(l, c))
<1>1. CASE LeadText(lead, l)
  <2>1. lead_next(lead, c) = TextLine
    BY <1>1 DEF LeadText, TextLine, lead_next
  <2> QED BY <1>1, <2>1, PlainLonger DEF LeadIs, LeadText
<1> QED BY <1>1, IndentSteps, RunSteps, AfterSteps DEF LeadIs

(* The scan and the text by lines agree: `lead` says what the line in      *)
(* front of the next character is.  Behind a call it need not, for a line  *)
(* a call ends on has nothing more to it.                                  *)
IsScan(s) ==
    /\ s = [last |-> s.last, bol |-> s.bol, lead |-> s.lead, fence |-> s.fence, call |-> s.call]
    /\ s.bol \in BOOLEAN /\ s.call \in BOOLEAN
Lines == [fence : OpenFences \cup {NoFence}, line : Seq(Characters), call : BOOLEAN]
Idle(lead) == lead = TextLine \/ \E n \in 0 .. 3 : lead = Indent(n)
LeadAgrees(s, rd) ==
    /\ ~rd.call => \/ LeadIs(s.lead, rd.line)
                   \/ rd.line = <<"call_end">> /\ s.fence = NoFence /\ Idle(s.lead)
    /\ rd.call => s.fence = NoFence /\ Idle(s.lead)
LastAgrees(s, rd) ==
    /\ s.bol <=> rd.line = <<>>
    /\ ~rd.call /\ rd.line # <<>> => s.last = Last(rd.line)
Sim(s, rd) ==
    /\ IsScan(s) /\ rd \in Lines
    /\ s.call = rd.call /\ s.fence = rd.fence
    /\ LeadAgrees(s, rd) /\ LastAgrees(s, rd)

LEMMA IdleTells ==
    ASSUME NEW lead, Idle(lead)
    PROVE  opens(lead) = NoFence /\ \A fence : ~closes(lead, fence)
BY DEF Idle, TextLine, Indent, opens, closes

LEMMA CallEndLine ==
    ASSUME NEW before
    PROVE  FenceBehind(before, <<"call_end">>) = before
<1>1. <<"call_end">> \in Seq(Characters) /\ Plain(<<"call_end">>)
  BY DEF Characters, Plain
<1> QED BY <1>1, PlainShape, NoFenceLine

(* A line that has not begun is an indent of nothing. *)
LEMMA EmptyLine ==
    /\ LeadIs(Indent(0), <<>>) /\ \A before : FenceBehind(before, <<>>) = before
<1>1. LeadIndent(Indent(0), <<>>)
  BY DEF LeadIndent
<1>2. ~IsFenceLine(<<>>)
  <2> DEFINE l == <<>>
  <2>1. l \in Seq(Characters) /\ Len(l) = 0
    OBVIOUS
  <2> HIDE DEF l
  <2>2. 0 \in 0 .. Len(l) /\ (\A i \in 1 .. 0 : l[i] = "blank") /\ ~(0 < Len(l))
    BY <2>1
  <2>3. ~IsFenceLine(l)
    BY <2>1, <2>2, NoRunShape
  <2> QED BY <2>3 DEF l
<1> QED BY <1>1, <1>2, NoFenceLine DEF LeadIs

(* What a line end makes of the fence, either way.                         *)
LEMMA FenceAtEnd ==
    ASSUME NEW s, NEW rd, Sim(s, rd), ~rd.call
    PROVE  /\ s.fence = NoFence => opens(s.lead) = FenceBehind(rd.fence, rd.line)
           /\ s.fence # NoFence =>
                FenceBehind(rd.fence, rd.line) = IF closes(s.lead, s.fence) THEN NoFence ELSE s.fence
           /\ FenceBehind(rd.fence, rd.line) \in OpenFences \cup {NoFence}
<1>1. rd.line \in Seq(Characters) /\ rd.fence \in OpenFences \cup {NoFence} /\ s.fence = rd.fence
  BY DEF Sim, Lines
<1>2. CASE LeadIs(s.lead, rd.line)
  <2>1. CASE s.fence = NoFence
    <3>1. PICK f \in OpenFences : TRUE
      <4>1. [ch |-> "tick", len |-> 3] \in OpenFences
        BY DEF OpenFences
      <4> QED BY <4>1
    <3>2. opens(s.lead) = FenceBehind(NoFence, rd.line)
      BY <1>1, <1>2, <3>1, LeadTells
    <3> QED BY <1>1, <1>2, <2>1, <3>2, OpensFence
  <2>2. CASE s.fence # NoFence
    <3>1. s.fence \in OpenFences
      BY <1>1, <2>2
    <3> QED BY <1>1, <1>2, <2>2, <3>1, LeadTells
  <2> QED BY <2>1, <2>2
<1>3. CASE rd.line = <<"call_end">> /\ s.fence = NoFence /\ Idle(s.lead)
  BY <1>1, <1>3, IdleTells, CallEndLine
<1> QED BY <1>2, <1>3 DEF Sim, LeadAgrees

(* Whether the end of the text is inside code, either way.                 *)
LEMMA InsideAgrees ==
    ASSUME NEW s, NEW rd, Sim(s, rd)
    PROVE  InsideCode(rd) <=> s.call \/ in_fence(s)
<1>1. s.call = rd.call /\ s.fence = rd.fence /\ s.call \in BOOLEAN
  BY DEF Sim, IsScan
<1>2. CASE rd.call
  BY <1>1, <1>2 DEF InsideCode
<1>3. CASE ~rd.call
  <2>1. CASE s.fence = NoFence
    BY <1>1, <1>3, <2>1, FenceAtEnd DEF InsideCode, in_fence
  <2>2. CASE s.fence # NoFence
    BY <1>1, <1>3, <2>2, FenceAtEnd DEF InsideCode, in_fence
  <2> QED BY <2>1, <2>2
<1> QED BY <1>2, <1>3

(* The last character of a line the scan read.                             *)
LastIs(rd, c) == ~rd.call /\ rd.line # <<>> => Last(rd.line) = c

LEMMA CharSteps ==
    ASSUME NEW s, NEW rd, Sim(s, rd), NEW c \in Characters,
           LastIs(rd, "call_end") /\ ~rd.call /\ rd.line # <<>> => c = "newline"
    PROVE  Sim(push(s, c), ReadChar(rd, c)) /\ LastIs(ReadChar(rd, c), c)
<1> DEFINE p == push(s, c)
           r == ReadChar(rd, c)
<1>0. /\ IsScan(s) /\ rd \in Lines /\ s.call = rd.call /\ s.fence = rd.fence
      /\ LeadAgrees(s, rd) /\ LastAgrees(s, rd)
      /\ rd.line \in Seq(Characters) /\ rd.fence \in OpenFences \cup {NoFence}
      /\ rd.call \in BOOLEAN /\ s.call \in BOOLEAN /\ s.bol \in BOOLEAN
  BY DEF Sim, Lines, IsScan
<1>1. CASE c = "newline"
  <2>1. /\ p.last = "newline" /\ p.bol = TRUE /\ p.lead = Indent(0) /\ p.call = s.call
        /\ p.fence = CASE s.call -> s.fence
                       [] ~s.call /\ s.fence = NoFence -> opens(s.lead)
                       [] OTHER -> IF closes(s.lead, s.fence) THEN NoFence ELSE s.fence
        /\ IsScan(p)
    BY <1>0, <1>1 DEF push, LineEnd, IsScan
  <2>2. /\ r.line = <<>> /\ r.call = rd.call
        /\ r.fence = IF rd.call THEN rd.fence ELSE FenceBehind(rd.fence, rd.line)
        /\ r = [fence |-> r.fence, line |-> r.line, call |-> r.call]
    <3>1. r.call = IF rd.call THEN TRUE ELSE FALSE
      BY <1>1 DEF ReadChar
    <3>2. r.call = rd.call
      BY <1>0, <3>1
    <3> QED BY <1>0, <1>1, <3>2 DEF ReadChar
  <2>3. p.fence = r.fence /\ r.fence \in OpenFences \cup {NoFence}
    <3>1. CASE rd.call
      BY <1>0, <2>1, <2>2, <3>1
    <3>2. CASE ~rd.call /\ s.fence = NoFence
      BY <1>0, <2>1, <2>2, <3>2, FenceAtEnd
    <3>3. CASE ~rd.call /\ s.fence # NoFence
      BY <1>0, <2>1, <2>2, <3>3, FenceAtEnd
    <3> QED BY <3>1, <3>2, <3>3
  <2>4. r \in Lines
    <3> HIDE DEF r
    <3>1. r.line \in Seq(Characters) /\ r.call \in BOOLEAN
      BY <1>0, <2>2
    <3> QED BY <2>2, <2>3, <3>1 DEF Lines
  <2>5. LeadAgrees(p, r)
    <3>1. rd.call => s.fence = NoFence
      BY <1>0 DEF LeadAgrees
    <3> QED BY <1>0, <2>1, <2>2, <2>3, <3>1, EmptyLine DEF LeadAgrees, Idle
  <2> HIDE DEF p, r
  <2>6. LastAgrees(p, r) /\ LastIs(r, c)
    BY <2>1, <2>2 DEF LastAgrees, LastIs
  <2>7. Sim(p, r)
    BY <1>0, <2>1, <2>2, <2>3, <2>4, <2>5, <2>6 DEF Sim
  <2> QED BY <2>6, <2>7 DEF p, r
<1>2. CASE c # "newline" /\ rd.call
  <2>1. /\ p.last = c /\ p.bol = FALSE /\ p.lead = s.lead /\ p.fence = s.fence
        /\ p.call = (c # "call_end") /\ IsScan(p)
    BY <1>0, <1>2 DEF push, IsScan
  <2>2. /\ r.line = (IF c = "call_end" THEN <<c>> ELSE <<"call">>) /\ r.call = (c # "call_end")
        /\ r.fence = rd.fence
        /\ r = [fence |-> r.fence, line |-> r.line, call |-> r.call]
    BY <1>0, <1>2 DEF ReadChar
  <2> HIDE DEF p, r
  <2>3. r \in Lines
    <3>1. <<"call">> \in Seq(Characters) /\ <<"call_end">> \in Seq(Characters)
      BY DEF Characters
    <3>2. r.line \in Seq(Characters)
      BY <2>2, <3>1
    <3>3. r.call \in BOOLEAN
      BY <2>2
    <3> QED BY <1>0, <2>2, <3>2, <3>3 DEF Lines
  <2>4. s.fence = NoFence /\ Idle(s.lead)
    BY <1>0, <1>2 DEF LeadAgrees
  <2>5. LeadAgrees(p, r)
    BY <2>1, <2>2, <2>4 DEF LeadAgrees
  <2>6. r.line # <<>> /\ (~r.call => Last(r.line) = c)
    <3>1. <<"call_end">> # <<>> /\ <<"call">> # <<>> /\ <<"call_end">>[Len(<<"call_end">>)] = "call_end"
      OBVIOUS
    <3> QED BY <2>2, <3>1 DEF Last
  <2>7. LastAgrees(p, r) /\ LastIs(r, c)
    BY <2>1, <2>6 DEF LastAgrees, LastIs
  <2>8. Sim(p, r)
    BY <1>0, <2>1, <2>2, <2>3, <2>5, <2>7 DEF Sim
  <2> QED BY <2>7, <2>8 DEF p, r
<1>3. CASE c # "newline" /\ ~rd.call /\ c = "call" /\ rd.line = <<>> /\ rd.fence = NoFence
  <2>0. s.bol /\ s.fence = NoFence
    BY <1>0, <1>3 DEF LastAgrees
  <2>1. /\ p.last = c /\ p.bol = FALSE /\ p.lead = TextLine /\ p.fence = s.fence
        /\ p.call = TRUE /\ IsScan(p)
    BY <1>0, <1>3, <2>0 DEF push, IsScan
  <2>2. /\ r.line = <<"call">> /\ r.call = TRUE /\ r.fence = rd.fence
        /\ r = [fence |-> r.fence, line |-> r.line, call |-> r.call]
    <3>1. r.call = (IF rd.call THEN c # "call_end" ELSE TRUE) /\ ~rd.call
      BY <1>3 DEF ReadChar
    <3>2. Append(rd.line, c) = <<"call">>
      BY <1>3
    <3> QED BY <1>0, <1>3, <3>1, <3>2 DEF ReadChar
  <2> HIDE DEF p, r
  <2>3. r \in Lines
    <3>1. <<"call">> \in Seq(Characters)
      BY DEF Characters
    <3> QED BY <1>0, <2>2, <3>1 DEF Lines
  <2>5. LeadAgrees(p, r)
    BY <2>0, <2>1, <2>2 DEF LeadAgrees, Idle
  <2>7. LastAgrees(p, r) /\ LastIs(r, c)
    BY <2>1, <2>2 DEF LastAgrees, LastIs
  <2>8. Sim(p, r)
    BY <1>0, <2>1, <2>2, <2>3, <2>5, <2>7 DEF Sim
  <2> QED BY <2>7, <2>8 DEF p, r
<1>4. CASE c # "newline" /\ ~rd.call /\ ~(c = "call" /\ rd.line = <<>> /\ rd.fence = NoFence)
  <2>0. ~s.call /\ ~(c = "call" /\ s.bol /\ s.fence = NoFence)
    BY <1>0, <1>4 DEF LastAgrees
  <2>1. /\ p.last = c /\ p.bol = FALSE /\ p.lead = lead_next(s.lead, c) /\ p.fence = s.fence
        /\ p.call = s.call /\ IsScan(p)
    BY <1>0, <1>4, <2>0 DEF push, IsScan
  <2>2. /\ r.line = Append(rd.line, c) /\ r.call = FALSE /\ r.fence = rd.fence
        /\ r = [fence |-> r.fence, line |-> r.line, call |-> r.call]
    BY <1>0, <1>4 DEF ReadChar
  <2> HIDE DEF p, r
  <2>3. r \in Lines
    <3>1. Append(rd.line, c) \in Seq(Characters)
      BY <1>0
    <3> QED BY <1>0, <2>2, <3>1 DEF Lines
  <2>4. rd.line # <<"call_end">>
    <3> SUFFICES ASSUME rd.line = <<"call_end">> PROVE FALSE
      OBVIOUS
    <3>1. Last(<<"call_end">>) = "call_end" /\ <<"call_end">> # <<>>
      BY DEF Last
    <3>2. LastIs(rd, "call_end") /\ rd.line # <<>>
      BY <3>1 DEF LastIs
    <3> QED BY <1>4, <3>2
  <2>5. LeadIs(s.lead, rd.line)
    BY <1>0, <1>4, <2>4 DEF LeadAgrees
  <2>6. LeadIs(lead_next(s.lead, c), Append(rd.line, c))
    BY <1>0, <2>5, LeadSteps
  <2>7. r.line # <<>> /\ Last(r.line) = c
    BY <1>0, <2>2 DEF Last
  <2>8. LeadAgrees(p, r)
    BY <2>1, <2>2, <2>6 DEF LeadAgrees
  <2>9. LastAgrees(p, r) /\ LastIs(r, c)
    BY <2>1, <2>7 DEF LastAgrees, LastIs
  <2>10. Sim(p, r)
    BY <1>0, <1>4, <2>1, <2>2, <2>3, <2>8, <2>9 DEF Sim
  <2> QED BY <2>9, <2>10 DEF p, r
<1> QED BY <1>1, <1>2, <1>3, <1>4

(* The two readings stay together over a text.                             *)
LEMMA TextSteps ==
    ASSUME NEW s, NEW rd, Sim(s, rd), NEW text \in Seq(Characters), text # <<>>,
           \A i \in 1 .. Len(text) - 1 : text[i] = "call_end" => text[i + 1] = "newline",
           LastIs(rd, "call_end") /\ ~rd.call /\ rd.line # <<>> => text[1] = "newline"
    PROVE  Sim(feed(s, text), ReadFrom(rd, text))
<1>1. PICK f : /\ f[0] = s /\ f[Len(text)] = feed(s, text)
               /\ \A k \in 0 .. Len(text) - 1 : f[k + 1] = push(f[k], text[k + 1])
  BY FeedSteps
<1>2. PICK g : /\ g[0] = rd /\ g[Len(text)] = ReadFrom(rd, text)
               /\ \A k \in 0 .. Len(text) - 1 : g[k + 1] = ReadChar(g[k], text[k + 1])
  BY ReadSteps
<1> DEFINE Q(k) == Sim(f[k], g[k]) /\ (k > 0 => LastIs(g[k], text[k]))
           T == {k \in 0 .. Len(text) : ~Q(k)}
<1>3. ASSUME T # {} PROVE FALSE
  <2> HIDE DEF T
  <2>1. T \subseteq Nat
    BY DEF T
  <2>2. PICK m \in T : \A y \in T : m =< y
    BY <1>3, <2>1, LeastNat
  <2>3. m \in 0 .. Len(text) /\ ~Q(m)
    BY <2>2 DEF T
  <2>4. m > 0
    BY <1>1, <1>2, <2>3
  <2>5. m - 1 \in 0 .. Len(text) - 1 /\ m - 1 \in 0 .. Len(text) /\ (m - 1) + 1 = m
        /\ m \in 1 .. Len(text) /\ text[m] \in Characters /\ ~(m =< m - 1)
    BY <2>3, <2>4
  <2>6. Q(m - 1)
    <3>1. m - 1 \notin T
      BY <2>2, <2>5
    <3> HIDE DEF Q
    <3> QED BY <2>5, <3>1 DEF T
  <2>7. f[m] = push(f[m - 1], text[m]) /\ g[m] = ReadChar(g[m - 1], text[m])
    BY <1>1, <1>2, <2>5
  <2>8. LastIs(g[m - 1], "call_end") /\ ~g[m - 1].call /\ g[m - 1].line # <<>> => text[m] = "newline"
    <3>1. CASE m = 1
      BY <1>2, <3>1
    <3>2. CASE m # 1
      <4>1. m - 1 > 0 /\ m - 1 \in 1 .. Len(text) - 1
        BY <2>5, <3>2
      <4>2. LastIs(g[m - 1], text[m - 1])
        BY <2>6, <4>1
      <4>3. text[m - 1] = "call_end" => text[m] = "newline"
        BY <2>5, <4>1
      <4> QED BY <4>2, <4>3 DEF LastIs
    <3> QED BY <3>1, <3>2
  <2>9. Sim(push(f[m - 1], text[m]), ReadChar(g[m - 1], text[m]))
        /\ LastIs(ReadChar(g[m - 1], text[m]), text[m])
    BY <2>5, <2>6, <2>8, CharSteps
  <2> QED BY <2>3, <2>7, <2>9
<1>4. Len(text) \in 0 .. Len(text)
  OBVIOUS
<1>5. Q(Len(text))
  <2> HIDE DEF Q
  <2> QED BY <1>3, <1>4
<1> QED BY <1>1, <1>2, <1>5

LEMMA ReadPlain ==
    ASSUME NEW rd \in Lines, ~rd.call, NEW c \in Characters, c \notin {"newline", "call"}
    PROVE  ReadChar(rd, c) = [fence |-> rd.fence, line |-> Append(rd.line, c), call |-> FALSE]
BY DEF ReadChar

LEMMA ReadEnd ==
    ASSUME NEW rd, ~rd.call
    PROVE  ReadChar(rd, "newline")
             = [fence |-> FenceBehind(rd.fence, rd.line), line |-> <<>>, call |-> FALSE]
BY DEF ReadChar

(* A nudge is read from the start of a line, outside of code, to the start *)
(* of a line, outside of code.                                             *)
LEMMA NudgeReads ==
    ASSUME NEW s, NEW rd, NEW text \in Seq(Characters), NEW behind,
           behind = ReadFrom(rd, text), Sim(s, behind),
           behind.line = <<>>, behind.fence = NoFence, ~behind.call
    PROVE  /\ Sim(feed(s, NudgeText), ReadFrom(rd, text \o NudgeText))
           /\ ReadFrom(rd, text \o NudgeText)
                = [fence |-> NoFence, line |-> <<>>, call |-> FALSE]
<1> DEFINE N == Len(text)
           all == text \o NudgeText
<1>0. /\ NudgeText \in Seq(Characters) /\ Len(NudgeText) = 4
      /\ NudgeText[1] = "word" /\ NudgeText[2] = "mark"
      /\ NudgeText[3] = "newline" /\ NudgeText[4] = "newline"
  BY DEF NudgeText, Characters
<1>1. /\ all \in Seq(Characters) /\ Len(all) = N + 4 /\ N \in Nat
      /\ \A i \in 1 .. N : all[i] = text[i]
      /\ all[N + 1] = "word" /\ all[N + 2] = "mark"
      /\ all[N + 3] = "newline" /\ all[N + 4] = "newline"
  <2> DEFINE u == text \o NudgeText
  <2>1. /\ u \in Seq(Characters) /\ Len(u) = Len(text) + Len(NudgeText)
        /\ \A i \in 1 .. Len(text) + Len(NudgeText) :
              u[i] = IF i =< Len(text) THEN text[i] ELSE NudgeText[i - Len(text)]
    BY <1>0, ConcatProperties
  <2>2. N \in Nat
    OBVIOUS
  <2> HIDE DEF u, N
  <2>3. Len(text) = N
    BY DEF N
  <2>4. \A i \in 1 .. N : u[i] = text[i]
    BY <1>0, <2>1, <2>2, <2>3
  <2>5. \A j \in 1 .. 4 : u[N + j] = NudgeText[j]
    <3> SUFFICES ASSUME NEW j \in 1 .. 4 PROVE u[N + j] = NudgeText[j]
      OBVIOUS
    <3>1. N + j \in 1 .. N + 4 /\ ~(N + j =< N) /\ (N + j) - N = j
      BY <2>2
    <3> QED BY <1>0, <2>1, <2>3, <3>1
  <2>6. u \in Seq(Characters) /\ Len(u) = N + 4
    BY <1>0, <2>1, <2>3
  <2>7. u[N + 1] = "word" /\ u[N + 2] = "mark" /\ u[N + 3] = "newline" /\ u[N + 4] = "newline"
    BY <1>0, <2>5
  <2>8. all = u
    BY DEF u
  <2> HIDE DEF all
  <2> QED BY <2>2, <2>4, <2>6, <2>7, <2>8
<1>2. PICK f : /\ f[0] = s /\ f[Len(NudgeText)] = feed(s, NudgeText)
               /\ \A k \in 0 .. Len(NudgeText) - 1 : f[k + 1] = push(f[k], NudgeText[k + 1])
  <2>1. NudgeText \in Seq(Characters)
    BY <1>0
  <2> HIDE DEF NudgeText
  <2> QED BY ONLY <2>1, FeedSteps
<1> HIDE DEF all
<1>3. PICK g : /\ g[0] = rd /\ g[Len(all)] = ReadFrom(rd, all)
               /\ \A k \in 0 .. Len(all) - 1 : g[k + 1] = ReadChar(g[k], all[k + 1])
  <2>1. all \in Seq(Characters)
    BY <1>1
  <2> QED BY ONLY <2>1, ReadSteps
<1>4. PICK h : /\ h[0] = rd /\ h[N] = behind
               /\ \A k \in 0 .. N - 1 : h[k + 1] = ReadChar(h[k], text[k + 1])
  BY ONLY text \in Seq(Characters), behind = ReadFrom(rd, text), ReadSteps
<1>5. g[N] = behind
  <2> DEFINE T == {k \in 0 .. N : g[k] # h[k]}
  <2> SUFFICES ASSUME T # {} PROVE FALSE
    BY <1>1, <1>4
  <2> HIDE DEF T
  <2>1. T \subseteq Nat
    BY DEF T
  <2>2. PICK m \in T : \A y \in T : m =< y
    BY <2>1, LeastNat
  <2>3. m \in 0 .. N /\ g[m] # h[m] /\ m > 0
    BY <1>3, <1>4, <2>2 DEF T
  <2>4. m - 1 \in 0 .. N - 1 /\ m - 1 \in 0 .. Len(all) - 1 /\ (m - 1) + 1 = m /\ m \in 1 .. N
        /\ m - 1 \in 0 .. N /\ ~(m =< m - 1)
    BY <1>1, <2>3
  <2>5. g[m - 1] = h[m - 1]
    BY <2>2, <2>4 DEF T
  <2> QED BY <1>1, <1>3, <1>4, <2>3, <2>4, <2>5
<1>6. /\ f[1] = push(f[0], "word") /\ f[2] = push(f[1], "mark")
      /\ f[3] = push(f[2], "newline") /\ f[4] = push(f[3], "newline")
  <2>1. 0 \in 0 .. 3 /\ 1 \in 0 .. 3 /\ 2 \in 0 .. 3 /\ 3 \in 0 .. 3
    OBVIOUS
  <2> QED BY <1>0, <1>2, <2>1
<1>7. /\ g[N + 1] = ReadChar(g[N], "word") /\ g[N + 2] = ReadChar(g[N + 1], "mark")
      /\ g[N + 3] = ReadChar(g[N + 2], "newline") /\ g[N + 4] = ReadChar(g[N + 3], "newline")
  <2>1. /\ N \in 0 .. Len(all) - 1 /\ N + 1 \in 0 .. Len(all) - 1
        /\ N + 2 \in 0 .. Len(all) - 1 /\ N + 3 \in 0 .. Len(all) - 1
        /\ (N + 1) + 1 = N + 2 /\ (N + 2) + 1 = N + 3 /\ (N + 3) + 1 = N + 4
    BY <1>1
  <2> QED BY <1>1, <1>3, <2>1
<1>8. behind \in Lines
  BY DEF Sim
<1>9. /\ g[N + 1] = [fence |-> NoFence, line |-> <<"word">>, call |-> FALSE]
      /\ g[N + 2] = [fence |-> NoFence, line |-> Append(<<"word">>, "mark"), call |-> FALSE]
  <2>1. Append(<<>>, "word") = <<"word">> /\ <<"word">> \in Seq(Characters)
    <3>1. "word" \in Characters /\ "mark" \in Characters /\ <<>> \in Seq(Characters)
      BY DEF Characters
    <3>2. <<"word">> \in Seq(Characters)
      BY <3>1
    <3> QED BY <3>1, <3>2
  <2>2. g[N + 1] = [fence |-> NoFence, line |-> <<"word">>, call |-> FALSE]
    BY <1>5, <1>7, <1>8, <2>1, ReadPlain DEF Characters
  <2>3. g[N + 1] \in Lines
    BY <2>1, <2>2 DEF Lines
  <2>4. g[N + 1].fence = NoFence /\ g[N + 1].line = <<"word">> /\ ~g[N + 1].call
    BY <2>2
  <2>5. g[N + 2] = [fence |-> NoFence, line |-> Append(<<"word">>, "mark"), call |-> FALSE]
    BY <1>7, <2>3, <2>4, ReadPlain DEF Characters
  <2> QED BY <2>1, <2>2, <2>5
<1>10. FenceBehind(NoFence, Append(<<"word">>, "mark")) = NoFence
  <2> DEFINE l == Append(<<"word">>, "mark")
  <2>1. l \in Seq(Characters) /\ Len(l) = 2 /\ l[1] = "word"
    BY DEF Characters
  <2> HIDE DEF l
  <2>2. 0 \in 0 .. Len(l) /\ (\A i \in 1 .. 0 : l[i] = "blank") /\ l[0 + 1] \notin {"blank", "tick", "tilde"}
    BY <2>1
  <2>3. ~IsFenceLine(l)
    BY <2>1, <2>2, NoRunShape
  <2> QED BY <2>3, NoFenceLine DEF l
<1>11. /\ g[N + 3] = [fence |-> NoFence, line |-> <<>>, call |-> FALSE]
       /\ g[N + 4] = [fence |-> NoFence, line |-> <<>>, call |-> FALSE]
  <2>1. g[N + 2].fence = NoFence /\ g[N + 2].line = Append(<<"word">>, "mark") /\ ~g[N + 2].call
    BY <1>9
  <2>2. g[N + 3] = [fence |-> NoFence, line |-> <<>>, call |-> FALSE]
    BY <1>7, <1>10, <2>1, ReadEnd
  <2>3. g[N + 3].fence = NoFence /\ g[N + 3].line = <<>> /\ ~g[N + 3].call
    BY <2>2
  <2>4. g[N + 4] = [fence |-> NoFence, line |-> <<>>, call |-> FALSE]
    BY <1>7, <2>3, EmptyLine, ReadEnd
  <2> QED BY <2>2, <2>4
<1>12. Sim(f[1], g[N + 1])
  <2>1. "word" \in Characters
    BY DEF Characters
  <2> QED BY <1>2, <1>5, <1>6, <1>7, <2>1, CharSteps
<1>13. Sim(f[2], g[N + 2])
  <2>1. "mark" \in Characters /\ ~LastIs(g[N + 1], "call_end")
    BY <1>9 DEF Characters, LastIs, Last
  <2> QED BY <1>6, <1>7, <1>12, <2>1, CharSteps
<1>14. Sim(f[3], g[N + 3])
  <2>1. "newline" \in Characters
    BY DEF Characters
  <2> QED BY <1>6, <1>7, <1>13, <2>1, CharSteps
<1>15. Sim(f[4], g[N + 4])
  <2>1. "newline" \in Characters
    BY DEF Characters
  <2> QED BY <1>6, <1>7, <1>14, <2>1, CharSteps
<1> QED BY <1>0, <1>1, <1>2, <1>3, <1>11, <1>15 DEF all

(* What the control keeps true.                                            *)
TInv ==
    /\ settings \in Thinkings /\ counted \in Nat /\ level \in Nat
    /\ Sim(scan, Here)
    /\ ThinkingActs

LEMMA SettingsTyped ==
    ASSUME settings \in Thinkings
    PROVE  settings.budget \in Nat /\ settings.grace \in Nat
<1>1. settings \in [budget : Nat, grace : Nat, nudges : BOOLEAN, ends : BOOLEAN]
  BY ThinkingAssumption
<1> QED BY <1>1

LEMMA NudgeAtTyped ==
    ASSUME settings \in Thinkings, level \in Nat, NudgeLeft
    PROVE  nudge_at \in Nat
<1>1. level + 1 \in 1 .. Len(Levels) /\ Levels \in Seq((Nat \ {0}) \X (Nat \ {0}))
  BY ThinkingAssumption DEF NudgeLeft
<1>2. Levels[level + 1] \in (Nat \ {0}) \X (Nat \ {0})
  BY <1>1
<1>3. PICK a \in Nat, d \in Nat : a = Levels[level + 1][1] /\ d = Levels[level + 1][2] /\ d > 0
  BY <1>2
<1>4. PICK n \in Nat : n = a * settings.budget
  BY SettingsTyped
<1>5. (n + d - 1) \div d \in Int
  BY <1>3
<1>6. nudge_at = IF (n + d - 1) \div d < 1 THEN 1 ELSE (n + d - 1) \div d
  BY <1>3, <1>4 DEF nudge_at
<1> QED BY <1>5, <1>6

(* What is inserted lands behind the text that Reads read.                 *)
LEMMA ReadsHere ==
    ASSUME Sim(scan, Here), NEW text \in Seq(Characters), text # <<>>, CallsEndLines(text)
    PROVE  Sim(feed(scan, text), ReadAll(text))
<1>1. ReadAll(text) = ReadFrom(Here, text)
  BY DEF ReadAll, Here
<1>2. /\ Len(text) \in Nat /\ line \in Seq(Characters) /\ Len(line) \in Nat
      /\ Here.line = line /\ Here.call = in_block /\ Len(text) > 0
  BY DEF Sim, Lines, Here
<1> DEFINE all == line \o text
<1>3. /\ Len(all) = Len(line) + Len(text)
      /\ \A i \in 1 .. Len(line) + Len(text) :
            all[i] = IF i =< Len(line) THEN line[i] ELSE text[i - Len(line)]
  BY <1>2, ConcatProperties
<1>4. \A i \in 1 .. Len(all) - 1 : all[i] = "call_end" => all[i + 1] = "newline"
  BY DEF CallsEndLines
<1> HIDE DEF all
<1>5. ASSUME NEW i \in 1 .. Len(text) - 1, text[i] = "call_end"
      PROVE  text[i + 1] = "newline"
  <2>1. /\ Len(line) + i \in 1 .. Len(all) - 1 /\ (Len(line) + i) + 1 \in 1 .. Len(all)
        /\ (Len(line) + i) - Len(line) = i /\ ((Len(line) + i) + 1) - Len(line) = i + 1
        /\ ~(Len(line) + i =< Len(line)) /\ ~((Len(line) + i) + 1 =< Len(line))
    BY <1>2, <1>3
  <2>2. all[Len(line) + i] = text[i] /\ all[(Len(line) + i) + 1] = text[i + 1]
    BY <1>2, <1>3, <2>1
  <2> QED BY <1>4, <1>5, <2>1, <2>2
<1>6. ASSUME LastIs(Here, "call_end"), ~Here.call, Here.line # <<>>
      PROVE  text[1] = "newline"
  <2>1. line[Len(line)] = "call_end" /\ Len(line) > 0
    BY <1>2, <1>6 DEF LastIs, Last
  <2>2. Len(line) \in 1 .. Len(all) - 1 /\ Len(line) + 1 \in 1 .. Len(all)
        /\ (Len(line) + 1) - Len(line) = 1 /\ ~(Len(line) + 1 =< Len(line))
    BY <1>2, <1>3, <2>1
  <2>3. all[Len(line)] = "call_end" /\ all[Len(line) + 1] = text[1]
    BY <1>2, <1>3, <2>1, <2>2
  <2> QED BY <1>4, <2>2, <2>3
<1> QED BY <1>1, <1>5, <1>6, TextSteps

LEMMA HereRead ==
    ASSUME NEW text, Reads(text), NEW f \in Lines, f = ReadAll(text)
    PROVE  Here' = f
BY DEF Reads, Here, Lines

LEMMA ClosePlace ==
    ASSUME NEW s, NEW rd, Sim(s, rd), NEW over \in Int, settings \in Thinkings,
           close_seam(s, over)
    PROVE  /\ ~InsideCode(rd)
           /\ over < settings.grace => rd.line = <<>>
           /\ over < 2 * settings.grace => rd.line = <<>> \/ Last(rd.line) = "mark"
<1>1. s.call = rd.call /\ LastAgrees(s, rd) /\ ~s.call /\ ~in_fence(s)
  BY DEF Sim, close_seam
<1>2. SeamAt(s) = "line_start" => rd.line = <<>>
  BY <1>1 DEF SeamAt, LastAgrees, trailing_newlines
<1>3. s.last = "mark" => rd.line = <<>> \/ Last(rd.line) = "mark"
  BY <1>1 DEF LastAgrees
<1> QED BY <1>1, <1>2, <1>3, InsideAgrees, SettingsTyped DEF close_seam

LEMMA CloseWaits ==
    ASSUME NEW s, NEW rd, Sim(s, rd), NEW over \in Int, settings \in Thinkings,
           over >= 2 * settings.grace, ~close_seam(s, over)
    PROVE  InsideCode(rd) \/ (rd.line # <<>> /\ Last(rd.line) = "blank")
<1>1. s.call = rd.call /\ LastAgrees(s, rd)
  BY DEF Sim
<1>2. CASE s.call \/ in_fence(s)
  BY <1>2, InsideAgrees
<1>3. CASE ~s.call /\ SeamAt(s) = "none"
  <2>1. ~s.bol /\ s.last = "blank"
    BY <1>3 DEF SeamAt, trailing_newlines
  <2> QED BY <1>1, <1>3, <2>1 DEF LastAgrees
<1> QED BY <1>2, <1>3 DEF close_seam

LEMMA NudgePlace ==
    ASSUME NEW s, NEW rd, Sim(s, rd), NEW over \in Int, settings \in Thinkings,
           nudge_place(s, over) = "here"
    PROVE  over =< settings.grace /\ rd.line = <<>> /\ rd.fence = NoFence /\ ~rd.call
<1>1. /\ s.call = rd.call /\ s.fence = rd.fence /\ LastAgrees(s, rd) /\ LeadAgrees(s, rd)
      /\ rd.fence \in OpenFences \cup {NoFence}
  BY DEF Sim, Lines
<1>2. over =< settings.grace /\ s.bol /\ ~in_fence(s) /\ ~s.call
  BY DEF nudge_place, trailing_newlines
<1>3. rd.line = <<>>
  BY <1>1, <1>2 DEF LastAgrees
<1>4. rd.fence = NoFence
  <2>1. ~InsideCode(rd)
    BY <1>2, InsideAgrees
  <2> QED BY <1>3, <2>1, EmptyLine DEF InsideCode
<1> QED BY <1>1, <1>2, <1>3, <1>4

LEMMA SaysWhat ==
    ASSUME NEW kind, NEW over, Says(kind, over)
    PROVE  action'.kind = kind /\ action'.over = over /\ action'.announced = may_act_next
BY DEF Says

(* An ordinary token, whatever is decided of it.                           *)
LEMMA ObserveKeeps ==
    ASSUME TInv, NEW text \in Seq(Characters), text # <<>>, Observe(text), settings' = settings
    PROVE  TInv'
<1>0. /\ settings \in Thinkings /\ counted \in Nat /\ level \in Nat /\ Sim(scan, Here) /\ ClosedOnce
      /\ settings.budget \in Nat /\ settings.grace \in Nat /\ settings' \in Thinkings
  BY SettingsTyped DEF TInv, ThinkingActs
<1> DEFINE s == feed(scan, text)
           n == counted + 1
           rd == ReadAll(text)
           closes_here == settings.budget # NoBudget /\ n >= settings.budget
                          /\ close_seam(s, n - settings.budget)
<1>1. /\ open /\ CallsEndLines(text) /\ counted' = n /\ n \in Nat /\ n > 0
      /\ \/ closes_here /\ BudgetCloses(text, s, n)
         \/ ~closes_here /\ Place(s, n) = "here" /\ Nudged(text, s, n)
         \/ ~closes_here /\ Place(s, n) # "here" /\ Kept(text, s, n)
  BY <1>0 DEF Observe
<1>2. Sim(s, rd) /\ rd \in Lines
  BY <1>0, <1>1, ReadsHere DEF Sim
<1>3. closed = "no"
  BY <1>0, <1>1 DEF ClosedOnce
<1> HIDE DEF s, rd
<1>4. CASE closes_here /\ BudgetCloses(text, s, n)
  <2>1. /\ ~open' /\ closed' = "budget" /\ scan' = s /\ level' = level /\ Reads(text)
        /\ Says("close", n - settings.budget)
    BY <1>4 DEF BudgetCloses
  <2>2. Here' = rd
    BY <1>2, <2>1, HereRead DEF rd
  <2>3. line' = rd.line
    BY <2>1 DEF Reads, rd
  <2>4. /\ action'.kind = "close" /\ action'.over = n - settings.budget
        /\ action'.announced = may_act_next
    BY <2>1, SaysWhat
  <2>5. settings.budget # NoBudget /\ close_seam(s, n - settings.budget)
        /\ n - settings.budget \in Int
    BY <1>0, <1>1, <1>4
  <2>6. /\ ~InsideCode(rd)
        /\ n - settings.budget < settings.grace => rd.line = <<>>
        /\ n - settings.budget < 2 * settings.grace => rd.line = <<>> \/ Last(rd.line) = "mark"
    BY <1>0, <1>2, <2>5, ClosePlace
  <2> HIDE DEF n, closes_here
  <2>7. OutsideCode'
    BY <2>2, <2>6 DEF OutsideCode
  <2>8. OnlyAnnounced'
    BY <1>1, <2>4, <2>5 DEF OnlyAnnounced, may_act_next
  <2>9. CloseWaitsNoLonger'
    BY <2>1 DEF CloseWaitsNoLonger
  <2>10. InItsWindow'
    BY <2>3, <2>4, <2>6 DEF InItsWindow
  <2>11. ClosedOnce'
    BY <2>1 DEF ClosedOnce
  <2>12. Sim(scan', Here')
    BY <1>2, <2>1, <2>2
  <2> QED BY <1>0, <1>1, <2>1, <2>7, <2>8, <2>9, <2>10, <2>11, <2>12 DEF TInv, ThinkingActs
<1>5. CASE Place(s, n) = "here" /\ Nudged(text, s, n)
  <2>1. /\ open' = open /\ closed' = closed /\ scan' = feed(s, NudgeText) /\ level' = level + 1
        /\ Reads(text \o NudgeText) /\ Says("nudge", n - nudge_at)
    BY <1>5 DEF Nudged
  <2>2. NudgeIsDue(n) /\ nudge_place(s, n - nudge_at) = "here"
    BY <1>5 DEF Place
  <2>3. n < settings.budget /\ nudge_at \in Nat /\ n >= nudge_at
    BY <1>0, <2>2, NudgeAtTyped DEF NudgeIsDue
  <2>4. n - nudge_at \in Int /\ n - nudge_at >= 0
    BY <1>1, <2>3
  <2>5. n - nudge_at =< settings.grace /\ rd.line = <<>> /\ rd.fence = NoFence /\ ~rd.call
    BY <1>0, <1>2, <2>2, <2>4, NudgePlace
  <2>6. rd = ReadFrom(Here, text) /\ ReadAll(text \o NudgeText) = ReadFrom(Here, text \o NudgeText)
    BY DEF rd, ReadAll, Here
  <2> DEFINE last == [fence |-> NoFence, line |-> <<>>, call |-> FALSE]
  <2>7. Sim(feed(s, NudgeText), last) /\ ReadAll(text \o NudgeText) = last
    <3>1. /\ Sim(feed(s, NudgeText), ReadFrom(Here, text \o NudgeText))
          /\ ReadFrom(Here, text \o NudgeText) = last
      BY <1>2, <2>5, <2>6, NudgeReads
    <3> QED BY <2>6, <3>1
  <2>8. last \in Lines
    BY DEF Lines
  <2>9. Here' = last /\ line' = <<>>
    <3>1. Here' = last
      BY <2>1, <2>7, <2>8, HereRead
    <3>2. line' = ReadAll(text \o NudgeText).line
      BY <2>1 DEF Reads
    <3>3. last.line = <<>>
      OBVIOUS
    <3> HIDE DEF last
    <3> QED BY <2>7, <3>1, <3>2, <3>3
  <2>10. /\ action'.kind = "nudge" /\ action'.over = n - nudge_at
         /\ action'.announced = may_act_next
    BY <2>1, SaysWhat
  <2>11. ~InsideCode(last)
    BY EmptyLine DEF InsideCode
  <2> HIDE DEF n, closes_here, last
  <2>12. OutsideCode'
    BY <2>9, <2>11 DEF OutsideCode
  <2>13. OnlyAnnounced'
    <3>1. settings.budget # NoBudget
      BY <1>0, <1>1, <2>3 DEF NoBudget
    <3> QED BY <1>1, <2>10, <3>1 DEF OnlyAnnounced, may_act_next
  <2>14. CloseWaitsNoLonger'
    BY <1>0, <1>1, <2>3 DEF CloseWaitsNoLonger
  <2>15. InItsWindow'
    <3>1. n - nudge_at \in 0 .. settings.grace
      BY <1>0, <2>4, <2>5
    <3> QED BY <2>9, <2>10, <3>1 DEF InItsWindow
  <2>16. ClosedOnce'
    BY <1>3, <2>1, <2>10 DEF ClosedOnce
  <2>17. Sim(scan', Here') /\ level' \in Nat
    BY <1>0, <2>1, <2>7, <2>9
  <2> QED BY <1>0, <1>1, <2>12, <2>13, <2>14, <2>15, <2>16, <2>17 DEF TInv, ThinkingActs
<1>6. CASE ~closes_here /\ Kept(text, s, n)
  <2>1. /\ open' = open /\ closed' = closed /\ scan' = s /\ level' \in Nat
        /\ Reads(text) /\ Says("keep", 0)
    BY <1>0, <1>6 DEF Kept
  <2>2. Here' = rd /\ line' = rd.line
    <3>1. Here' = rd
      BY <1>2, <2>1, HereRead DEF rd
    <3> QED BY <2>1, <3>1 DEF Reads, rd
  <2>3. action'.kind = "keep"
    BY <2>1, SaysWhat
  <2>4. CloseWaitsNoLonger'
    <3> SUFFICES ASSUME settings.budget # NoBudget, n >= settings.budget + 2 * settings.grace
                 PROVE  InsideCode(rd) \/ (rd.line # <<>> /\ Last(rd.line) = "blank")
      BY <1>1, <2>2 DEF CloseWaitsNoLonger
    <3>1. /\ n - settings.budget \in Int /\ n - settings.budget >= 2 * settings.grace
          /\ ~close_seam(s, n - settings.budget)
      BY <1>0, <1>1, <1>6
    <3> QED BY <1>0, <1>2, <3>1, CloseWaits
  <2> HIDE DEF n, closes_here
  <2>5. OutsideCode' /\ OnlyAnnounced' /\ InItsWindow'
    BY <2>3 DEF OutsideCode, OnlyAnnounced, InItsWindow
  <2>6. ClosedOnce'
    BY <1>3, <2>1, <2>3 DEF ClosedOnce
  <2>7. Sim(scan', Here')
    BY <1>2, <2>1, <2>2
  <2> QED BY <1>0, <1>1, <2>1, <2>4, <2>5, <2>6, <2>7 DEF TInv, ThinkingActs
<1> QED BY <1>1, <1>4, <1>5, <1>6

(* A step that reads nothing, and ends the block or finds it ended.        *)
LEMMA SilentKeeps ==
    ASSUME TInv, NEW kind, NEW over, Says(kind, over), ~open',
           UNCHANGED <<settings, counted, level, scan, line, fence_line, in_block>>,
           kind \notin {"close", "nudge"},
           kind = "keep" \/ (may_act_next /\ closed' # "no")
    PROVE  TInv'
<1>1. action'.kind = kind /\ action'.announced = may_act_next
  BY SaysWhat
<1>2. Here' = Here
  BY DEF Here
<1>3. OutsideCode' /\ InItsWindow' /\ CloseWaitsNoLonger'
  BY <1>1 DEF OutsideCode, InItsWindow, CloseWaitsNoLonger
<1>4. OnlyAnnounced'
  BY <1>1 DEF OnlyAnnounced
<1>5. ClosedOnce'
  BY <1>1 DEF ClosedOnce
<1> QED BY <1>2, <1>3, <1>4, <1>5 DEF TInv, ThinkingActs

LEMMA ThinkingKeeps ==
    ASSUME TInv, [ThinkingNext]_thinkingVars
    PROVE  TInv'
<1>1. CASE UNCHANGED thinkingVars
  <2>1. UNCHANGED <<settings, open, counted, level, closed, scan, action, line, fence_line, in_block>>
    BY <1>1 DEF thinkingVars
  <2>2. Here' = Here
    BY <2>1 DEF Here
  <2> QED BY <2>1, <2>2
    DEF TInv, ThinkingActs, OutsideCode, OnlyAnnounced, CloseWaitsNoLonger, InItsWindow, ClosedOnce
<1>2. ASSUME settings' = settings, NEW text \in Pieces \cup {<<"call_end">>}, Observe(text)
      PROVE  TInv'
  <2>1. text \in Seq(Characters) /\ text # <<>>
    <3>1. <<"call_end">> \in Seq(Characters) /\ <<"call_end">> # <<>>
      BY DEF Characters
    <3> QED BY <3>1, ThinkingAssumption
  <2> QED BY <1>2, <2>1, ObserveKeeps
<1>3. ASSUME settings' = settings, ModelCloses PROVE TInv'
  <2>1. Says("keep", 0) /\ ~open' /\ UNCHANGED <<settings, counted, level, scan, line, fence_line, in_block>>
    BY <1>3 DEF ModelCloses
  <2> QED BY <2>1, SilentKeeps
<1>4. ASSUME settings' = settings, ToolCall PROVE TInv'
  <2>1. CASE Observe(<<"call">>)
    <3>1. <<"call">> \in Seq(Characters) /\ <<"call">> # <<>>
      BY DEF Characters
    <3> QED BY <1>4, <2>1, <3>1, ObserveKeeps
  <2>2. CASE ~Observe(<<"call">>)
    <3>1. /\ open /\ tool_call_would_close /\ closed' = "tool_call" /\ Says("before", 0) /\ ~open'
          /\ UNCHANGED <<settings, counted, level, scan, line, fence_line, in_block>>
      BY <1>4, <2>2 DEF ToolCall
    <3>2. may_act_next
      BY <3>1 DEF may_act_next
    <3> QED BY <3>1, <3>2, SilentKeeps
  <2> QED BY <2>1, <2>2
<1>5. ASSUME settings' = settings, decide_stop PROVE TInv'
  <2>1. /\ open /\ settings.budget # NoBudget /\ closed' = "end_of_turn" /\ Says("replace", 0) /\ ~open'
        /\ UNCHANGED <<settings, counted, level, scan, line, fence_line, in_block>>
    BY <1>5 DEF decide_stop
  <2>2. may_act_next
    BY <2>1 DEF may_act_next
  <2> QED BY <2>1, <2>2, SilentKeeps
<1>6. ASSUME settings' = settings, Closed PROVE TInv'
  <2>1. Says("keep", 0) /\ ~open' /\ UNCHANGED <<settings, counted, level, scan, line, fence_line, in_block>>
    BY <1>6 DEF Closed
  <2> QED BY <2>1, SilentKeeps
<1> QED BY <1>1, <1>2, <1>3, <1>4, <1>5, <1>6 DEF ThinkingNext

LEMMA ThinkingStarts == ThinkingInit => TInv
<1> SUFFICES ASSUME ThinkingInit PROVE TInv
  OBVIOUS
<1>1. /\ settings \in Thinkings /\ counted = 0 /\ level = 0 /\ closed = "no" /\ scan = NewScan
      /\ action = [kind |-> "keep", announced |-> FALSE, over |-> 0]
      /\ line = <<>> /\ fence_line = NoFence /\ in_block = FALSE
  BY DEF ThinkingInit
<1>2. Here = [fence |-> NoFence, line |-> <<>>, call |-> FALSE] /\ Here \in Lines
  <2>1. Here = [fence |-> NoFence, line |-> <<>>, call |-> FALSE]
    BY <1>1 DEF Here
  <2>2. <<>> \in Seq(Characters) /\ FALSE \in BOOLEAN
    OBVIOUS
  <2>3. [fence |-> NoFence, line |-> <<>>, call |-> FALSE] \in Lines
    BY <2>2 DEF Lines
  <2> QED BY <2>1, <2>3
<1>3. /\ IsScan(scan) /\ scan.call = FALSE /\ scan.fence = NoFence /\ scan.bol = TRUE
      /\ scan.lead = Indent(0)
  BY <1>1 DEF NewScan, IsScan
<1>4. Sim(scan, Here)
  BY <1>2, <1>3, EmptyLine DEF Sim, LeadAgrees, LastAgrees
<1>5. action.kind = "keep"
  BY <1>1
<1>6. OutsideCode /\ OnlyAnnounced /\ InItsWindow /\ ClosedOnce
  BY <1>1, <1>5 DEF OutsideCode, OnlyAnnounced, InItsWindow, ClosedOnce
<1>7. CloseWaitsNoLonger
  BY <1>1, SettingsTyped DEF CloseWaitsNoLonger, NoBudget
<1> QED BY <1>1, <1>4, <1>6, <1>7 DEF TInv, ThinkingActs

(* The two ways of reading a reasoning block agree on every text, so       *)
(* insertions land outside of code, in their windows, and only at draws    *)
(* that were announced.  (decide, decide_stop, may_act_next of             *)
(* src/thinking.rs)                                                        *)
THEOREM ThinkingIsSound == ThinkingSpec => []ThinkingActs
<1>1. ThinkingInit => TInv
  BY ThinkingStarts
<1>2. TInv /\ [ThinkingNext]_thinkingVars => TInv'
  BY ThinkingKeeps
<1>3. TInv => ThinkingActs
  BY DEF TInv
<1> QED BY <1>1, <1>2, <1>3, PTL DEF ThinkingSpec

------------------------------------------------------------------------------
(* PrefixMatch.                                                            *)

(* A span of the images of one side: whole, and over cells of its image.   *)
Spans == [start : Nat, len : Nat \ {0}, digest : Images]
Lies(i, cells) ==
    /\ i \in Spans /\ i.len = ImageLen[i.digest] /\ End(i) =< Len(cells)
    /\ \A k \in i.start + 1 .. End(i) : cells[k] = i.digest
Apart(i, j) == i # j => End(i) =< j.start \/ End(j) =< i.start
Side(l) ==
    /\ l = [cells |-> l.cells, images |-> l.images] /\ l.cells \in Seq(Cell)
    /\ \A i \in l.images : Lies(i, l.cells)
    /\ \A i \in l.images, j \in l.images : Apart(i, j)

(* Every image cell lies in a span, but for those of an image the lineage  *)
(* stopped in.                                                             *)
Covered(l, k) == \E i \in l.images : i.start < k /\ k =< End(i)
Until(l, t) == \A k \in 1 .. t : l.cells[k] \in Images => Covered(l, k)
Cut(l, t) ==
    \E d \in Images : /\ Len(l.cells) - t < ImageLen[d]
                      /\ \A k \in t + 1 .. Len(l.cells) : l.cells[k] = d
Stoppable(l) == \E t \in 0 .. Len(l.cells) : Until(l, t) /\ (t < Len(l.cells) => Cut(l, t))

(* What always holds of a cached lineage and a prompt.                     *)
PairInv == Side(lineage) /\ Stoppable(lineage) /\ Side(prompt) /\ Whole(prompt)

LEMMA EndTyped ==
    ASSUME NEW i \in Spans
    PROVE  /\ i.start \in Nat /\ i.len \in Nat /\ i.len > 0 /\ i.digest \in Images
           /\ End(i) \in Nat /\ End(i) = i.start + i.len /\ i.start < End(i)
BY DEF Spans, End

LEMMA WholeIsUntil ==
    ASSUME NEW l, Side(l)
    PROVE  Whole(l) <=> Until(l, Len(l.cells))
<1>1. DOMAIN l.cells = 1 .. Len(l.cells)
  BY DEF Side
<1> QED BY <1>1 DEF Whole, Until, Covered

LEMMA WholeHasTail ==
    ASSUME NEW l, Side(l), Whole(l)
    PROVE  Stoppable(l)
<1>1. Len(l.cells) \in Nat
  BY DEF Side
<1> QED BY <1>1, WholeIsUntil DEF Stoppable

(* A text cell more. *)
LEMMA TextGrows ==
    ASSUME NEW l, Side(l), Whole(l), NEW t \in Text
    PROVE  Side(WithText(l, t)) /\ Whole(WithText(l, t))
<1> DEFINE m == WithText(l, t)
<1>1. m = [cells |-> Append(l.cells, t), images |-> l.images]
  <2>1. l = [cells |-> l.cells, images |-> l.images]
    BY DEF Side
  <2> QED BY ONLY <2>1 DEF WithText
<1>2. /\ l.cells \in Seq(Cell) /\ t \in Cell /\ Len(l.cells) \in Nat
      /\ Append(l.cells, t) \in Seq(Cell) /\ Len(Append(l.cells, t)) = Len(l.cells) + 1
      /\ \A k \in 1 .. Len(l.cells) : Append(l.cells, t)[k] = l.cells[k]
      /\ Append(l.cells, t)[Len(l.cells) + 1] = t
  BY DEF Side, Cell
<1>3. m.cells = Append(l.cells, t) /\ m.images = l.images
  BY <1>1
<1> HIDE DEF m
<1>4. ASSUME NEW i \in l.images PROVE Lies(i, m.cells)
  <2>1. Lies(i, l.cells)
    BY DEF Side
  <2>2. i.start \in Nat /\ End(i) \in Nat /\ End(i) =< Len(l.cells)
    BY <2>1, EndTyped DEF Lies
  <2>3. \A k \in i.start + 1 .. End(i) : k \in 1 .. Len(l.cells)
    BY <1>2, <2>2
  <2> QED BY <1>2, <1>3, <2>1, <2>2, <2>3 DEF Lies
<1>5. Side(m)
  BY <1>1, <1>2, <1>3, <1>4 DEF Side, m
<1>6. Until(m, Len(m.cells))
  <2> SUFFICES ASSUME NEW k \in 1 .. Len(l.cells) + 1, m.cells[k] \in Images PROVE Covered(m, k)
    BY <1>2, <1>3 DEF Until
  <2>1. k # Len(l.cells) + 1
    BY <1>2, <1>3, PadAssumption
  <2>2. k \in 1 .. Len(l.cells) /\ l.cells[k] \in Images
    BY <1>2, <1>3, <2>1
  <2> QED BY <1>3, <2>2, WholeIsUntil DEF Until, Covered
<1> QED BY <1>5, <1>6, WholeIsUntil DEF m

(* An image more.                                                          *)
LEMMA ImageGrows ==
    ASSUME NEW l, Side(l), Whole(l), NEW d \in Images
    PROVE  Side(WithImage(l, d)) /\ Whole(WithImage(l, d))
<1> DEFINE m == WithImage(l, d)
           n == Len(l.cells)
           more == [k \in 1 .. ImageLen[d] |-> d]
           new == Span(n, ImageLen[d], d)
<1>0. ImageLen[d] \in Nat /\ ImageLen[d] > 0 /\ n \in Nat /\ l.cells \in Seq(Cell)
  BY PairAssumption DEF Side
<1>1. more \in Seq(Cell) /\ Len(more) = ImageLen[d] /\ \A k \in 1 .. ImageLen[d] : more[k] = d
  BY <1>0 DEF Cell
<1>2. m = [cells |-> l.cells \o more, images |-> l.images \cup {new}]
  BY DEF WithImage
<1> HIDE DEF m, more, new
<1>3. m.cells = l.cells \o more /\ m.images = l.images \cup {new}
  BY <1>2
<1>4. /\ m.cells \in Seq(Cell) /\ Len(m.cells) = n + ImageLen[d]
      /\ \A k \in 1 .. n : m.cells[k] = l.cells[k]
      /\ \A k \in n + 1 .. n + ImageLen[d] : m.cells[k] = d
  <2>1. /\ m.cells \in Seq(Cell) /\ Len(m.cells) = Len(l.cells) + Len(more)
        /\ \A k \in 1 .. Len(l.cells) + Len(more) :
              m.cells[k] = IF k =< Len(l.cells) THEN l.cells[k] ELSE more[k - Len(l.cells)]
    <3> DEFINE w == l.cells \o more
    <3>1. /\ w \in Seq(Cell) /\ Len(w) = Len(l.cells) + Len(more)
          /\ \A k \in 1 .. Len(l.cells) + Len(more) :
                w[k] = IF k =< Len(l.cells) THEN l.cells[k] ELSE more[k - Len(l.cells)]
      <4>1. l.cells \in Seq(Cell) /\ more \in Seq(Cell)
        BY <1>0, <1>1
      <4> QED BY ONLY <4>1, ConcatProperties
    <3> QED BY <1>3, <3>1
  <2>2. ASSUME NEW k \in n + 1 .. n + ImageLen[d] PROVE m.cells[k] = d
    <3>1. k \in 1 .. n + ImageLen[d] /\ ~(k =< n) /\ k - n \in 1 .. ImageLen[d]
      BY <1>0
    <3> QED BY <1>1, <2>1, <3>1
  <2>3. ASSUME NEW k \in 1 .. n PROVE m.cells[k] = l.cells[k]
    <3>1. k \in 1 .. n + ImageLen[d] /\ k =< n
      BY <1>0
    <3> QED BY <1>1, <2>1, <3>1
  <2> QED BY <1>0, <1>1, <2>1, <2>2, <2>3
<1>5. new \in Spans /\ new.start = n /\ new.len = ImageLen[d] /\ new.digest = d
      /\ End(new) = n + ImageLen[d]
  BY <1>0 DEF Span, Spans, End, new
<1>6. ASSUME NEW i \in l.images PROVE Lies(i, m.cells) /\ End(i) =< n
  <2>1. Lies(i, l.cells)
    BY DEF Side
  <2>2. i.start \in Nat /\ End(i) \in Nat /\ End(i) =< n
    BY <2>1, EndTyped DEF Lies
  <2>3. \A k \in i.start + 1 .. End(i) : k \in 1 .. n
    BY <1>0, <2>2
  <2> QED BY <1>0, <1>4, <2>1, <2>2, <2>3 DEF Lies
<1>7. Lies(new, m.cells)
  BY <1>4, <1>5 DEF Lies
<1>8. \A i \in m.images, j \in m.images : Apart(i, j)
  BY <1>3, <1>5, <1>6 DEF Side, Apart
<1>9. Side(m)
  BY <1>2, <1>3, <1>4, <1>6, <1>7, <1>8 DEF Side
<1>10. Until(m, Len(m.cells))
  <2> SUFFICES ASSUME NEW k \in 1 .. n + ImageLen[d], m.cells[k] \in Images PROVE Covered(m, k)
    BY <1>4 DEF Until
  <2>1. CASE k =< n
    BY <1>0, <1>3, <1>4, <2>1, WholeIsUntil DEF Until, Covered
  <2>2. CASE k > n
    BY <1>0, <1>3, <1>5, <2>2 DEF Covered
  <2> QED BY <1>0, <2>1, <2>2
<1> QED BY <1>9, <1>10, WholeIsUntil DEF m

(* A lineage that stopped, wherever that was.                              *)
LEMMA Stops ==
    ASSUME NEW l, Side(l), Stoppable(l), NEW m \in Stopped(l)
    PROVE  Side(m) /\ Stoppable(m)
<1>1. PICK n \in 0 .. Len(l.cells) - 1 :
         m = [cells |-> SubSeq(l.cells, 1, n), images |-> images_within(l.images, n)]
  BY DEF Stopped
<1>2. l.cells \in Seq(Cell) /\ Len(l.cells) \in Nat /\ n \in Nat /\ n < Len(l.cells)
  BY DEF Side
<1>3. m.cells = SubSeq(l.cells, 1, n) /\ m.images = {i \in l.images : End(i) =< n}
  BY <1>1 DEF images_within
<1>4. m.cells \in Seq(Cell) /\ Len(m.cells) = n /\ \A k \in 1 .. n : m.cells[k] = l.cells[k]
  BY <1>2, <1>3
<1>5. ASSUME NEW i \in m.images PROVE Lies(i, m.cells)
  <2>1. Lies(i, l.cells) /\ End(i) =< n
    BY <1>3 DEF Side
  <2>2. i.start \in Nat /\ End(i) \in Nat
    BY <2>1, EndTyped DEF Lies
  <2>3. \A k \in i.start + 1 .. End(i) : k \in 1 .. n
    BY <1>2, <2>1, <2>2
  <2> QED BY <1>4, <2>1, <2>2, <2>3 DEF Lies
<1>6. Side(m)
  <2>1. m = [cells |-> m.cells, images |-> m.images]
    BY <1>1
  <2>2. \A i \in m.images, j \in m.images : Apart(i, j)
    BY <1>3 DEF Side
  <2> QED BY <1>4, <1>5, <2>1, <2>2 DEF Side
<1>7. PICK t \in 0 .. Len(l.cells) : Until(l, t) /\ (t < Len(l.cells) => Cut(l, t))
  BY DEF Stoppable
<1>8. ASSUME NEW i \in l.images
      PROVE  /\ i.start \in Nat /\ End(i) \in Nat /\ i.start < End(i) /\ End(i) =< Len(l.cells)
             /\ End(i) = i.start + i.len /\ i.len = ImageLen[i.digest] /\ i.digest \in Images
             /\ \A k \in i.start + 1 .. End(i) : l.cells[k] = i.digest
  <2>1. Lies(i, l.cells)
    BY DEF Side
  <2> QED BY <2>1, EndTyped DEF Lies
(* No span starts within the image the lineage stopped in. *)
<1>9. ASSUME NEW i \in l.images, t < Len(l.cells) PROVE i.start < t
  <2>1. PICK d \in Images : /\ Len(l.cells) - t < ImageLen[d]
                            /\ \A k \in t + 1 .. Len(l.cells) : l.cells[k] = d
    BY <1>7, <1>9 DEF Cut
  <2> SUFFICES ASSUME i.start >= t PROVE FALSE
    BY <1>8
  <2>2. i.start + 1 \in t + 1 .. Len(l.cells) /\ i.start + 1 \in i.start + 1 .. End(i)
    BY <1>8
  <2>3. i.digest = d
    BY <1>8, <2>1, <2>2
  <2>4. ImageLen[d] \in Nat
    BY PairAssumption
  <2> QED BY <1>2, <1>8, <2>1, <2>3, <2>4
<1>10. CASE \E i \in l.images : i.start < n /\ n < End(i)
  <2>1. PICK i \in l.images : i.start < n /\ n < End(i)
    BY <1>10
  <2>2. ASSUME NEW k \in 1 .. i.start, m.cells[k] \in Images PROVE Covered(m, k)
    <3>1. k =< t
      BY <1>2, <1>8, <1>9
    <3>2. k \in 1 .. n /\ k \in 1 .. t /\ l.cells[k] \in Images
      BY <1>2, <1>4, <1>8, <2>1, <2>2, <3>1
    <3>3. PICK j \in l.images : j.start < k /\ k =< End(j)
      BY <1>7, <3>2 DEF Until, Covered
    <3>4. Apart(i, j) /\ i # j
      BY <1>8, <2>2, <3>3 DEF Side
    <3>5. End(j) =< i.start
      BY <1>8, <3>3, <3>4 DEF Apart
    <3>6. End(j) =< n
      BY <1>8, <2>1, <3>5
    <3> QED BY <1>3, <3>3, <3>6 DEF Covered
  <2>3. Cut(m, i.start)
    <3>1. n - i.start < ImageLen[i.digest] /\ i.digest \in Images
      <4>1. ImageLen[i.digest] \in Nat
        BY <1>8, PairAssumption
      <4> QED BY <1>2, <1>8, <2>1, <4>1
    <3>2. \A k \in i.start + 1 .. n : m.cells[k] = i.digest
      BY <1>4, <1>8, <2>1
    <3> QED BY <1>4, <3>1, <3>2 DEF Cut
  <2>4. i.start \in 0 .. Len(m.cells)
    BY <1>4, <1>8, <2>1
  <2>5. Until(m, i.start)
    BY <2>2 DEF Until
  <2> QED BY <1>6, <2>3, <2>4, <2>5 DEF Stoppable
<1>11. CASE ~\E i \in l.images : i.start < n /\ n < End(i)
  <2>1. ASSUME NEW k \in 1 .. n, k =< t, m.cells[k] \in Images PROVE Covered(m, k)
    <3>1. k \in 1 .. t /\ l.cells[k] \in Images
      BY <1>2, <1>4, <2>1
    <3>2. PICK j \in l.images : j.start < k /\ k =< End(j)
      BY <1>7, <3>1 DEF Until, Covered
    <3>3. End(j) =< n
      BY <1>2, <1>8, <1>11, <3>2
    <3> QED BY <1>3, <3>2, <3>3 DEF Covered
  <2>2. CASE n =< t
    <3>1. Until(m, n)
      BY <1>2, <2>1, <2>2 DEF Until
    <3>2. n \in 0 .. Len(m.cells) /\ ~(n < Len(m.cells))
      BY <1>2, <1>4
    <3> QED BY <1>6, <3>1, <3>2 DEF Stoppable
  <2>3. CASE t < n
    <3>1. Until(m, t)
      BY <1>2, <2>1, <2>3 DEF Until
    <3>2. Cut(m, t)
      <4>1. PICK d \in Images : /\ Len(l.cells) - t < ImageLen[d]
                                /\ \A k \in t + 1 .. Len(l.cells) : l.cells[k] = d
        BY <1>2, <1>7, <2>3 DEF Cut
      <4>2. ImageLen[d] \in Nat
        BY PairAssumption
      <4>3. Len(m.cells) - t < ImageLen[d]
        BY <1>2, <1>4, <4>1, <4>2
      <4>4. \A k \in t + 1 .. Len(m.cells) : m.cells[k] = d
        BY <1>2, <1>4, <4>1
      <4> QED BY <4>3, <4>4 DEF Cut
    <3>3. t \in 0 .. Len(m.cells)
      BY <1>2, <1>4, <2>3
    <3> QED BY <1>6, <3>1, <3>2, <3>3 DEF Stoppable
  <2> QED BY <1>2, <2>2, <2>3
<1> QED BY <1>10, <1>11

LEMMA PairKeeps ==
    ASSUME PairInv, [PairNext]_<<lineage, prompt>>
    PROVE  PairInv'
<1>1. ASSUME NEW l, Side(l), Whole(l), NEW m \in Grown(l) PROVE Side(m) /\ Whole(m)
  <2>1. (\E t \in Text : m = WithText(l, t)) \/ (\E i \in Images : m = WithImage(l, i))
    BY DEF Grown
  <2> QED BY <1>1, <2>1, TextGrows, ImageGrows
<1>2. CASE GrowLineage
  <2>1. lineage' \in Grown(lineage) /\ Whole(lineage) /\ prompt' = prompt
    BY <1>2 DEF GrowLineage
  <2>2. Side(lineage') /\ Whole(lineage')
    BY <1>1, <2>1 DEF PairInv
  <2> QED BY <2>1, <2>2, WholeHasTail DEF PairInv
<1>3. CASE StopLineage
  <2>1. lineage' \in Stopped(lineage) /\ prompt' = prompt
    BY <1>3 DEF StopLineage
  <2>2. Side(lineage') /\ Stoppable(lineage')
    BY <2>1, Stops DEF PairInv
  <2> QED BY <2>1, <2>2 DEF PairInv
<1>4. CASE GrowPrompt
  <2>1. prompt' \in Grown(prompt) /\ lineage' = lineage
    BY <1>4 DEF GrowPrompt
  <2>2. Side(prompt') /\ Whole(prompt')
    BY <1>1, <2>1 DEF PairInv
  <2> QED BY <2>1, <2>2 DEF PairInv
<1>5. CASE UNCHANGED <<lineage, prompt>>
  BY <1>5 DEF PairInv
<1> QED BY <1>2, <1>3, <1>4, <1>5 DEF PairNext

LEMMA PairStarts == PairInit => PairInv
<1>1. Side(Empty) /\ Whole(Empty)
  <2>1. Empty.cells = <<>> /\ Empty.images = {} /\ <<>> \in Seq(Cell)
    BY DEF Empty
  <2> QED BY <2>1 DEF Empty, Side, Whole
<1> QED BY <1>1, WholeHasTail DEF PairInit, PairInv

LEMMA MinIs ==
    ASSUME NEW S, S \subseteq Nat, NEW x \in S, \A y \in S : x =< y
    PROVE  Min(S) = x
<1>1. x \in S /\ (\A y \in S : x =< y) /\ \A z \in S : (\A y \in S : z =< y) => z = x
  OBVIOUS
<1> QED BY <1>1 DEF Min

LEMMA MaxIs ==
    ASSUME NEW S, S \subseteq Nat, NEW x \in S, \A y \in S : y =< x
    PROVE  Max(S) = x
<1>1. x \in S /\ (\A y \in S : x >= y) /\ \A z \in S : (\A y \in S : z >= y) => z = x
  OBVIOUS
<1> QED BY <1>1 DEF Max

LEMMA MinOfTwo ==
    ASSUME NEW x \in Nat, NEW y \in Nat
    PROVE  Min({x, y}) = IF x =< y THEN x ELSE y
<1>1. CASE x =< y
  <2>1. {x, y} \subseteq Nat /\ x \in {x, y} /\ \A z \in {x, y} : x =< z
    BY <1>1
  <2> QED BY <1>1, <2>1, MinIs
<1>2. CASE ~(x =< y)
  <2>1. {x, y} \subseteq Nat /\ y \in {x, y} /\ \A z \in {x, y} : y =< z
    BY <1>2
  <2> QED BY <1>2, <2>1, MinIs
<1> QED BY <1>1, <1>2

LEMMA TokensOfSide ==
    ASSUME NEW l, Side(l)
    PROVE  /\ TokensOf(l.cells) \in Seq(Token) /\ Len(TokensOf(l.cells)) = Len(l.cells)
           /\ Len(l.cells) \in Nat
           /\ \A k \in 1 .. Len(l.cells) :
                 TokensOf(l.cells)[k] = IF l.cells[k] \in Images THEN Pad ELSE l.cells[k]
<1>1. l.cells \in Seq(Cell) /\ DOMAIN l.cells = 1 .. Len(l.cells) /\ Len(l.cells) \in Nat
  BY DEF Side
<1>2. \A k \in 1 .. Len(l.cells) : l.cells[k] \in Cell
  BY <1>1
<1>3. \A k \in 1 .. Len(l.cells) : (IF l.cells[k] \in Images THEN Pad ELSE l.cells[k]) \in Token
  BY <1>2 DEF Cell, Token
<1> DEFINE t == [k \in 1 .. Len(l.cells) |-> IF l.cells[k] \in Images THEN Pad ELSE l.cells[k]]
<1>4. TokensOf(l.cells) = t
  BY <1>1 DEF TokensOf
<1>5. t \in Seq(Token) /\ Len(t) = Len(l.cells)
  <2>1. t \in [1 .. Len(l.cells) -> Token]
    BY <1>3
  <2> HIDE DEF t
  <2> QED BY ONLY <1>1, <2>1
<1> QED BY <1>1, <1>4, <1>5

(* The longest common beginning of two sequences of tokens.                *)
LEMMA CommonPrefix ==
    ASSUME NEW a \in Seq(Token), NEW b \in Seq(Token), NEW c, c = common_prefix_len(a, b)
    PROVE  /\ c \in Nat /\ c =< Len(a) /\ c =< Len(b)
           /\ \A i \in 1 .. c : a[i] = b[i]
           /\ \A n \in Nat : n =< Len(a) /\ n =< Len(b) /\ (\A i \in 1 .. n : a[i] = b[i]) => n =< c
<1>0. Len(a) \in Nat /\ Len(b) \in Nat
  OBVIOUS
<1> DEFINE low == Min({Len(a), Len(b)})
           T == {n \in 0 .. low : \A i \in 1 .. n : a[i] = b[i]}
<1>1. low \in Nat /\ low =< Len(a) /\ low =< Len(b) /\ (low = Len(a) \/ low = Len(b))
  BY <1>0, MinOfTwo
<1> HIDE DEF low
<1>2. T \subseteq Nat /\ 0 \in T /\ \A n \in T : n =< low
  BY <1>1
<1>3. Max(T) \in T /\ \A n \in T : n =< Max(T)
  <2> HIDE DEF T
  <2>1. T # {}
    BY <1>2
  <2> QED BY <1>1, <1>2, <2>1, Greatest
<1>4. c = Max(T)
  BY DEF common_prefix_len, low
<1>5. \A n \in Nat : n =< Len(a) /\ n =< Len(b) /\ (\A i \in 1 .. n : a[i] = b[i]) => n \in T
  <2> SUFFICES ASSUME NEW n \in Nat, n =< Len(a), n =< Len(b), \A i \in 1 .. n : a[i] = b[i]
               PROVE  n \in T
    OBVIOUS
  <2>1. n \in 0 .. low
    BY <1>0, <1>1
  <2> QED BY <2>1
<1>6. \A n \in T : n \in Nat /\ n =< low /\ \A i \in 1 .. n : a[i] = b[i]
  BY <1>1
<1> HIDE DEF T
<1> QED BY <1>0, <1>1, <1>3, <1>4, <1>5, <1>6

(* The tokens in common, up to the first span one side has alone.          *)
LEMMA SharedPrefix ==
    ASSUME NEW a, NEW imagesA, NEW b, NEW imagesB, NEW c \in Nat, c = common_prefix_len(a, b),
           \A i \in imagesA \cup imagesB : i.start \in Nat,
           NEW s, s = shared_prefix(a, imagesA, b, imagesB)
    PROVE  /\ s \in Nat /\ s =< c
           /\ \A i \in SymDiff(imagesA, imagesB) : s =< i.start
           /\ s = c \/ \E i \in SymDiff(imagesA, imagesB) : s = i.start
<1> DEFINE S == {c} \cup {i.start : i \in SymDiff(imagesA, imagesB)}
<1>1. SymDiff(imagesA, imagesB) \subseteq imagesA \cup imagesB
  BY DEF SymDiff
<1>2. S \subseteq Nat /\ S # {}
  BY <1>1
<1>3. s = Min(S)
  BY DEF shared_prefix
<1> HIDE DEF S
<1>4. s \in S /\ \A x \in S : s =< x
  BY <1>2, <1>3, Least
<1> QED BY <1>2, <1>4 DEF S

LEMMA SpanFacts ==
    ASSUME NEW l, Side(l), NEW i \in l.images
    PROVE  /\ i \in Spans /\ i.start \in Nat /\ End(i) \in Nat /\ i.start < End(i) /\ End(i) =< Len(l.cells)
           /\ End(i) = i.start + i.len /\ i.len = ImageLen[i.digest] /\ i.digest \in Images
           /\ i.len \in Nat
           /\ \A k \in i.start + 1 .. End(i) : l.cells[k] = i.digest
<1>1. Lies(i, l.cells)
  BY DEF Side
<1> QED BY <1>1, EndTyped DEF Lies

(* Where cells agree behind a span one side has alone, the other has one   *)
(* alone that starts before it.                                            *)
LEMMA AloneBefore ==
    ASSUME NEW x, Side(x), NEW y, Side(y), Stoppable(y), NEW j \in x.images, j \notin y.images,
           NEW n \in Nat, End(j) =< n, n =< Len(y.cells),
           \A k \in 1 .. n : x.cells[k] = y.cells[k]
    PROVE  \E k \in y.images : k \notin x.images /\ k.start < j.start
<1>0. /\ j \in Spans /\ j.start \in Nat /\ End(j) \in Nat /\ j.start < End(j)
      /\ End(j) = j.start + j.len /\ j.len = ImageLen[j.digest] /\ j.digest \in Images
      /\ x.cells[j.start + 1] = j.digest
  <2>1. /\ j \in Spans /\ j.start \in Nat /\ End(j) \in Nat /\ j.start < End(j)
        /\ End(j) = j.start + j.len /\ j.len = ImageLen[j.digest] /\ j.digest \in Images
        /\ \A k \in j.start + 1 .. End(j) : x.cells[k] = j.digest
    BY SpanFacts
  <2>2. j.start + 1 \in j.start + 1 .. End(j)
    BY <2>1
  <2> QED BY <2>1, <2>2
<1>1. y.cells[j.start + 1] = j.digest /\ j.start + 1 =< n
  BY <1>0
<1>2. PICK t \in 0 .. Len(y.cells) : Until(y, t) /\ (t < Len(y.cells) => Cut(y, t))
  BY DEF Stoppable
<1>3. Len(y.cells) \in Nat
  BY DEF Side
<1>4. CASE j.start + 1 =< t
  <2>1. PICK k \in y.images : k.start < j.start + 1 /\ j.start + 1 =< End(k)
    <3>1. j.start + 1 \in 1 .. t
      BY <1>0, <1>4
    <3> QED BY <1>0, <1>1, <1>2, <3>1 DEF Until, Covered
  <2>2. /\ k \in Spans /\ k.start \in Nat /\ End(k) \in Nat
        /\ k.len = ImageLen[k.digest] /\ y.cells[j.start + 1] = k.digest
    <3>1. /\ k \in Spans /\ k.start \in Nat /\ End(k) \in Nat /\ k.len = ImageLen[k.digest]
          /\ \A c \in k.start + 1 .. End(k) : y.cells[c] = k.digest
      BY SpanFacts
    <3>2. j.start + 1 \in k.start + 1 .. End(k)
      BY <1>0, <2>1, <3>1
    <3> QED BY <3>1, <3>2
  <2>3. k.start # j.start
    <3> SUFFICES ASSUME k.start = j.start PROVE FALSE
      OBVIOUS
    <3>1. k.digest = j.digest /\ k.len = j.len
      BY <1>0, <1>1, <2>2
    <3>2. k = j
      BY <1>0, <2>2, <3>1 DEF Spans
    <3> QED BY <3>2
  <2>4. k.start < j.start
    BY <1>0, <2>1, <2>2, <2>3
  <2>5. k \notin x.images
    <3> SUFFICES ASSUME k \in x.images PROVE FALSE
      OBVIOUS
    <3>1. Apart(k, j) /\ k # j
      BY <2>3 DEF Side
    <3> QED BY <1>0, <2>1, <2>2, <2>4, <3>1 DEF Apart
  <2> QED BY <2>4, <2>5
<1>5. CASE ~(j.start + 1 =< t)
  <2>1. t < Len(y.cells)
    BY <1>0, <1>1, <1>3, <1>5
  <2>2. PICK d \in Images : /\ Len(y.cells) - t < ImageLen[d]
                            /\ \A k \in t + 1 .. Len(y.cells) : y.cells[k] = d
    BY <1>2, <2>1 DEF Cut
  <2>3. d = j.digest
    <3>1. j.start + 1 \in t + 1 .. Len(y.cells)
      BY <1>0, <1>1, <1>3, <1>5
    <3> QED BY <1>1, <2>2, <3>1
  <2>4. ImageLen[d] \in Nat
    BY PairAssumption
  <2> QED BY <1>0, <1>1, <1>3, <1>5, <2>2, <2>3, <2>4
<1> QED BY <1>4, <1>5

(* s cells agree, and cut no image; no more do. *)
Shares(x, y, s) ==
    /\ s \in Nat /\ s =< Len(x.cells) /\ s =< Len(y.cells)
    /\ \A k \in 1 .. s : x.cells[k] = y.cells[k]
    /\ ~Inside(x.images \cup y.images, s)
    /\ \A n \in Nat : /\ n =< Len(x.cells) /\ n =< Len(y.cells)
                      /\ \A k \in 1 .. n : x.cells[k] = y.cells[k]
                      /\ ~Inside(x.images \cup y.images, n)
                      => n =< s

(* What the two sides share is what their cells do, up to an image's edge. *)
LEMMA SharedFacts ==
    ASSUME NEW x, Side(x), Stoppable(x), NEW y, Side(y), Whole(y),
           NEW s, s = shared_prefix(TokensOf(x.cells), x.images, TokensOf(y.cells), y.images)
    PROVE  Shares(x, y, s)
<1> DEFINE a == TokensOf(x.cells)
           b == TokensOf(y.cells)
           c == common_prefix_len(a, b)
<1>1. /\ a \in Seq(Token) /\ Len(a) = Len(x.cells) /\ Len(x.cells) \in Nat
      /\ \A k \in 1 .. Len(x.cells) : a[k] = IF x.cells[k] \in Images THEN Pad ELSE x.cells[k]
  BY TokensOfSide
<1>2. /\ b \in Seq(Token) /\ Len(b) = Len(y.cells) /\ Len(y.cells) \in Nat
      /\ \A k \in 1 .. Len(y.cells) : b[k] = IF y.cells[k] \in Images THEN Pad ELSE y.cells[k]
  BY TokensOfSide
<1>3. s = shared_prefix(a, x.images, b, y.images)
  OBVIOUS
<1>4. x.cells \in Seq(Cell) /\ y.cells \in Seq(Cell)
  BY DEF Side
<1> HIDE DEF a, b, c
<1>5. /\ c \in Nat /\ c =< Len(x.cells) /\ c =< Len(y.cells) /\ \A k \in 1 .. c : a[k] = b[k]
      /\ \A n \in Nat : n =< Len(x.cells) /\ n =< Len(y.cells) /\ (\A k \in 1 .. n : a[k] = b[k]) => n =< c
  BY <1>1, <1>2, CommonPrefix DEF c
<1>6. \A i \in x.images \cup y.images : i.start \in Nat
  BY SpanFacts
<1>7. /\ s \in Nat /\ s =< c
      /\ \A i \in SymDiff(x.images, y.images) : s =< i.start
      /\ s = c \/ \E i \in SymDiff(x.images, y.images) : s = i.start
  BY <1>3, <1>5, <1>6, SharedPrefix DEF c
<1>8. ASSUME NEW k \in 1 .. s PROVE x.cells[k] = y.cells[k]
  <2>1. /\ k \in 1 .. c /\ k \in 1 .. Len(x.cells) /\ k \in 1 .. Len(y.cells) /\ a[k] = b[k]
        /\ x.cells[k] \in Cell /\ y.cells[k] \in Cell
    BY <1>1, <1>2, <1>4, <1>5, <1>7
  <2>2. CASE y.cells[k] \in Images
    <3>1. PICK j \in y.images : j.start < k /\ k =< End(j)
      BY <2>1, <2>2, WholeIsUntil DEF Until, Covered
    <3>2. /\ j.start \in Nat /\ End(j) \in Nat
          /\ \A n \in j.start + 1 .. End(j) : y.cells[n] = j.digest
      BY SpanFacts
    <3>3. j \in x.images
      BY <1>7, <3>1, <3>2 DEF SymDiff
    <3>4. \A n \in j.start + 1 .. End(j) : x.cells[n] = j.digest
      BY <3>3, SpanFacts
    <3>5. k \in j.start + 1 .. End(j)
      BY <3>1, <3>2
    <3> QED BY <3>2, <3>4, <3>5
  <2>3. CASE y.cells[k] \notin Images
    <3>1. b[k] = y.cells[k] /\ y.cells[k] \in Text
      BY <1>2, <2>1, <2>3 DEF Cell
    <3>2. x.cells[k] \notin Images
      BY <1>1, <2>1, <3>1, PadAssumption
    <3> QED BY <1>1, <2>1, <3>1, <3>2
  <2> QED BY <2>2, <2>3
<1>9. ~Inside(x.images \cup y.images, s)
  <2> SUFFICES ASSUME NEW i \in x.images \cup y.images, i.start < s, s < End(i) PROVE FALSE
    BY DEF Inside
  <2>1. i.start \in Nat /\ End(i) \in Nat
    BY SpanFacts
  <2>2. i \in x.images /\ i \in y.images
    BY <1>7, <2>1 DEF SymDiff
  <2>3. /\ End(i) =< Len(x.cells) /\ End(i) =< Len(y.cells) /\ i.digest \in Images
        /\ \A k \in i.start + 1 .. End(i) : x.cells[k] = i.digest
        /\ \A k \in i.start + 1 .. End(i) : y.cells[k] = i.digest
    BY <2>2, SpanFacts
  <2>4. CASE s = c
    <3>1. s + 1 \in i.start + 1 .. End(i) /\ s + 1 \in 1 .. Len(x.cells) /\ s + 1 \in 1 .. Len(y.cells)
      BY <1>1, <1>2, <1>7, <2>1, <2>3
    <3>2. a[s + 1] = b[s + 1]
      BY <1>1, <1>2, <2>3, <3>1
    <3>3. \A k \in 1 .. s + 1 : a[k] = b[k]
      BY <1>5, <1>7, <2>4, <3>2
    <3>4. s + 1 \in Nat /\ s + 1 =< Len(x.cells) /\ s + 1 =< Len(y.cells)
      BY <1>1, <1>2, <1>7, <3>1
    <3>5. s + 1 =< c
      BY <1>5, <3>3, <3>4
    <3> QED BY <1>5, <2>4, <3>5
  <2>5. CASE s # c
    <3>1. PICK j \in SymDiff(x.images, y.images) : s = j.start
      BY <1>7, <2>5
    <3>2. i # j
      BY <3>1, <2>2 DEF SymDiff
    <3>3. Apart(i, j)
      BY <2>2, <3>1 DEF SymDiff, Side
    <3>4. End(j) \in Nat /\ j.start < End(j)
      BY <3>1, SpanFacts DEF SymDiff
    <3> QED BY <1>7, <2>1, <3>1, <3>2, <3>3, <3>4 DEF Apart
  <2> QED BY <2>4, <2>5
<1>10. ASSUME NEW n \in Nat, n =< Len(x.cells), n =< Len(y.cells),
              \A k \in 1 .. n : x.cells[k] = y.cells[k], ~Inside(x.images \cup y.images, n)
       PROVE  n =< s
  <2> SUFFICES ASSUME s < n PROVE FALSE
    BY <1>7
  <2>1. n =< c
    <3>1. \A k \in 1 .. n : k \in 1 .. Len(x.cells) /\ k \in 1 .. Len(y.cells)
      BY <1>1, <1>2, <1>10
    <3>2. \A k \in 1 .. n : a[k] = b[k]
      BY <1>1, <1>2, <1>10, <3>1
    <3> QED BY <1>5, <1>10, <3>2
  <2>2. PICK j \in SymDiff(x.images, y.images) : s = j.start
    BY <1>5, <1>7, <2>1
  <2>3. j \in x.images \cup y.images /\ j.start \in Nat /\ End(j) \in Nat
    BY SpanFacts DEF SymDiff
  <2>4. End(j) =< n
    BY <1>10, <2>2, <2>3 DEF Inside
  <2>5. \E k \in SymDiff(x.images, y.images) : k.start < j.start
    <3>1. CASE j \in x.images
      <4>1. j \notin y.images
        BY <2>2, <3>1 DEF SymDiff
      <4>2. PICK k \in y.images : k \notin x.images /\ k.start < j.start
        BY <1>10, <2>4, <3>1, <4>1, WholeHasTail, AloneBefore
      <4> QED BY <4>2 DEF SymDiff
    <3>2. CASE j \in y.images
      <4>1. j \notin x.images
        BY <2>2, <3>2 DEF SymDiff
      <4>2. \A k \in 1 .. n : y.cells[k] = x.cells[k]
        BY <1>10
      <4>3. PICK k \in x.images : k \notin y.images /\ k.start < j.start
        BY <1>10, <2>4, <3>2, <4>1, <4>2, AloneBefore
      <4> QED BY <4>3 DEF SymDiff
    <3> QED BY <2>3, <3>1, <3>2
  <2>6. PICK k \in SymDiff(x.images, y.images) : k.start < j.start
    BY <2>5
  <2>7. k.start \in Nat /\ s =< k.start
    BY <1>6, <1>7 DEF SymDiff
  <2> QED BY <1>7, <2>2, <2>6, <2>7
<1>11. s \in Nat /\ s =< Len(x.cells) /\ s =< Len(y.cells)
  BY <1>1, <1>2, <1>5, <1>7
<1> QED BY <1>8, <1>9, <1>10, <1>11 DEF Shares

(* The same of the pair. *)
LEMMA SharedOfPair ==
    ASSUME PairInv, NEW s,
           s = shared_prefix(TokensOf(lineage.cells), lineage.images, TokensOf(prompt.cells), prompt.images)
    PROVE  Shares(lineage, prompt, s)
<1>1. PICK x : x = lineage
  OBVIOUS
<1>2. PICK y : y = prompt
  OBVIOUS
<1>3. Side(x) /\ Stoppable(x) /\ Side(y) /\ Whole(y)
  BY <1>1, <1>2 DEF PairInv
<1>4. s = shared_prefix(TokensOf(x.cells), x.images, TokensOf(y.cells), y.images)
  BY <1>1, <1>2
<1>5. Shares(x, y, s)
  BY ONLY <1>3, <1>4, SharedFacts
<1> QED BY <1>1, <1>2, <1>5

(* It is the longest such beginning. *)
LEMMA SharedIsRight ==
    ASSUME PairInv
    PROVE  SharedIsExact
<1>0. PICK s : s = shared_prefix(TokensOf(lineage.cells), lineage.images, TokensOf(prompt.cells), prompt.images)
  OBVIOUS
<1> DEFINE low == Min({Len(lineage.cells), Len(prompt.cells)})
           S == {n \in 0 .. low : /\ SubSeq(lineage.cells, 1, n) = SubSeq(prompt.cells, 1, n)
                                  /\ ~Inside(lineage.images \cup prompt.images, n)}
<1>1. /\ s \in Nat /\ s =< Len(lineage.cells) /\ s =< Len(prompt.cells)
      /\ \A k \in 1 .. s : lineage.cells[k] = prompt.cells[k]
      /\ ~Inside(lineage.images \cup prompt.images, s)
      /\ \A n \in Nat : /\ n =< Len(lineage.cells) /\ n =< Len(prompt.cells)
                        /\ \A k \in 1 .. n : lineage.cells[k] = prompt.cells[k]
                        /\ ~Inside(lineage.images \cup prompt.images, n)
                        => n =< s
  BY <1>0, SharedOfPair DEF Shares
<1>2. /\ lineage.cells \in Seq(Cell) /\ prompt.cells \in Seq(Cell)
      /\ Len(lineage.cells) \in Nat /\ Len(prompt.cells) \in Nat
  BY DEF PairInv, Side
<1>3. low \in Nat /\ low =< Len(lineage.cells) /\ low =< Len(prompt.cells)
      /\ (low = Len(lineage.cells) \/ low = Len(prompt.cells))
  BY <1>2, MinOfTwo
<1>4. SharedIsExact <=> s = Max(S)
  BY <1>0 DEF SharedIsExact
<1> HIDE DEF low
<1>5. \A n \in 0 .. low : SubSeq(lineage.cells, 1, n) = SubSeq(prompt.cells, 1, n)
                            <=> \A k \in 1 .. n : lineage.cells[k] = prompt.cells[k]
  <2> SUFFICES ASSUME NEW n \in 0 .. low
               PROVE  SubSeq(lineage.cells, 1, n) = SubSeq(prompt.cells, 1, n)
                        <=> \A k \in 1 .. n : lineage.cells[k] = prompt.cells[k]
    OBVIOUS
  <2>1. /\ SubSeq(lineage.cells, 1, n) = [k \in 1 .. n |-> lineage.cells[k]]
        /\ SubSeq(prompt.cells, 1, n) = [k \in 1 .. n |-> prompt.cells[k]]
    BY <1>2, <1>3
  <2> QED BY <2>1
<1>6. s \in S
  BY <1>1, <1>3, <1>5
<1>7. ASSUME NEW n \in S PROVE n =< s
  <2>1. /\ n \in 0 .. low /\ n \in Nat /\ n =< Len(lineage.cells) /\ n =< Len(prompt.cells)
        /\ ~Inside(lineage.images \cup prompt.images, n)
    BY <1>2, <1>3
  <2>2. \A k \in 1 .. n : lineage.cells[k] = prompt.cells[k]
    BY <1>5, <2>1
  <2> QED BY <1>1, <2>1, <2>2
<1>8. S \subseteq Nat
  BY <1>3
<1> HIDE DEF S
<1> QED BY <1>4, <1>6, <1>7, <1>8, MaxIs

(* A resume and a durable entry's boundary, when the prompt ends in text.  *)
LEMMA NeverWithin ==
    ASSUME PairInv
    PROVE  NeverWithinImage
<1>0. PICK s : s = shared_prefix(TokensOf(lineage.cells), lineage.images, TokensOf(prompt.cells), prompt.images)
  OBVIOUS
<1> DEFINE l == [tokens |-> TokensOf(lineage.cells), images |-> lineage.images]
           p == TokensOf(prompt.cells)
           agreed == agreement(p, prompt.images, {l})
           last == Len(prompt.cells)
<1> SUFFICES ASSUME prompt.cells # <<>>, prompt.cells[last] \in Text
             PROVE  /\ ~Inside(prompt.images, agreed)
                    /\ \A turn \in {t \in 1 .. agreed : p[t] \in Text} :
                         ~Inside(prompt.images, boundary_position(agreed, 0, Len(p), 1, FALSE, turn))
  BY DEF NeverWithinImage
<1>1. s \in Nat /\ s =< last /\ ~Inside(lineage.images \cup prompt.images, s)
  BY <1>0, SharedOfPair DEF Shares
<1>2. /\ p \in Seq(Token) /\ Len(p) = last /\ last \in Nat
      /\ \A k \in 1 .. last : p[k] = IF prompt.cells[k] \in Images THEN Pad ELSE prompt.cells[k]
  BY TokensOfSide DEF PairInv
<1>3. last > 0
  BY DEF PairInv, Side
<1>4. l.tokens = TokensOf(lineage.cells) /\ l.images = lineage.images
  OBVIOUS
<1>5. agreed = Max({0} \cup {Min({s, last - 1})})
  <2>1. agreed = Max({0} \cup {Min({shared_prefix(m.tokens, m.images, p, prompt.images), Len(p) - 1}) : m \in {l}})
    BY DEF agreement
  <2>2. {Min({shared_prefix(m.tokens, m.images, p, prompt.images), Len(p) - 1}) : m \in {l}}
          = {Min({s, last - 1})}
    BY <1>0, <1>2, <1>4
  <2> QED BY <2>1, <2>2
<1> HIDE DEF l, p, last
<1>6. Min({s, last - 1}) = (IF s =< last - 1 THEN s ELSE last - 1) /\ last - 1 \in Nat
  BY <1>1, <1>2, <1>3, MinOfTwo
<1>7. agreed \in Nat /\ agreed =< last - 1 /\ (agreed = s \/ agreed = last - 1)
  <2> DEFINE m == Min({s, last - 1})
  <2>1. m \in Nat /\ m =< last - 1 /\ (m = s \/ m = last - 1)
    BY <1>1, <1>6
  <2> HIDE DEF m
  <2>2. Max({0} \cup {m}) = m
    <3>1. {0} \cup {m} \subseteq Nat /\ m \in {0} \cup {m} /\ \A z \in {0} \cup {m} : z =< m
      BY <2>1
    <3> QED BY <3>1, MaxIs
  <2> QED BY <1>5, <2>1, <2>2 DEF m
<1> HIDE DEF agreed
<1>8. ASSUME NEW i \in prompt.images
      PROVE  /\ i.start \in Nat /\ End(i) \in Nat /\ End(i) =< last /\ i.digest \in Images
             /\ \A k \in i.start + 1 .. End(i) : prompt.cells[k] = i.digest
  BY SpanFacts DEF PairInv, last
<1>9. \A i \in prompt.images, k \in 1 .. last : i.start < k /\ k =< End(i) => p[k] = Pad /\ prompt.cells[k] \in Images
  <2> SUFFICES ASSUME NEW i \in prompt.images, NEW k \in 1 .. last, i.start < k, k =< End(i)
               PROVE  p[k] = Pad /\ prompt.cells[k] \in Images
    OBVIOUS
  <2>1. k \in i.start + 1 .. End(i)
    BY <1>8
  <2> QED BY <1>2, <1>8, <2>1
<1>10. ~Inside(prompt.images, agreed)
  <2>1. CASE agreed = s
    BY <1>1, <2>1 DEF Inside
  <2>2. CASE agreed = last - 1
    <3> SUFFICES ASSUME NEW i \in prompt.images, i.start < last - 1, last - 1 < End(i) PROVE FALSE
      BY <2>2 DEF Inside
    <3>1. last \in 1 .. last /\ i.start < last /\ last =< End(i)
      BY <1>2, <1>3, <1>8
    <3> QED BY <1>9, <3>1, PadAssumption DEF last
  <2> QED BY <1>7, <2>1, <2>2
<1>11. ASSUME NEW turn \in {t \in 1 .. agreed : p[t] \in Text}
       PROVE  ~Inside(prompt.images, boundary_position(agreed, 0, Len(p), 1, FALSE, turn))
  <2>0. PICK b : b = boundary_position(agreed, 0, Len(p), 1, FALSE, turn)
    OBVIOUS
  <2>1. b = 0 \/ b = turn \/ b = agreed
    BY <2>0 DEF boundary_position
  <2> SUFFICES ~Inside(prompt.images, b)
    BY <2>0
  <2>2. CASE b = 0
    BY <1>8, <2>2 DEF Inside
  <2>3. CASE b = turn
    <3> SUFFICES ASSUME NEW i \in prompt.images, i.start < turn, turn < End(i) PROVE FALSE
      BY <2>3 DEF Inside
    <3>1. turn \in 1 .. last /\ turn =< End(i)
      BY <1>2, <1>7, <1>8
    <3> QED BY <1>9, <3>1, PadAssumption
  <2>4. CASE b = agreed
    BY <1>10, <2>4
  <2> QED BY <2>1, <2>2, <2>3, <2>4
<1> QED BY <1>10, <1>11

(* Tokens and image spans, all the session cache keeps of what a state was *)
(* computed from, tell two lineages apart exactly where their cells differ,*)
(* rounded down to the edge of an image; and no resume and no boundary of  *)
(* a durable entry lies within an image.  (shared_prefix, agreement,       *)
(* boundary_position of src/serve/session.rs)                              *)
THEOREM PrefixMatchIsExact == PairSpec => []PrefixExact
<1>1. PairInit => PairInv
  BY PairStarts
<1>2. PairInv /\ [PairNext]_<<lineage, prompt>> => PairInv'
  BY PairKeeps
<1>3. PairInv => PrefixExact
  BY SharedIsRight, NeverWithin DEF PrefixExact
<1> QED BY <1>1, <1>2, <1>3, PTL DEF PairSpec

=============================================================================
