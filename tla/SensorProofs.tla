---------------------------- MODULE SensorProofs ----------------------------
(***************************************************************************)
(* Proofs about Sensor.tla, and about Frame.tla and Profile.tla under it,  *)
(* for every chunk size, every set of settings and drafts and any number   *)
(* of operations: while nothing is lost, whole frames travel in order, so  *)
(* that each is taken out with its last chunk and parses to the attributes *)
(* it was made of, and the sensor holds what it was sent; and what is      *)
(* verified is what the preview showed.                                    *)
(* Induction over the bytes of a frame is induction over a set of numbers  *)
(* (NatInduct), for the functions that Frame.tla is written with.          *)
(***************************************************************************)
EXTENDS Sensor, SequenceTheorems, FiniteSetTheorems, WellFoundedInduction, TLAPS

(* -- induction, division, and sequences that are flattened --------------- *)

\* Induction over the numbers, as a fact about sets: a least number that is not in S cannot be.
LEMMA NatInduct ==
  ASSUME NEW S, 0 \in S, \A n \in Nat : n \in S => n + 1 \in S
  PROVE  Nat \subseteq S
<1> SUFFICES ASSUME Nat \ S # {} PROVE FALSE
  OBVIOUS
<1>1. PICK R : R = OpToRel(<, Nat)
  OBVIOUS
<1>2. PICK x \in Nat \ S : \A y \in Nat \ S : <<y, x>> \notin R
  BY <1>1, WFMin, NatLessThanWellFounded
<1>3. \A y \in Nat \ S : ~(y < x)
  BY <1>1, <1>2 DEF OpToRel
<1>4. x # 0
  BY <1>2
<1>5. x - 1 \in S
  BY <1>3, <1>4
<1> QED
  BY <1>2, <1>4, <1>5

\* What a quotient is.
LEMMA Division ==
  ASSUME NEW a \in Nat, NEW b \in Nat \ {0}
  PROVE  /\ a \div b \in Nat
         /\ b * (a \div b) <= a
         /\ a < b * (a \div b) + b
  OBVIOUS

\* Names one concatenation, so that a list of them can be spoken of.
Cat(s, t) == s \o t

\* The recursion of FlattenSeq has a solution.
LEMMA FlattenExists ==
  ASSUME NEW ss, NEW n \in Nat
  PROVE  \E f : /\ f[1] = ss[1]
                /\ \A i \in 2..(n + 1) : f[i] = Cat(f[i - 1], ss[i])
<1> DEFINE Solves(f, m) == /\ f[1] = ss[1]
                           /\ \A i \in 2..(m + 1) : f[i] = Cat(f[i - 1], ss[i])
           S == {m \in Nat : \E f : Solves(f, m)}
<1>1. Solves([i \in 1..1 |-> ss[i]], 0)
  OBVIOUS
<1>2. ASSUME NEW m \in Nat, NEW f, Solves(f, m) PROVE \E g : Solves(g, m + 1)
  <2> DEFINE g == [i \in 1..(m + 2) |-> IF i <= m + 1 THEN f[i] ELSE Cat(f[i - 1], ss[i])]
  <2>2. \A i \in 1..(m + 1) : g[i] = f[i]
    OBVIOUS
  <2>3. g[m + 2] = Cat(f[m + 1], ss[m + 2])
    OBVIOUS
  <2> HIDE DEF g
  <2>4. ASSUME NEW i \in 2..(m + 2) PROVE g[i] = Cat(g[i - 1], ss[i])
    <3>1. CASE i = m + 2
      BY <2>2, <2>3, <3>1
    <3>2. CASE i \in 2..(m + 1)
      BY <1>2, <2>2, <3>2
    <3> QED
      BY <3>1, <3>2
  <2> QED
    BY <1>2, <2>2, <2>4
<1> HIDE DEF Solves
<1>3. 0 \in S
  BY <1>1
<1>4. \A m \in Nat : m \in S => m + 1 \in S
  BY <1>2
<1> HIDE DEF S
<1>5. n \in S
  BY <1>3, <1>4, NatInduct
<1> QED
  BY <1>5 DEF S, Solves

\* FlattenSeq() takes its sequences in turn.
LEMMA FlattenStep ==
  ASSUME NEW ss, Len(ss) \in Nat \ {0}
  PROVE  \E f : /\ FlattenSeq(ss) = f[Len(ss)]
                /\ f[1] = ss[1]
                /\ \A i \in 2..Len(ss) : f[i] = Cat(f[i - 1], ss[i])
<1> DEFINE f == CHOOSE f : f = [i \in 1..Len(ss) |-> IF i = 1 THEN ss[i] ELSE Cat(f[i - 1], ss[i])]
<1>1. \E g : g = [i \in 1..Len(ss) |-> IF i = 1 THEN ss[i] ELSE Cat(g[i - 1], ss[i])]
  <2>1. (Len(ss) - 1) + 1 = Len(ss) /\ Len(ss) - 1 \in Nat
    OBVIOUS
  <2>2. PICK h : h[1] = ss[1] /\ \A i \in 2..((Len(ss) - 1) + 1) : h[i] = Cat(h[i - 1], ss[i])
    BY <2>1, FlattenExists
  <2> DEFINE g == [i \in 1..Len(ss) |-> h[i]]
  <2>3. \A i \in 1..Len(ss) : h[i] = IF i = 1 THEN ss[i] ELSE Cat(g[i - 1], ss[i])
    <3>1. ASSUME NEW i \in 2..Len(ss) PROVE h[i] = Cat(g[i - 1], ss[i])
      BY <2>1, <2>2
    <3> QED
      BY <2>2, <3>1
  <2>4. g = [i \in 1..Len(ss) |-> IF i = 1 THEN ss[i] ELSE Cat(g[i - 1], ss[i])]
    BY <2>3
  <2> QED
    BY <2>4
<1>2. f = [i \in 1..Len(ss) |-> IF i = 1 THEN ss[i] ELSE Cat(f[i - 1], ss[i])]
  BY <1>1, Zenon
<1>3. FlattenSeq(ss) = f[Len(ss)]
  BY Zenon DEF FlattenSeq, Cat
<1> HIDE DEF f
<1>4. f[1] = ss[1] /\ \A i \in 2..Len(ss) : f[i] = Cat(f[i - 1], ss[i])
  BY <1>2
<1> QED
  BY <1>3, <1>4

(* -- lists: sequences over some set -------------------------------------- *)

\* A sequence, over whatever set.
IsList(s) == \E S : s \in Seq(S)

\* The length and the indices of a list.
LEMMA ListFacts ==
  ASSUME NEW s, IsList(s)
  PROVE  Len(s) \in Nat /\ DOMAIN s = 1..Len(s)
  BY DEF IsList

\* Lists are equal if their elements are.
LEMMA ListExt ==
  ASSUME NEW s, NEW t, IsList(s), IsList(t), Len(s) = Len(t), \A i \in 1..Len(s) : s[i] = t[i]
  PROVE  s = t
<1>1. PICK S : s \in Seq(S)
  BY DEF IsList
<1>2. PICK T : t \in Seq(T)
  BY DEF IsList
<1>3. s \in Seq(S \cup T) /\ t \in Seq(S \cup T)
  BY <1>1, <1>2
<1> QED
  BY <1>3, SeqEqual

\* A function over 1..n is a list of length n.
LEMMA MapList ==
  ASSUME NEW n \in Nat, NEW t, t = [i \in 1..n |-> t[i]]
  PROVE  IsList(t) /\ Len(t) = n
<1>1. PICK S : S = {t[i] : i \in 1..n}
  OBVIOUS
<1>2. t \in [1..n -> S]
  BY <1>1
<1>3. t \in Seq(S)
  BY <1>2
<1>4. Len(t) = n
  BY <1>2, <1>3
<1> QED
  BY <1>3, <1>4 DEF IsList

\* The elements of a concatenation.
LEMMA CatList ==
  ASSUME NEW s, NEW t, IsList(s), IsList(t)
  PROVE  /\ IsList(s \o t)
         /\ Len(s \o t) = Len(s) + Len(t)
         /\ \A i \in 1..Len(s) : (s \o t)[i] = s[i]
         /\ \A i \in 1..Len(t) : (s \o t)[Len(s) + i] = t[i]
<1>1. PICK S : s \in Seq(S)
  BY DEF IsList
<1>2. PICK T : t \in Seq(T)
  BY DEF IsList
<1>3. s \in Seq(S \cup T) /\ t \in Seq(S \cup T)
  BY <1>1, <1>2
<1>4. PICK U : U = S \cup T
  OBVIOUS
<1>5. s \in Seq(U) /\ t \in Seq(U)
  BY <1>3, <1>4
<1>6. s \o t \in Seq(U)
  BY <1>5
<1>7. Len(s \o t) = Len(s) + Len(t)
  BY <1>5
<1>8. \A i \in 1..Len(s) : (s \o t)[i] = s[i]
  BY <1>5
<1>9. \A i \in 1..Len(t) : (s \o t)[Len(s) + i] = t[i]
  BY <1>5
<1> QED
  BY <1>6, <1>7, <1>8, <1>9 DEF IsList

\* The elements of a subsequence.
LEMMA SubList ==
  ASSUME NEW s, NEW m \in Int, NEW n \in Int
  PROVE  /\ IsList(SubSeq(s, m, n))
         /\ Len(SubSeq(s, m, n)) = IF m <= n THEN n - m + 1 ELSE 0
         /\ \A i \in 1..Len(SubSeq(s, m, n)) : SubSeq(s, m, n)[i] = s[m + i - 1]
<1>1. PICK S : S = {s[i] : i \in m..n}
  OBVIOUS
<1>2. \A i \in m..n : s[i] \in S
  BY <1>1
<1>3. /\ SubSeq(s, m, n) \in Seq(S)
      /\ Len(SubSeq(s, m, n)) = IF m <= n THEN n - m + 1 ELSE 0
      /\ \A i \in 1..(n - m + 1) : SubSeq(s, m, n)[i] = s[m + i - 1]
  BY <1>2, SubSeqProperties
<1>4. PICK t : t = SubSeq(s, m, n)
  OBVIOUS
<1>5. \A i \in 1..Len(t) : t[i] = s[m + i - 1]
  BY <1>3, <1>4
<1> QED
  BY <1>3, <1>4, <1>5 DEF IsList

\* The elements of a list with one more.
LEMMA AppendList ==
  ASSUME NEW s, NEW x, IsList(s)
  PROVE  /\ IsList(Append(s, x))
         /\ Len(Append(s, x)) = Len(s) + 1
         /\ \A i \in 1..Len(s) : Append(s, x)[i] = s[i]
         /\ Append(s, x)[Len(s) + 1] = x
<1>1. PICK S : s \in Seq(S)
  BY DEF IsList
<1>2. PICK U : U = S \cup {x}
  OBVIOUS
<1>3. s \in Seq(U) /\ x \in U
  BY <1>1, <1>2
<1> QED
  BY <1>3, AppendProperties DEF IsList

\* The elements of a list without its first.
LEMMA TailList ==
  ASSUME NEW s, IsList(s), s # <<>>
  PROVE  /\ IsList(Tail(s))
         /\ Len(Tail(s)) = Len(s) - 1
         /\ \A i \in 1..(Len(s) - 1) : Tail(s)[i] = s[i + 1]
         /\ Head(s) = s[1]
<1>1. PICK S : s \in Seq(S)
  BY DEF IsList
<1> QED
  BY <1>1, HeadTailProperties DEF IsList

(* -- the reassembler, turn by turn --------------------------------------- *)

\* A frame as the serializer makes it, small enough for the reassembler.
Sound(f) ==
  /\ IsList(f) /\ Len(f) \in Nat /\ Len(f) >= 11 /\ Len(f) <= MaxFrameBody + 9
  /\ f[1] = 85 /\ f[2] = 170
  /\ 256 * f[4] + f[5] + 9 = Len(f)
  /\ f[Len(f) - 1] = 170 /\ f[Len(f)] = 85

\* The first q bytes of a frame.
FirstBytes(f, q) == SubSeq(f, 1, q)

\* A reassembler before its first turn.
Rest(buf) == [buf |-> buf, frames |-> <<>>]

\* A list is all of itself.
LEMMA WholeList ==
  ASSUME NEW s, IsList(s)
  PROVE  SubSeq(s, 1, Len(s)) = s
<1>1. PICK t : t = SubSeq(s, 1, Len(s))
  OBVIOUS
<1>2. Len(s) \in Nat
  BY ListFacts
<1>3. IsList(t) /\ Len(t) = Len(s) /\ \A i \in 1..Len(t) : t[i] = s[i]
  BY <1>1, <1>2, SubList
<1> QED
  BY <1>1, <1>3, ListExt

\* The largest body is a number.
LEMMA BodyBound == MaxFrameBody \in Nat
  BY DEF MaxFrameBody

\* A buffer holds finitely many heads.
LEMMA HeadsFinite ==
  ASSUME NEW b, IsList(b)
  PROVE  Cardinality(Heads(b)) \in Nat
<1>1. Len(b) - 1 \in Int /\ IsFiniteSet(1..(Len(b) - 1))
  BY ListFacts, FS_Interval
<1>2. Heads(b) \subseteq 1..(Len(b) - 1)
  BY DEF Heads
<1> QED
  BY <1>1, <1>2, FS_Subset, FS_CardinalityType

\* The beginning of a frame, as long as it has a head, is found where it is.
LEMMA PrefixStarts ==
  ASSUME NEW f, Sound(f), NEW q \in 2..Len(f)
  PROVE  /\ Heads(FirstBytes(f, q)) # {}
         /\ SubSeq(FirstBytes(f, q), FirstHead(FirstBytes(f, q)), Len(FirstBytes(f, q))) = FirstBytes(f, q)
         /\ q >= 5 => Declared(FirstBytes(f, q)) = Len(f)
<1> PICK b : b = FirstBytes(f, q)
  OBVIOUS
<1>1. Len(f) \in Nat
  BY DEF Sound
<1>2. /\ IsList(b) /\ Len(b) = q
      /\ \A i \in 1..q : b[i] = f[i]
  BY <1>1, SubList DEF Sound, FirstBytes
<1>3. 1 \in Heads(b) /\ \A j \in Heads(b) : 1 <= j
  BY <1>2 DEF Heads, Sound
<1>4. FirstHead(b) \in Heads(b) /\ \A j \in Heads(b) : FirstHead(b) <= j
  BY <1>3 DEF FirstHead
<1>5. FirstHead(b) = 1
  BY <1>2, <1>3, <1>4 DEF Heads
<1>6. SubSeq(b, 1, Len(b)) = b
  BY <1>2, WholeList
<1>7. q >= 5 => Declared(b) = Len(f)
  <2> SUFFICES ASSUME q >= 5 PROVE Declared(b) = Len(f)
    OBVIOUS
  <2>1. SubSeq(b, 4, 5)[1] = b[4] /\ SubSeq(b, 4, 5)[2] = b[5]
    BY <1>2, SubList
  <2> QED
    BY <1>2, <2>1 DEF Declared, FromU16, Sound
<1> QED
  BY <1>3, <1>5, <1>6, <1>7

\* A turn without a head on one byte or none keeps it.
LEMMA TurnTrims ==
  ASSUME NEW r, Heads(r.buf) = {}, ~(Len(r.buf) > 1)
  PROVE  Turn(r) = [r EXCEPT !.buf = SubSeq(r.buf, 1, Len(r.buf))]
  BY Zenon DEF Turn

\* A turn whose frame is not all there keeps it.
LEMMA TurnWaits ==
  ASSUME NEW r, NEW b, Heads(r.buf) # {}, SubSeq(r.buf, FirstHead(r.buf), Len(r.buf)) = b,
         Len(b) < 5 \/ (Declared(b) <= MaxFrameBody + 9 /\ Len(b) < Declared(b))
  PROVE  Turn(r) = [r EXCEPT !.buf = b]
  BY Zenon DEF Turn

\* A turn whose frame is all there takes it out.
LEMMA TurnTakes ==
  ASSUME NEW r, NEW b, NEW n, Heads(r.buf) # {}, SubSeq(r.buf, FirstHead(r.buf), Len(r.buf)) = b,
         n = Declared(b), ~(Len(b) < 5), ~(Len(b) < n), ~(n > MaxFrameBody + 9),
         SubSeq(b, n - 1, n) = MagicTail
  PROVE  Turn(r) = [buf |-> SubSeq(b, n + 1, Len(b)), frames |-> Append(r.frames, SubSeq(b, 1, n))]
  BY Zenon DEF Turn

\* The fields of a reassembler before its first turn.
LEMMA RestIs ==
  ASSUME NEW b
  PROVE  Rest(b).buf = b /\ Rest(b).frames = <<>> /\ [Rest(b) EXCEPT !.buf = b] = Rest(b)
  BY DEF Rest

\* A turn on the beginning of a frame waits for more.
LEMMA TurnOfPrefix ==
  ASSUME NEW f, Sound(f), NEW q \in 0..(Len(f) - 1)
  PROVE  Turn(Rest(FirstBytes(f, q))) = Rest(FirstBytes(f, q))
<1> PICK b : b = FirstBytes(f, q)
  OBVIOUS
<1>1. Len(f) \in Nat /\ Len(f) <= MaxFrameBody + 9
  BY DEF Sound
<1>2. IsList(b) /\ Len(b) = q
  BY <1>1, SubList DEF Sound, FirstBytes
<1>3. CASE q < 2
  <2>1. Heads(b) = {} /\ ~(Len(b) > 1)
    BY <1>2, <1>3 DEF Heads
  <2>2. SubSeq(b, 1, Len(b)) = b
    BY <1>2, WholeList
  <2> QED
    BY <2>1, <2>2, RestIs, TurnTrims
<1>4. CASE q >= 2
  <2>1. q \in 2..Len(f)
    BY <1>1, <1>4
  <2>2. Heads(b) # {} /\ SubSeq(b, FirstHead(b), Len(b)) = b /\ (q >= 5 => Declared(b) = Len(f))
    BY <2>1, PrefixStarts
  <2>3. Len(b) < 5 \/ (Declared(b) <= MaxFrameBody + 9 /\ Len(b) < Declared(b))
    BY <1>1, <1>2, <2>2
  <2> QED
    <3>1. PICK r : r = Rest(b)
      OBVIOUS
    <3>2. r.buf = b /\ [r EXCEPT !.buf = b] = r
      BY <3>1, RestIs
    <3>3. Turn(r) = [r EXCEPT !.buf = b]
      BY <2>2, <2>3, <3>2, TurnWaits, Zenon
    <3> QED
      BY <3>1, <3>2, <3>3, Zenon
<1> QED
  BY <1>3, <1>4

\* A turn on a whole frame takes it out.
LEMMA TurnOfFrame ==
  ASSUME NEW f, Sound(f)
  PROVE  Turn(Rest(f)) = [buf |-> <<>>, frames |-> <<f>>]
<1>1. Len(f) \in Nat /\ IsList(f) /\ Len(f) >= 11 /\ Len(f) <= MaxFrameBody + 9
  BY DEF Sound
<1>2. SubSeq(f, 1, Len(f)) = f
  BY <1>1, WholeList
<1>3. Heads(f) # {} /\ SubSeq(f, FirstHead(f), Len(f)) = f /\ Declared(f) = Len(f)
  <2>1. FirstBytes(f, Len(f)) = f /\ Len(f) \in 2..Len(f) /\ Len(f) >= 5
    BY <1>1, <1>2 DEF FirstBytes
  <2> QED
    BY <2>1, PrefixStarts
<1>4. SubSeq(f, Len(f) - 1, Len(f)) = MagicTail
  <2>1. PICK t : t = SubSeq(f, Len(f) - 1, Len(f))
    OBVIOUS
  <2>2. IsList(t) /\ Len(t) = 2 /\ t[1] = f[Len(f) - 1] /\ t[2] = f[Len(f)]
    BY <1>1, <2>1, SubList
  <2>3. PICK S : t \in Seq(S)
    BY <2>2 DEF IsList
  <2>4. t = <<t[1], t[2]>>
    BY <2>2, <2>3
  <2> QED
    BY <2>1, <2>2, <2>4 DEF Sound, MagicTail
<1>5. SubSeq(f, Len(f) + 1, Len(f)) = <<>>
  BY <1>1, SubSeqEmpty
<1>6. Append(<<>>, f) = <<f>>
  OBVIOUS
<1>7. ~(Len(f) < 5) /\ ~(Len(f) < Len(f)) /\ ~(Len(f) > MaxFrameBody + 9)
  BY <1>1, BodyBound
<1>8. Turn(Rest(f)) = [buf |-> SubSeq(f, Len(f) + 1, Len(f)), frames |-> Append(Rest(f).frames, SubSeq(f, 1, Len(f)))]
  <2>1. PICK r : r = Rest(f)
    OBVIOUS
  <2>2. r.buf = f /\ r.frames = <<>>
    BY <2>1, RestIs
  <2>3. Turn(r) = [buf |-> SubSeq(f, Len(f) + 1, Len(f)), frames |-> Append(r.frames, SubSeq(f, 1, Len(f)))]
    BY <1>3, <1>4, <1>7, <2>2, TurnTakes, Zenon
  <2> QED
    BY <2>1, <2>3, Zenon
<1> QED
  BY <1>2, <1>5, <1>6, <1>8, RestIs, Zenon

\* A second turn changes nothing: the turns end with the first.
LEMMA ExtractInOneTurn ==
  ASSUME NEW b, IsList(b), NEW last, Turn(Rest(b)) = last, Turn(last) = last
  PROVE  Extract(b) = last
<1> DEFINE n == Cardinality(Heads(b)) + 1
           r == CHOOSE r : r = [i \in 0..n |-> IF i = 0 THEN Rest(b) ELSE Turn(r[i - 1])]
<1>1. n \in Nat \ {0}
  BY HeadsFinite
<1>2. Extract(b) = r[n]
  BY Zenon DEF Extract, Rest
<1> HIDE DEF n
<1>3. \E g : g = [i \in 0..n |-> IF i = 0 THEN Rest(b) ELSE Turn(g[i - 1])]
  <2> DEFINE g == [i \in 0..n |-> IF i = 0 THEN Rest(b) ELSE last]
  <2>1. \A i \in 0..n : (IF i = 0 THEN Rest(b) ELSE last) = IF i = 0 THEN Rest(b) ELSE Turn(g[i - 1])
    <3>1. ASSUME NEW i \in 0..n, i # 0 PROVE Turn(g[i - 1]) = last
      <4>0. i - 1 \in 0..n
        BY <1>1, <3>1
      <4>1. g[i - 1] \in {Rest(b), last}
        BY <4>0
      <4> HIDE DEF g
      <4> QED
        BY <4>1
    <3> HIDE DEF g
    <3> QED
      BY <3>1
  <2>2. g = [i \in 0..n |-> IF i = 0 THEN Rest(b) ELSE Turn(g[i - 1])]
    BY <2>1
  <2> HIDE DEF g
  <2> QED
    BY <2>2
<1>4. r = [i \in 0..n |-> IF i = 0 THEN Rest(b) ELSE Turn(r[i - 1])]
  BY <1>3, Zenon
<1> HIDE DEF r
<1>5. r[0] = Rest(b) /\ \A i \in 1..n : r[i] = Turn(r[i - 1])
  BY <1>1, <1>4
<1> DEFINE S == {i \in Nat : i + 1 <= n => r[i + 1] = last}
<1>6. 0 \in S
  BY <1>1, <1>5
<1>7. \A i \in Nat : i \in S => i + 1 \in S
  <2> SUFFICES ASSUME NEW i \in Nat, i \in S, i + 2 <= n PROVE r[i + 2] = last
    OBVIOUS
  <2>1. r[i + 2] = Turn(r[i + 1])
    BY <1>1, <1>5
  <2>2. r[i + 1] = last
    BY <1>1
  <2> QED
    BY <2>1, <2>2
<1>8. n - 1 \in S
  <2> HIDE DEF S
  <2> QED
    BY <1>1, <1>6, <1>7, NatInduct
<1>9. r[n] = last
  BY <1>1, <1>8
<1> QED
  BY <1>2, <1>9

\* What comes out of the reassembler when it has the first q bytes of a frame.
LEMMA ExtractPrefix ==
  ASSUME NEW f, Sound(f), NEW q \in 0..Len(f)
  PROVE  Extract(FirstBytes(f, q)) = IF q = Len(f) THEN [buf |-> <<>>, frames |-> <<f>>]
                                ELSE Rest(FirstBytes(f, q))
<1>1. Len(f) \in Nat /\ IsList(f)
  BY DEF Sound
<1>2. IsList(FirstBytes(f, q))
  BY <1>1, SubList DEF FirstBytes
<1>3. CASE q # Len(f)
  BY <1>1, <1>2, <1>3, TurnOfPrefix, ExtractInOneTurn
<1>4. CASE q = Len(f)
  <2>1. FirstBytes(f, q) = f
    BY <1>1, <1>4, WholeList DEF FirstBytes
  <2> DEFINE last == [buf |-> <<>>, frames |-> <<f>>]
  <2>2. Turn(Rest(f)) = last
    BY TurnOfFrame
  <2>3. Turn(last) = last
    <3>1. last.buf = <<>> /\ last = [last EXCEPT !.buf = <<>>]
      OBVIOUS
    <3>2. Heads(<<>>) = {} /\ ~(Len(<<>>) > 1) /\ SubSeq(<<>>, 1, Len(<<>>)) = <<>>
      BY SubSeqEmpty DEF Heads
    <3> HIDE DEF last
    <3> QED
      BY <3>1, <3>2, TurnTrims, Zenon
  <2> HIDE DEF last
  <2>4. Extract(f) = last
    BY <1>1, <2>2, <2>3, ExtractInOneTurn
  <2> QED
    BY <1>4, <2>1, <2>4 DEF last
<1> QED
  BY <1>3, <1>4

(* -- a frame in chunks --------------------------------------------------- *)

\* The bytes of a frame that the first k chunks carry, and the number of chunks.
Sent(f, k) == IF k * ChunkSize < Len(f) THEN k * ChunkSize ELSE Len(f)
\* The number of chunks of a frame.
Parts(f) == (Len(f) + ChunkSize - 1) \div ChunkSize
\* Chunk k of a frame, nothing before it lost.
Chunk(f, k) == [bytes |-> SubSeq(f, Sent(f, k - 1) + 1, Sent(f, k)), frame |-> f, last |-> k = Parts(f), hurt |-> FALSE]

\* Multiples that differ, differ by one at least.
LEMMA Products ==
  ASSUME NEW a \in Nat, NEW b \in Nat, NEW c \in Nat \ {0}, a < b
  PROVE  a * c + c <= b * c
<1>1. PICK d \in Nat : b = a + 1 + d
  <2>1. b - a - 1 \in Nat /\ b = a + 1 + (b - a - 1)
    OBVIOUS
  <2> QED
    BY <2>1
<1>2. b * c = a * c + c + d * c
  BY <1>1
<1>3. d * c >= 0
  OBVIOUS
<1>4. a * c \in Int /\ b * c \in Int /\ d * c \in Int
  OBVIOUS
<1> QED
  BY <1>2, <1>3, <1>4

\* Every chunk carries something, and the last one ends the frame.
LEMMA SentFacts ==
  ASSUME NEW f, Sound(f), NEW k \in 1..Parts(f)
  PROVE  /\ Sent(f, k) \in 0..Len(f) /\ Sent(f, k - 1) \in 0..(Len(f) - 1)
         /\ Sent(f, k - 1) < Sent(f, k)
         /\ Sent(f, k - 1) = (k - 1) * ChunkSize
         /\ Sent(f, k) = Len(f) <=> k = Parts(f)
<1> DEFINE n == Parts(f)
<1>1. Len(f) \in Nat \ {0} /\ ChunkSize \in Nat \ {0}
  BY SizeAssumption DEF Sound
<1>2. PICK a \in Nat : a = Len(f) + ChunkSize - 1
  BY <1>1
<1>3. n \in Nat /\ ChunkSize * n <= a /\ a < ChunkSize * n + ChunkSize
  BY <1>1, <1>2, Division DEF Parts
<1> HIDE DEF n
<1>4. k \in Nat /\ k - 1 \in Nat /\ k <= n
  BY <1>3 DEF n
<1>5. /\ n * ChunkSize \in Int /\ k * ChunkSize \in Int /\ (k - 1) * ChunkSize \in Int
      /\ ChunkSize * n = n * ChunkSize
  BY <1>1, <1>3, <1>4
<1>6. k * ChunkSize = (k - 1) * ChunkSize + ChunkSize
  BY <1>1, <1>4
<1>7. (k - 1) * ChunkSize + ChunkSize <= n * ChunkSize
  BY <1>1, <1>3, <1>4, Products
<1>8. (k - 1) * ChunkSize < Len(f)
  BY <1>1, <1>2, <1>3, <1>5, <1>7
<1>9. k < n => k * ChunkSize < Len(f)
  <2> SUFFICES ASSUME k < n PROVE k * ChunkSize < Len(f)
    OBVIOUS
  <2>1. k * ChunkSize + ChunkSize <= n * ChunkSize
    BY <1>1, <1>3, <1>4, Products
  <2> QED
    BY <1>1, <1>2, <1>3, <1>5, <2>1
<1>10. n * ChunkSize >= Len(f)
  BY <1>1, <1>2, <1>3, <1>5
<1>11. (k - 1) * ChunkSize >= 0
  BY <1>1, <1>4
<1>12. Sent(f, k - 1) = (k - 1) * ChunkSize
  BY <1>8 DEF Sent
<1>13. k = n => Sent(f, k) = Len(f)
  BY <1>1, <1>5, <1>10 DEF Sent
<1>14. k # n => Sent(f, k) = k * ChunkSize /\ Sent(f, k) < Len(f)
  BY <1>4, <1>3, <1>9 DEF Sent
<1> QED
  BY <1>1, <1>5, <1>6, <1>8, <1>11, <1>12, <1>13, <1>14 DEF n

\* The chunks of a frame, one by one.
LEMMA ChunksFacts ==
  ASSUME NEW f, Sound(f)
  PROVE  /\ Parts(f) \in Nat \ {0}
         /\ IsList(Chunks(f)) /\ Len(Chunks(f)) = Parts(f)
         /\ \A k \in 1..Parts(f) : Chunks(f)[k] = Chunk(f, k)
         /\ Sent(f, 0) = 0
<1>1. Len(f) \in Nat \ {0} /\ ChunkSize \in Nat \ {0}
  BY SizeAssumption DEF Sound
<1>2. Parts(f) \in Nat \ {0}
  <2>1. PICK a \in Nat : a = Len(f) + ChunkSize - 1
    BY <1>1
  <2>2. PICK n : n = Parts(f)
    OBVIOUS
  <2>3. n \in Nat /\ a < ChunkSize * n + ChunkSize
    BY <1>1, <2>1, <2>2, Division DEF Parts
  <2>4. n # 0
    BY <1>1, <2>1, <2>3
  <2> QED
    BY <2>2, <2>3, <2>4
<1>3. Sent(f, 0) = 0
  BY <1>1 DEF Sent
<1>4. PICK parts : parts = ChunkFrame(f, ChunkSize)
  OBVIOUS
<1>5. parts = [k \in 1..Parts(f) |->
                 SubSeq(f, (k - 1) * ChunkSize + 1, IF k * ChunkSize < Len(f) THEN k * ChunkSize ELSE Len(f))]
  BY <1>4, Zenon DEF ChunkFrame, Parts
<1>6. \A k \in 1..Parts(f) : parts[k] = SubSeq(f, (k - 1) * ChunkSize + 1, Sent(f, k))
  BY <1>5 DEF Sent
<1>7. \A k \in 1..Parts(f) : parts[k] = SubSeq(f, Sent(f, k - 1) + 1, Sent(f, k))
  BY <1>6, SentFacts
<1>8. DOMAIN parts = 1..Parts(f)
  BY <1>5
<1>9. Len(parts) = Parts(f)
  BY <1>2, <1>8
<1>10. PICK cs : cs = Chunks(f)
  OBVIOUS
<1>11. cs = [k \in 1..Parts(f) |-> [bytes |-> parts[k], frame |-> f, last |-> k = Parts(f), hurt |-> FALSE]]
  BY <1>4, <1>8, <1>9, <1>10, Zenon DEF Chunks
<1>12. \A k \in 1..Parts(f) : cs[k] = Chunk(f, k)
  BY <1>7, <1>11 DEF Chunk
<1>13. DOMAIN cs = 1..Parts(f) /\ cs = [k \in 1..Parts(f) |-> cs[k]]
  BY <1>11
<1>14. IsList(cs) /\ Len(cs) = Parts(f)
  BY <1>2, <1>13, MapList
<1> QED
  BY <1>2, <1>3, <1>10, <1>12, <1>14

(* -- a direction that has lost nothing ----------------------------------- *)

\* What is on the way in one direction, if nothing of it was lost: chunk pos[i] of
\* a frame at place i, each frame's chunks in their order and to the last, and in
\* the buffer what came before the first of them.
Ordered(w, pos) ==
  /\ \A i \in 1..Len(w.air) :
       /\ Sound(w.air[i].frame) /\ pos[i] \in 1..Parts(w.air[i].frame)
       /\ w.air[i] = Chunk(w.air[i].frame, pos[i])
  /\ \A i \in 1..(Len(w.air) - 1) :
       IF w.air[i].last THEN pos[i + 1] = 1
       ELSE w.air[i + 1].frame = w.air[i].frame /\ pos[i + 1] = pos[i] + 1
  /\ Len(w.air) = 0 => w.buf = <<>>
  /\ Len(w.air) > 0 =>
       /\ w.air[Len(w.air)].last
       /\ w.buf = FirstBytes(w.air[1].frame, Sent(w.air[1].frame, pos[1] - 1))

\* One direction of the link.
IsWay(w) == DOMAIN w = {"air", "buf", "owed"} /\ IsList(w.air)

\* A direction that owes no frame and has whole frames under way.
Clean(w) == IsWay(w) /\ w.owed = {} /\ \E pos : Ordered(w, pos)

\* A direction with something else in its air.
LEMMA WayEq ==
  ASSUME NEW w, IsWay(w), NEW x, x = [w EXCEPT !.air = x.air]
  PROVE  DOMAIN x = {"air", "buf", "owed"} /\ x.buf = w.buf /\ x.owed = w.owed
  BY DEF IsWay

\* A new link is clean.
LEMMA QuietClean == Clean(Quiet)
<1>1. IsList(<<>>) /\ Len(<<>>) = 0
  BY DEF IsList
<1>2. Quiet.air = <<>> /\ Quiet.buf = <<>> /\ Quiet.owed = {} /\ DOMAIN Quiet = {"air", "buf", "owed"}
  BY DEF Quiet
<1>3. PICK q : q = Quiet
  OBVIOUS
<1>4. Ordered(q, <<>>)
  BY <1>1, <1>2, <1>3 DEF Ordered
<1> QED
  BY <1>1, <1>2, <1>3, <1>4 DEF Clean, IsWay

\* A sound frame that is sent leaves its direction clean; what is under way is that frame or was
\* before.
LEMMA PutClean ==
  ASSUME NEW w, Clean(w), NEW f, Sound(f)
  PROVE  /\ Clean(Put(w, f))
         /\ \A i \in 1..Len(Put(w, f).air) :
              \/ Put(w, f).air[i].frame = f
              \/ i \in 1..Len(w.air) /\ Put(w, f).air[i].frame = w.air[i].frame
<1>1. PICK pos : Ordered(w, pos)
  BY DEF Clean
<1>2. PICK x : x = Put(w, f)
  OBVIOUS
<1>3. x.air = w.air \o Chunks(f)
  BY <1>2 DEF Put, Clean, IsWay
<1>4. x = [w EXCEPT !.air = x.air]
  BY <1>2, <1>3 DEF Put
<1>5. IsWay(w) /\ DOMAIN x = {"air", "buf", "owed"} /\ x.buf = w.buf /\ x.owed = {}
  BY <1>4, WayEq DEF Clean
<1>6. PICK n : n = Len(w.air)
  OBVIOUS
<1>7. PICK m : m = Parts(f)
  OBVIOUS
<1>8. n \in Nat /\ m \in Nat \ {0}
  BY <1>5, <1>6, <1>7, ListFacts, ChunksFacts DEF IsWay
<1>9. /\ IsList(x.air) /\ Len(x.air) = n + m
      /\ \A i \in 1..n : x.air[i] = w.air[i]
      /\ \A k \in 1..m : x.air[n + k] = Chunk(f, k)
  <2>1. PICK cs : cs = Chunks(f)
    OBVIOUS
  <2>2. IsList(cs) /\ Len(cs) = m /\ \A k \in 1..m : cs[k] = Chunk(f, k)
    BY <1>7, <2>1, ChunksFacts
  <2>3. IsList(w.air) /\ x.air = w.air \o cs
    BY <1>3, <1>5, <2>1 DEF IsWay
  <2>4. /\ IsList(w.air \o cs) /\ Len(w.air \o cs) = n + m
        /\ \A i \in 1..n : (w.air \o cs)[i] = w.air[i]
        /\ \A k \in 1..m : (w.air \o cs)[n + k] = cs[k]
    BY <1>6, <2>2, <2>3, CatList
  <2> QED
    BY <2>2, <2>3, <2>4
<1>10. \A k \in 1..m : x.air[n + k].frame = f /\ (x.air[n + k].last <=> k = m)
  <2> SUFFICES ASSUME NEW k \in 1..m PROVE x.air[n + k].frame = f /\ (x.air[n + k].last <=> k = m)
    OBVIOUS
  <2>1. x.air[n + k] = Chunk(f, k)
    BY <1>9
  <2>2. Chunk(f, k).frame = f /\ (Chunk(f, k).last <=> k = m)
    BY <1>7, Zenon DEF Chunk
  <2> QED
    BY <2>1, <2>2
<1>11. PICK p : p = [i \in 1..(n + m) |-> IF i <= n THEN pos[i] ELSE i - n]
  OBVIOUS
<1>12. (\A i \in 1..n : p[i] = pos[i]) /\ \A k \in 1..m : p[n + k] = k
  BY <1>8, <1>11
<1>13. \A i \in 1..(n + m) : i \in 1..n \/ \E k \in 1..m : i = n + k
  <2> SUFFICES ASSUME NEW i \in 1..(n + m), i \notin 1..n PROVE i - n \in 1..m /\ i = n + (i - n)
    OBVIOUS
  <2> QED
    BY <1>8
<1>14. ASSUME NEW i \in 1..(n + m)
       PROVE  /\ Sound(x.air[i].frame) /\ p[i] \in 1..Parts(x.air[i].frame)
              /\ x.air[i] = Chunk(x.air[i].frame, p[i])
              /\ (x.air[i].frame = f \/ (i \in 1..n /\ x.air[i].frame = w.air[i].frame))
  <2>1. CASE i \in 1..n
    BY <1>1, <1>6, <1>9, <1>12, <2>1 DEF Ordered
  <2>2. CASE \E k \in 1..m : i = n + k
    <3>1. PICK k \in 1..m : i = n + k
      BY <2>2
    <3>2. x.air[i] = Chunk(f, k) /\ x.air[i].frame = f /\ p[i] = k
      BY <1>9, <1>10, <1>12, <3>1
    <3>3. x.air[i] = Chunk(x.air[i].frame, p[i]) /\ Sound(x.air[i].frame) /\ p[i] \in 1..Parts(x.air[i].frame)
      BY <1>7, <3>2, Zenon
    <3> QED
      BY <3>2, <3>3, Zenon
  <2> QED
    BY <1>13, <2>1, <2>2
<1>15. ASSUME NEW i \in 1..(n + m - 1)
       PROVE  IF x.air[i].last THEN p[i + 1] = 1
              ELSE x.air[i + 1].frame = x.air[i].frame /\ p[i + 1] = p[i] + 1
  <2>1. CASE i \in 1..(n - 1)
    <3>1. i \in 1..n /\ i + 1 \in 1..n
      BY <1>8, <2>1
    <3> QED
      BY <1>1, <1>6, <1>9, <1>12, <2>1, <3>1 DEF Ordered
  <2>2. CASE i = n
    <3>1. n \in 1..n /\ n > 0 /\ 1 \in 1..m
      BY <1>8, <2>2
    <3>2. x.air[n].last
      BY <1>1, <1>6, <1>9, <3>1 DEF Ordered
    <3>3. p[n + 1] = 1
      BY <1>12, <3>1
    <3> QED
      BY <2>2, <3>2, <3>3
  <2>3. CASE \E k \in 1..m : i = n + k
    <3>1. PICK k \in 1..m : i = n + k
      BY <2>3
    <3>2. k + 1 \in 1..m /\ i + 1 = n + (k + 1) /\ k # m
      BY <1>8, <3>1
    <3> QED
      BY <1>10, <1>12, <3>1, <3>2
  <2>4. i \in 1..(n + m)
    BY <1>8
  <2> QED
    BY <1>8, <1>13, <2>1, <2>2, <2>3, <2>4
<1>16. x.air[n + m].last
  BY <1>8, <1>10
<1>17. x.buf = FirstBytes(x.air[1].frame, Sent(x.air[1].frame, p[1] - 1))
  <2>1. CASE n > 0
    BY <1>1, <1>5, <1>6, <1>8, <1>9, <1>12, <2>1 DEF Ordered
  <2>2. CASE n = 0
    <3>1. x.air[1].frame = f /\ p[1] = 1
      BY <1>8, <1>10, <1>12, <2>2
    <3>2. Sent(f, 0) = 0 /\ p[1] - 1 = 0
      BY <3>1, ChunksFacts
    <3>3. x.buf = <<>> /\ FirstBytes(f, 0) = <<>>
      BY <1>1, <1>5, <1>6, <2>2, SubSeqEmpty DEF Ordered, FirstBytes
    <3> QED
      BY <3>1, <3>2, <3>3
  <2> QED
    BY <1>8, <2>1, <2>2
<1>18. Ordered(x, p)
  BY <1>8, <1>9, <1>14, <1>15, <1>16, <1>17 DEF Ordered
<1> QED
  BY <1>2, <1>5, <1>6, <1>9, <1>14, <1>18 DEF Clean, IsWay

\* The first bytes of a frame, in two parts.
LEMMA FirstBytesCat ==
  ASSUME NEW f, IsList(f), NEW a \in 0..Len(f), NEW b \in a..Len(f)
  PROVE  FirstBytes(f, a) \o SubSeq(f, a + 1, b) = FirstBytes(f, b)
<1>1. Len(f) \in Nat
  BY ListFacts
<1>2. PICK s : s = FirstBytes(f, a)
  OBVIOUS
<1>3. PICK t : t = SubSeq(f, a + 1, b)
  OBVIOUS
<1>4. PICK u : u = FirstBytes(f, b)
  OBVIOUS
<1>5. /\ IsList(s) /\ Len(s) = a
      /\ \A i \in 1..a : s[i] = f[i]
  BY <1>1, <1>2, SubList DEF FirstBytes
<1>6. /\ IsList(u) /\ Len(u) = b
      /\ \A i \in 1..b : u[i] = f[i]
  BY <1>1, <1>4, SubList DEF FirstBytes
<1>7. IsList(t) /\ Len(t) = b - a
  BY <1>1, <1>3, SubList
<1>8. \A i \in 1..(b - a) : t[i] = f[a + i]
  <2>1. \A i \in 1..(b - a) : t[i] = f[(a + 1) + i - 1]
    BY <1>1, <1>3, <1>7, SubList
  <2> QED
    BY <1>1, <2>1
<1>9. PICK v : v = s \o t
  OBVIOUS
<1>10. /\ IsList(v) /\ Len(v) = b
       /\ \A i \in 1..a : v[i] = s[i]
       /\ \A i \in 1..(b - a) : v[a + i] = t[i]
  <2>1. /\ IsList(s \o t) /\ Len(s \o t) = Len(s) + Len(t)
        /\ \A i \in 1..Len(s) : (s \o t)[i] = s[i]
        /\ \A i \in 1..Len(t) : (s \o t)[Len(s) + i] = t[i]
    BY <1>5, <1>7, CatList
  <2>2. a + (b - a) = b
    BY <1>1
  <2> QED
    BY <1>5, <1>7, <1>9, <2>1, <2>2
<1>11. ASSUME NEW i \in 1..b PROVE v[i] = u[i]
  <2>1. CASE i \in 1..a
    BY <1>1, <1>5, <1>6, <1>10, <2>1
  <2>2. CASE i \notin 1..a
    <3>1. i - a \in 1..(b - a) /\ a + (i - a) = i
      BY <1>1, <2>2
    <3>2. v[a + (i - a)] = t[i - a] /\ t[i - a] = f[a + (i - a)]
      BY <1>8, <1>10, <3>1
    <3> QED
      BY <1>6, <3>1, <3>2
  <2> QED
    BY <2>1, <2>2
<1>12. v = u
  BY <1>6, <1>10, <1>11, ListExt
<1> QED
  BY <1>2, <1>3, <1>4, <1>9, <1>12

\* A chunk that arrives leaves its direction clean: its frame comes out with its last chunk and not
\* before, and nothing else ever does.
LEMMA TakeClean ==
  ASSUME NEW w, Clean(w), Len(w.air) > 0
  PROVE  /\ Clean(Take(w))
         /\ Heard(w).frames \in {<<>>, <<w.air[1].frame>>}
         /\ Len(Take(w).air) = Len(w.air) - 1
         /\ \A i \in 1..(Len(w.air) - 1) : Take(w).air[i] = w.air[i + 1]
<1>1. PICK pos : Ordered(w, pos)
  BY DEF Clean
<1>2. PICK n : n = Len(w.air)
  OBVIOUS
<1>3. IsList(w.air) /\ w.owed = {} /\ n \in Nat \ {0} /\ w.air # <<>>
  BY <1>2, ListFacts DEF Clean, IsWay
<1>4. /\ IsList(Tail(w.air)) /\ Len(Tail(w.air)) = n - 1
      /\ \A i \in 1..(n - 1) : Tail(w.air)[i] = w.air[i + 1]
      /\ Head(w.air) = w.air[1]
  BY <1>2, <1>3, TailList
<1>5. PICK f : f = w.air[1].frame
  OBVIOUS
<1>6. PICK k : k = pos[1]
  OBVIOUS
<1>7. Sound(f) /\ k \in 1..Parts(f) /\ w.air[1] = Chunk(f, k) /\ w.buf = FirstBytes(f, Sent(f, k - 1))
  BY <1>1, <1>2, <1>3, <1>5, <1>6 DEF Ordered
<1>8. Heard(w) = Extract(FirstBytes(f, Sent(f, k)))
  <2>1. Heard(w) = Extract(w.buf \o SubSeq(f, Sent(f, k - 1) + 1, Sent(f, k)))
    <3>1. Head(w.air).bytes = SubSeq(f, Sent(f, k - 1) + 1, Sent(f, k))
      <4>1. Head(w.air) = Chunk(f, k)
        BY <1>4, <1>7
      <4>2. Chunk(f, k).bytes = SubSeq(f, Sent(f, k - 1) + 1, Sent(f, k))
        BY Zenon DEF Chunk
      <4> QED
        BY <4>1, <4>2, Zenon
    <3> QED
      BY <3>1, Zenon DEF Heard, Feed
  <2>2. /\ IsList(f) /\ Len(f) \in Nat
        /\ Sent(f, k - 1) \in 0..Len(f) /\ Sent(f, k) \in Sent(f, k - 1)..Len(f)
    <3>1. IsList(f) /\ Len(f) \in Nat
      BY <1>7 DEF Sound
    <3>2. Sent(f, k) \in 0..Len(f) /\ Sent(f, k - 1) \in 0..(Len(f) - 1) /\ Sent(f, k - 1) < Sent(f, k)
      BY <1>7, SentFacts
    <3> QED
      BY <3>1, <3>2
  <2>3. FirstBytes(f, Sent(f, k - 1)) \o SubSeq(f, Sent(f, k - 1) + 1, Sent(f, k)) = FirstBytes(f, Sent(f, k))
    BY <2>2, FirstBytesCat
  <2> QED
    BY <1>7, <2>1, <2>3
<1>9. PICK r : r = Heard(w)
  OBVIOUS
<1>10. PICK x : x = Take(w)
  OBVIOUS
<1>11. /\ DOMAIN x = {"air", "buf", "owed"}
       /\ x.air = Tail(w.air) /\ x.buf = r.buf
       /\ x.owed = (IF k = Parts(f) THEN {f} ELSE {}) \ ToSet(r.frames)
  <2>1. x = [air |-> Tail(w.air), buf |-> r.buf,
             owed |-> (w.owed \cup IF Head(w.air).last /\ ~Head(w.air).hurt THEN {Head(w.air).frame} ELSE {})
                        \ ToSet(r.frames)]
    BY <1>9, <1>10, Zenon DEF Take
  <2>2. Head(w.air).frame = f /\ Head(w.air).hurt = FALSE /\ (Head(w.air).last <=> k = Parts(f))
    <3>1. Chunk(f, k).frame = f /\ Chunk(f, k).hurt = FALSE /\ (Chunk(f, k).last <=> k = Parts(f))
      BY Zenon DEF Chunk
    <3> QED
      BY <1>4, <1>7, <3>1
  <2> QED
    BY <1>3, <2>1, <2>2
<1>12. Sent(f, k) \in 0..Len(f) /\ (Sent(f, k) = Len(f) <=> k = Parts(f))
  BY <1>7, SentFacts
<1>13. r = IF Sent(f, k) = Len(f) THEN [buf |-> <<>>, frames |-> <<f>>] ELSE Rest(FirstBytes(f, Sent(f, k)))
  BY <1>7, <1>8, <1>9, <1>12, ExtractPrefix
<1> DEFINE p == [i \in 1..(n - 1) |-> pos[i + 1]]
<1>14. /\ \A i \in 1..(n - 1) :
            /\ Sound(x.air[i].frame) /\ p[i] \in 1..Parts(x.air[i].frame)
            /\ x.air[i] = Chunk(x.air[i].frame, p[i])
       /\ \A i \in 1..(n - 2) :
            IF x.air[i].last THEN p[i + 1] = 1
            ELSE x.air[i + 1].frame = x.air[i].frame /\ p[i + 1] = p[i] + 1
       /\ n - 1 > 0 => x.air[n - 1].last
  <2>1. ASSUME NEW i \in 1..(n - 1)
        PROVE  /\ Sound(x.air[i].frame) /\ p[i] \in 1..Parts(x.air[i].frame)
               /\ x.air[i] = Chunk(x.air[i].frame, p[i])
    <3>1. i + 1 \in 1..n /\ x.air[i] = w.air[i + 1] /\ p[i] = pos[i + 1]
      BY <1>3, <1>4, <1>11
    <3> HIDE DEF p
    <3> QED
      BY <1>1, <1>2, <3>1 DEF Ordered
  <2>2. ASSUME NEW i \in 1..(n - 2)
        PROVE  IF x.air[i].last THEN p[i + 1] = 1
               ELSE x.air[i + 1].frame = x.air[i].frame /\ p[i + 1] = p[i] + 1
    <3>1. i + 1 \in 1..(n - 1) /\ i \in 1..(n - 1)
      BY <1>3
    <3>2. /\ x.air[i] = w.air[i + 1] /\ p[i] = pos[i + 1]
          /\ x.air[i + 1] = w.air[(i + 1) + 1] /\ p[i + 1] = pos[(i + 1) + 1]
      BY <1>4, <1>11, <3>1
    <3> HIDE DEF p
    <3> QED
      BY <1>1, <1>2, <3>1, <3>2 DEF Ordered
  <2>3. ASSUME n - 1 > 0 PROVE x.air[n - 1].last
    <3>1. n - 1 \in 1..(n - 1) /\ (n - 1) + 1 = n
      BY <1>3, <2>3
    <3>2. x.air[n - 1] = w.air[n]
      BY <1>4, <1>11, <3>1
    <3> QED
      BY <1>1, <1>2, <1>3, <3>2 DEF Ordered
  <2> HIDE DEF p
  <2> QED
    BY <2>1, <2>2, <2>3
<1>15. n - 1 > 0 => p[1] = pos[2] /\ x.air[1] = w.air[2]
  BY <1>3, <1>4, <1>11
<1> HIDE DEF p
<1>16. (w.air[1].last <=> k = Parts(f))
  <2>1. Chunk(f, k).last <=> k = Parts(f)
    BY Zenon DEF Chunk
  <2> QED
    BY <1>7, <2>1
<1>17. CASE k = Parts(f)
  <2>1. r.buf = <<>> /\ r.frames = <<f>>
    BY <1>12, <1>13, <1>17
  <2>2. ToSet(<<f>>) = {f}
    BY DEF ToSet
  <2>3. x.owed = {}
    BY <1>11, <1>17, <2>1, <2>2
  <2>4. n - 1 > 0 => x.buf = FirstBytes(x.air[1].frame, Sent(x.air[1].frame, p[1] - 1))
    <3> SUFFICES ASSUME n - 1 > 0 PROVE x.buf = FirstBytes(x.air[1].frame, Sent(x.air[1].frame, p[1] - 1))
      OBVIOUS
    <3>1. p[1] = 1
      BY <1>1, <1>2, <1>3, <1>15, <1>16, <1>17 DEF Ordered
    <3>2. PICK g : g = x.air[1].frame
      OBVIOUS
    <3>3. Sound(g)
      BY <1>3, <1>14, <3>2
    <3>4. Sent(g, 0) = 0
      BY <3>3, ChunksFacts
    <3>5. FirstBytes(g, 0) = <<>>
      BY SubSeqEmpty DEF FirstBytes
    <3>6. p[1] - 1 = 0
      BY <3>1
    <3> QED
      BY <1>11, <2>1, <3>2, <3>4, <3>5, <3>6, Zenon
  <2>5. Ordered(x, p)
    <3>1. Len(x.air) = n - 1 /\ Len(x.air) - 1 = n - 2 /\ x.buf = <<>>
      BY <1>3, <1>4, <1>11, <2>1
    <3> QED
      BY <1>14, <2>4, <3>1, Zenon DEF Ordered
  <2> QED
    BY <1>2, <1>4, <1>5, <1>9, <1>10, <1>11, <2>1, <2>3, <2>5 DEF Clean, IsWay
<1>18. CASE k # Parts(f)
  <2>1. r.buf = FirstBytes(f, Sent(f, k)) /\ r.frames = <<>>
    BY <1>12, <1>13, <1>18, RestIs
  <2>2. ToSet(<<>>) = {}
    BY DEF ToSet
  <2>3. x.owed = {}
    BY <1>11, <1>18, <2>1, <2>2
  <2>4. n - 1 > 0
    BY <1>1, <1>2, <1>3, <1>16, <1>18 DEF Ordered
  <2>5. x.air[1].frame = f /\ p[1] = k + 1
    BY <1>1, <1>2, <1>3, <1>5, <1>6, <1>15, <1>16, <1>18, <2>4 DEF Ordered
  <2>6. x.buf = FirstBytes(x.air[1].frame, Sent(x.air[1].frame, p[1] - 1))
    <3>1. p[1] - 1 = k
      BY <1>7, <2>5, ChunksFacts
    <3> QED
      BY <1>11, <2>1, <2>5, <3>1
  <2>7. Ordered(x, p)
    <3>1. Len(x.air) = n - 1 /\ Len(x.air) - 1 = n - 2 /\ n - 1 # 0
      BY <1>3, <1>4, <1>11, <2>4
    <3> QED
      BY <1>14, <2>4, <2>6, <3>1, Zenon DEF Ordered
  <2> QED
    BY <1>2, <1>4, <1>5, <1>9, <1>10, <1>11, <2>1, <2>3, <2>7 DEF Clean, IsWay
<1> QED
  BY <1>17, <1>18

(* -- what the serializer makes ------------------------------------------- *)

\* A list of n elements.
Sized(s, n) == IsList(s) /\ Len(s) = n

\* Lengths add up.
LEMMA CatSized ==
  ASSUME NEW s, NEW t, NEW m, NEW n, Sized(s, m), Sized(t, n)
  PROVE  Sized(s \o t, m + n)
<1>1. IsList(s \o t) /\ Len(s \o t) = Len(s) + Len(t)
  BY CatList DEF Sized
<1> QED
  BY <1>1 DEF Sized

\* Tuples are lists.
LEMMA TupleSized ==
  ASSUME NEW a, NEW b
  PROVE  Sized(<<>>, 0) /\ Sized(<<a>>, 1) /\ Sized(<<a, b>>, 2)
<1>1. <<>> \in Seq({a}) /\ <<a>> \in Seq({a}) /\ <<a, b>> \in Seq({a, b})
  OBVIOUS
<1>2. Len(<<>>) = 0 /\ Len(<<a>>) = 1 /\ Len(<<a, b>>) = 2
  OBVIOUS
<1> QED
  BY <1>1, <1>2 DEF Sized, IsList

\* Sixteen bits are two bytes, whatever the number.
LEMMA U16Sized ==
  ASSUME NEW n
  PROVE  Sized(U16(n), 2)
  BY TupleSized, Zenon DEF U16

\* Sixteen bits are read back as the number they were made from.
LEMMA U16Back ==
  ASSUME NEW n \in Nat
  PROVE  FromU16(U16(n)) = n
  BY DEF FromU16, U16

\* The pieces of a flattened sequence bound it.
LEMMA FlattenLists ==
  ASSUME NEW ss, NEW m \in Nat, NEW size \in Nat, Len(ss) = m,
         \A i \in 1..m : IsList(ss[i]) /\ Len(ss[i]) <= size,
         m = 0 => ss = <<>>
  PROVE  IsList(FlattenSeq(ss)) /\ Len(FlattenSeq(ss)) \in Nat /\ Len(FlattenSeq(ss)) <= size * m
<1>1. CASE m = 0
  <2>1. FlattenSeq(ss) = <<>>
    BY <1>1, Zenon DEF FlattenSeq
  <2>2. IsList(<<>>) /\ Len(<<>>) = 0
    BY DEF IsList
  <2> QED
    BY <1>1, <2>1, <2>2
<1>2. CASE m # 0
  <2>1. PICK f : /\ FlattenSeq(ss) = f[m]
                 /\ f[1] = ss[1]
                 /\ \A i \in 2..m : f[i] = Cat(f[i - 1], ss[i])
    BY <1>2, FlattenStep
  <2> DEFINE Good(i) == IsList(f[i]) /\ Len(f[i]) \in Nat /\ Len(f[i]) <= size * i
             S == {i \in Nat : i + 1 <= m => Good(i + 1)}
  <2>2. 0 \in S
    <3>1. Good(1)
      BY <1>2, <2>1, ListFacts
    <3> QED
      BY <3>1
  <2>3. \A i \in Nat : i \in S => i + 1 \in S
    <3> SUFFICES ASSUME NEW i \in Nat, i \in S, i + 2 <= m PROVE Good(i + 2)
      OBVIOUS
    <3>1. PICK a : a = f[i + 1]
      OBVIOUS
    <3>2. PICK b : b = ss[i + 2]
      OBVIOUS
    <3>3. PICK c : c = f[i + 2]
      OBVIOUS
    <3>4. IsList(a) /\ Len(a) \in Nat /\ Len(a) <= size * (i + 1)
      BY <3>1
    <3>5. IsList(b) /\ Len(b) \in Nat /\ Len(b) <= size
      BY <3>2, ListFacts
    <3>6. c = a \o b
      <4>1. i + 2 \in 2..m /\ (i + 2) - 1 = i + 1
        OBVIOUS
      <4> QED
        BY <2>1, <3>1, <3>2, <3>3, <4>1 DEF Cat
    <3>7. IsList(c) /\ Len(c) = Len(a) + Len(b)
      BY <3>4, <3>5, <3>6, CatList
    <3>8. size * (i + 2) = size * (i + 1) + size /\ size * (i + 1) \in Int
      OBVIOUS
    <3> QED
      BY <3>3, <3>4, <3>5, <3>7, <3>8
  <2>4. m - 1 \in S
    <3> HIDE DEF S
    <3> QED
      BY <1>2, <2>2, <2>3, NatInduct
  <2> QED
    BY <1>2, <2>1, <2>4
<1> QED
  BY <1>1, <1>2

\* A list of attributes <<tag, value>> with values no longer than size.
AreAttrs(attrs, size) ==
  IsList(attrs) /\ \A i \in 1..Len(attrs) : IsList(attrs[i][2]) /\ Len(attrs[i][2]) <= size

\* The bytes of one attribute.
LEMMA TlvSized ==
  ASSUME NEW attr, NEW n, Sized(attr[2], n)
  PROVE  Sized(Tlv(attr), 3 + n)
<1>1. Sized(<<attr[1]>> \o U16(Len(attr[2])), 1 + 2)
  BY TupleSized, U16Sized, CatSized, Zenon
<1>2. Sized((<<attr[1]>> \o U16(Len(attr[2]))) \o attr[2], (1 + 2) + n)
  BY <1>1, CatSized, Zenon
<1>3. Sized(Tlv(attr), (1 + 2) + n)
  BY <1>2, Zenon DEF Tlv
<1> QED
  BY <1>3

\* The bytes of a list of attributes.
LEMMA TlvsSized ==
  ASSUME NEW attrs, NEW size \in Nat, AreAttrs(attrs, size)
  PROVE  LET tlvs == FlattenSeq([i \in DOMAIN attrs |-> Tlv(attrs[i])]) IN
         IsList(tlvs) /\ Len(tlvs) \in Nat /\ Len(tlvs) <= (size + 3) * Len(attrs)
<1>1. IsList(attrs) /\ Len(attrs) \in Nat /\ DOMAIN attrs = 1..Len(attrs)
  BY ListFacts DEF AreAttrs
<1>2. PICK ss : ss = [i \in 1..Len(attrs) |-> Tlv(attrs[i])]
  OBVIOUS
<1>3. ss = [i \in 1..Len(attrs) |-> ss[i]] /\ \A i \in 1..Len(attrs) : ss[i] = Tlv(attrs[i])
  BY <1>2
<1>4. Len(ss) = Len(attrs)
  BY <1>1, <1>3, MapList
<1>5. ASSUME NEW i \in 1..Len(attrs) PROVE IsList(ss[i]) /\ Len(ss[i]) <= size + 3
  <2>1. IsList(attrs[i][2]) /\ Len(attrs[i][2]) <= size /\ Len(attrs[i][2]) \in Nat
    BY ListFacts DEF AreAttrs
  <2>2. PICK n : n = Len(attrs[i][2])
    OBVIOUS
  <2>3. Sized(Tlv(attrs[i]), 3 + n)
    BY <2>1, <2>2, TlvSized DEF Sized
  <2> QED
    BY <1>3, <2>1, <2>2, <2>3 DEF Sized
<1>6. Len(attrs) = 0 => ss = <<>>
  BY <1>2
<1>7. PICK m : m = size + 3 /\ m \in Nat
  OBVIOUS
<1>8. IsList(FlattenSeq(ss)) /\ Len(FlattenSeq(ss)) \in Nat /\ Len(FlattenSeq(ss)) <= m * Len(attrs)
  BY <1>1, <1>4, <1>5, <1>6, <1>7, FlattenLists
<1> QED
  BY <1>1, <1>2, <1>7, <1>8

\* u is s, m long, and then t, n long.
Joins(u, s, t, m, n) == m \in Nat /\ n \in Nat /\ Sized(s, m) /\ Sized(t, n) /\ u = s \o t

\* The elements of two lists that are joined.
LEMMA Joined ==
  ASSUME NEW s, NEW t, NEW u, NEW m, NEW n, Joins(u, s, t, m, n)
  PROVE  /\ Sized(u, m + n)
         /\ \A k \in 1..m : u[k] = s[k]
         /\ \A k \in 1..n : u[m + k] = t[k]
<1>1. /\ IsList(s \o t) /\ Len(s \o t) = Len(s) + Len(t)
      /\ \A i \in 1..Len(s) : (s \o t)[i] = s[i]
      /\ \A i \in 1..Len(t) : (s \o t)[Len(s) + i] = t[i]
  BY CatList DEF Joins, Sized
<1> QED
  BY <1>1 DEF Sized, Joins

\* The six parts of a frame, n bytes of them the body.
Frames(u, a, b, c, d, e, g, n) ==
  /\ n \in Nat
  /\ Sized(a, 2) /\ Sized(b, 1) /\ Sized(c, 2) /\ Sized(d, n) /\ Sized(e, 2) /\ Sized(g, 2)
  /\ u = a \o b \o c \o d \o e \o g

\* Where the parts of a frame are.
LEMMA CatFive ==
  ASSUME NEW a, NEW b, NEW c, NEW d, NEW e, NEW g, NEW n, NEW u, Frames(u, a, b, c, d, e, g, n)
  PROVE  /\ Sized(u, n + 9)
         /\ u[1] = a[1] /\ u[2] = a[2] /\ u[4] = c[1] /\ u[5] = c[2]
         /\ u[n + 6] = e[1] /\ u[n + 7] = e[2] /\ u[n + 8] = g[1] /\ u[n + 9] = g[2]
         /\ \A k \in 1..n : u[5 + k] = d[k]
<1>0. /\ n \in Nat
    /\ Sized(a, 2) /\ Sized(b, 1) /\ Sized(c, 2) /\ Sized(d, n) /\ Sized(e, 2) /\ Sized(g, 2)
    /\ u = a \o b \o c \o d \o e \o g
  BY Zenon DEF Frames
<1>1. PICK v : v = a \o b
  OBVIOUS
<1>2. PICK w : w = v \o c
  OBVIOUS
<1>3. PICK x : x = w \o d
  OBVIOUS
<1>4. PICK y : y = x \o e
  OBVIOUS
<1>5. u = y \o g
  BY <1>0, <1>1, <1>2, <1>3, <1>4, Zenon
<1>6. 1 \in Nat /\ 2 \in Nat /\ 2 + 1 \in Nat /\ (2 + 1) + 2 \in Nat /\ ((2 + 1) + 2) + n \in Nat
      /\ (((2 + 1) + 2) + n) + 2 \in Nat
  BY <1>0
<1>7. Sized(v, 2 + 1) /\ \A k \in 1..2 : v[k] = a[k]
  <2>1. Joins(v, a, b, 2, 1)
    BY <1>0, <1>1, <1>6, Zenon DEF Joins
  <2> QED
    BY <2>1, Joined, SMT
<1>8. Sized(w, (2 + 1) + 2) /\ (\A k \in 1..(2 + 1) : w[k] = v[k]) /\ \A k \in 1..2 : w[(2 + 1) + k] = c[k]
  <2>1. Joins(w, v, c, 2 + 1, 2)
    BY <1>0, <1>2, <1>6, <1>7, Zenon DEF Joins
  <2> QED
    BY <2>1, Joined, SMT
<1>9. /\ Sized(x, ((2 + 1) + 2) + n) /\ \A k \in 1..((2 + 1) + 2) : x[k] = w[k]
      /\ \A k \in 1..n : x[((2 + 1) + 2) + k] = d[k]
  <2>1. Joins(x, w, d, (2 + 1) + 2, n)
    BY <1>0, <1>3, <1>6, <1>8, Zenon DEF Joins
  <2> QED
    BY <2>1, Joined, SMT
<1>10. /\ Sized(y, (((2 + 1) + 2) + n) + 2) /\ \A k \in 1..(((2 + 1) + 2) + n) : y[k] = x[k]
       /\ \A k \in 1..2 : y[(((2 + 1) + 2) + n) + k] = e[k]
  <2>1. Joins(y, x, e, ((2 + 1) + 2) + n, 2)
    BY <1>0, <1>4, <1>6, <1>9, Zenon DEF Joins
  <2> QED
    BY <2>1, Joined, SMT
<1>11. /\ Sized(u, ((((2 + 1) + 2) + n) + 2) + 2) /\ \A k \in 1..((((2 + 1) + 2) + n) + 2) : u[k] = y[k]
       /\ \A k \in 1..2 : u[((((2 + 1) + 2) + n) + 2) + k] = g[k]
  <2>1. Joins(u, y, g, (((2 + 1) + 2) + n) + 2, 2)
    BY <1>0, <1>5, <1>6, <1>10, Zenon DEF Joins
  <2> QED
    BY <2>1, Joined, SMT
<1>12. \A k \in 1..2 : u[k] = a[k]
  <2>1. \A k \in 1..2 : k \in 1..(2 + 1) /\ k \in 1..((2 + 1) + 2) /\ k \in 1..(((2 + 1) + 2) + n)
                      /\ k \in 1..((((2 + 1) + 2) + n) + 2)
    BY <1>0
  <2> QED
    BY <1>7, <1>8, <1>9, <1>10, <1>11, <2>1, Zenon
<1>13. \A k \in 1..2 : u[(2 + 1) + k] = c[k]
  <2>1. \A k \in 1..2 : (2 + 1) + k \in 1..((2 + 1) + 2) /\ (2 + 1) + k \in 1..(((2 + 1) + 2) + n)
                      /\ (2 + 1) + k \in 1..((((2 + 1) + 2) + n) + 2)
    BY <1>0
  <2> QED
    BY <1>8, <1>9, <1>10, <1>11, <2>1, Zenon
<1>14. /\ 1 \in 1..2 /\ 2 \in 1..2 /\ ((((2 + 1) + 2) + n) + 2) + 2 = n + 9 /\ ((((2 + 1) + 2) + n) + 2) + 1 = n + 8
       /\ (2 + 1) + 1 = 4 /\ (2 + 1) + 2 = 5
  BY <1>0
<1>15. Sized(u, n + 9) /\ u[n + 8] = g[1] /\ u[n + 9] = g[2]
  <2>1. u[((((2 + 1) + 2) + n) + 2) + 1] = g[1] /\ u[((((2 + 1) + 2) + n) + 2) + 2] = g[2]
    BY <1>11, <1>14, Zenon
  <2> QED
    BY <1>11, <1>14, <2>1, Zenon
<1>18. u[n + 6] = e[1] /\ u[n + 7] = e[2]
  <2>1. /\ (((2 + 1) + 2) + n) + 1 = n + 6 /\ (((2 + 1) + 2) + n) + 2 = n + 7
        /\ (((2 + 1) + 2) + n) + 1 \in 1..((((2 + 1) + 2) + n) + 2)
        /\ (((2 + 1) + 2) + n) + 2 \in 1..((((2 + 1) + 2) + n) + 2)
    BY <1>0
  <2>2. /\ y[(((2 + 1) + 2) + n) + 1] = e[1] /\ y[(((2 + 1) + 2) + n) + 2] = e[2]
    BY <1>10, <1>14, Zenon
  <2>3. /\ u[(((2 + 1) + 2) + n) + 1] = e[1] /\ u[(((2 + 1) + 2) + n) + 2] = e[2]
    BY <1>11, <2>1, <2>2, Zenon
  <2> QED
    BY <2>1, <2>3, Zenon
<1>16. u[4] = c[1] /\ u[5] = c[2]
  <2>1. u[(2 + 1) + 1] = c[1] /\ u[(2 + 1) + 2] = c[2]
    BY <1>13, <1>14, Zenon
  <2> QED
    BY <1>14, <2>1, Zenon
<1>17. \A k \in 1..n : u[5 + k] = d[k]
  <2>1. (2 + 1) + 2 = 5 /\ \A k \in 1..n : ((2 + 1) + 2) + k \in 1..(((2 + 1) + 2) + n)
                       /\ ((2 + 1) + 2) + k \in 1..((((2 + 1) + 2) + n) + 2)
    BY <1>0
  <2>2. \A k \in 1..n : u[((2 + 1) + 2) + k] = d[k]
    <3> SUFFICES ASSUME NEW k \in 1..n PROVE u[((2 + 1) + 2) + k] = d[k]
      OBVIOUS
    <3>1. PICK j : j = ((2 + 1) + 2) + k
      OBVIOUS
    <3>2. x[j] = d[k]
      BY <1>9, <3>1, Zenon
    <3>3. y[j] = x[j]
      BY <1>10, <2>1, <3>1, Zenon
    <3>4. u[j] = y[j]
      BY <1>11, <2>1, <3>1, Zenon
    <3> QED
      BY <3>1, <3>2, <3>3, <3>4, Zenon
  <2> QED
    BY <2>1, <2>2, Zenon
<1> QED
  BY <1>12, <1>14, <1>15, <1>16, <1>17, <1>18, Zenon

\* The bytes of a list of attributes, and the body of a frame.
Tlvs(attrs) == FlattenSeq([i \in DOMAIN attrs |-> Tlv(attrs[i])])
\* The body of a frame.
Body(attrs, msgId, src) == <<src, msgId>> \o Tlvs(attrs)

\* At most `most` attributes of at most `size` bytes make a body that is no garbage to a
\* reassembler.
Fits(attrs, size, most) ==
  /\ size \in Nat /\ most \in Nat
  /\ AreAttrs(attrs, size) /\ Len(attrs) <= most /\ (size + 3) * most + 2 <= MaxFrameBody

\* A frame of these attributes, byte for byte.
Laid(f, attrs, msgId, src) ==
  /\ Sound(f)
  /\ IsList(Tlvs(attrs)) /\ Sized(Body(attrs, msgId, src), 2 + Len(Tlvs(attrs)))
  /\ Len(f) = 2 + Len(Tlvs(attrs)) + 9
  /\ \A k \in 1..(2 + Len(Tlvs(attrs))) : f[5 + k] = Body(attrs, msgId, src)[k]
  /\ <<f[Len(f) - 3], f[Len(f) - 2]>> = U16(Crc(Body(attrs, msgId, src)))

\* What the serializer makes of attributes that fit is a sound frame, laid out as it says.
LEMMA SerializeSound ==
  ASSUME NEW attrs, NEW size, NEW most, NEW msgId, NEW src, Fits(attrs, size, most)
  PROVE  Laid(SerializeFrame(attrs, msgId, src), attrs, msgId, src)
<1>0. /\ size \in Nat /\ most \in Nat
      /\ AreAttrs(attrs, size) /\ Len(attrs) <= most /\ (size + 3) * most + 2 <= MaxFrameBody
  BY Zenon DEF Fits
<1>1. PICK tlvs : tlvs = Tlvs(attrs)
  OBVIOUS
<1>2. PICK k : k = Len(tlvs)
  OBVIOUS
<1>3. Sized(tlvs, k) /\ k \in Nat /\ k <= (size + 3) * Len(attrs)
  BY <1>0, <1>1, <1>2, TlvsSized DEF Sized, Tlvs
<1>4. k <= (size + 3) * most
  <2>1. Len(attrs) \in Nat
    BY <1>0, ListFacts DEF AreAttrs
  <2>2. PICK d \in Nat : most = Len(attrs) + d
    <3>1. most = Len(attrs) + (most - Len(attrs)) /\ most - Len(attrs) \in Nat
      BY <1>0, <2>1
    <3> QED
      BY <3>1
  <2>3. (size + 3) * most = (size + 3) * Len(attrs) + (size + 3) * d
    BY <1>0, <2>1, <2>2
  <2>4. (size + 3) * d >= 0 /\ (size + 3) * Len(attrs) \in Int /\ (size + 3) * d \in Int
    BY <1>0, <2>1
  <2> QED
    BY <1>3, <2>3, <2>4
<1>5. PICK body : body = Body(attrs, msgId, src)
  OBVIOUS
<1>50. body = <<src, msgId>> \o tlvs
  BY <1>1, <1>5, Zenon DEF Body
<1>6. PICK n \in Nat : n = 2 + k
  BY <1>3
<1>7. Sized(body, n)
  BY <1>3, <1>50, <1>6, TupleSized, CatSized
<1>8. Len(body) = n
  BY <1>7 DEF Sized
<1>9. PICK f : f = SerializeFrame(attrs, msgId, src)
  OBVIOUS
<1>10. f = MagicHead \o <<SubdevType>> \o U16(n) \o body \o U16(Crc(body)) \o MagicTail
  BY <1>1, <1>50, <1>8, <1>9, Zenon DEF SerializeFrame, Tlvs
<1>11. PICK a, b, c, e, g : a = MagicHead /\ b = <<SubdevType>> /\ c = U16(n) /\ e = U16(Crc(body)) /\ g = MagicTail
  OBVIOUS
<1>12. Sized(a, 2) /\ Sized(b, 1) /\ Sized(c, 2) /\ Sized(e, 2) /\ Sized(g, 2)
  BY <1>11, TupleSized, U16Sized, Zenon DEF MagicHead, MagicTail
<1>13. f = a \o b \o c \o body \o e \o g
  BY <1>10, <1>11, Zenon
<1>14. /\ Sized(f, n + 9)
       /\ f[1] = a[1] /\ f[2] = a[2] /\ f[4] = c[1] /\ f[5] = c[2]
       /\ f[n + 6] = e[1] /\ f[n + 7] = e[2] /\ f[n + 8] = g[1] /\ f[n + 9] = g[2]
       /\ \A j \in 1..n : f[5 + j] = body[j]
  <2>1. Frames(f, a, b, c, body, e, g, n)
    BY <1>6, <1>7, <1>12, <1>13, Zenon DEF Frames
  <2> QED
    BY <2>1, CatFive, SMT
<1>15. a[1] = 85 /\ a[2] = 170 /\ g[1] = 170 /\ g[2] = 85
  BY <1>11 DEF MagicHead, MagicTail
<1>16. 256 * c[1] + c[2] = n
  BY <1>11, U16Back DEF FromU16
<1>17. IsList(f) /\ Len(f) = n + 9
  BY <1>14 DEF Sized
<1>18. Len(f) >= 11 /\ Len(f) <= MaxFrameBody + 9 /\ Len(f) - 1 = n + 8 /\ Len(f) <= (size + 3) * most + 11
  <2>1. PICK p : p = (size + 3) * most
    OBVIOUS
  <2>2. p \in Int
    BY <1>0, <2>1
  <2>3. k <= p /\ p + 2 <= MaxFrameBody
    BY <1>0, <1>4, <2>1
  <2> QED
    BY <1>3, <1>6, <1>17, <2>1, <2>2, <2>3, BodyBound
<1>19. Sound(f)
  BY <1>14, <1>15, <1>16, <1>17, <1>18 DEF Sound
<1>20. Len(f) = 2 + k + 9
  BY <1>6, <1>17
<1>21. IsList(tlvs)
  BY <1>3, Zenon DEF Sized
<1>22. <<f[Len(f) - 3], f[Len(f) - 2]>> = U16(Crc(body))
  <2>1. Len(f) - 3 = n + 6 /\ Len(f) - 2 = n + 7
    BY <1>17
  <2>2. e = <<e[1], e[2]>>
    BY <1>11 DEF U16
  <2> QED
    BY <1>11, <1>14, <2>1, <2>2, Zenon
<1> QED
  BY <1>1, <1>2, <1>5, <1>6, <1>7, <1>9, <1>14, <1>18, <1>19, <1>20, <1>21, <1>22, Zenon DEF Laid

(* -- the parser, attribute by attribute ---------------------------------- *)

\* Where each piece of a flattened sequence lies: piece i after place e[i - 1].
Cuts(e, ss, total) ==
  /\ e[0] = 0 /\ e[Len(ss)] = Len(total)
  /\ \A i \in 1..Len(ss) :
       /\ e[i - 1] \in Nat /\ e[i] = e[i - 1] + Len(ss[i]) /\ e[i] <= Len(total)
       /\ \A k \in 1..Len(ss[i]) : total[e[i - 1] + k] = ss[i][k]

\* b is the first i elements of ss one after the other; element j ends at e[j].
Upto(e, ss, i, b) ==
  /\ IsList(b) /\ e[i] = Len(b)
  /\ \A j \in 1..i : /\ e[j - 1] \in Nat /\ e[j] = e[j - 1] + Len(ss[j]) /\ e[j] <= Len(b)
                    /\ \A k \in 1..Len(ss[j]) : b[e[j - 1] + k] = ss[j][k]

\* One more element of what is flattened.
LEMMA CutStep ==
  ASSUME NEW e, NEW ss, NEW i \in Nat, NEW a, NEW b, Upto(e, ss, i, a), b = Cat(a, ss[i + 1]),
         \A j \in 1..(i + 1) : IsList(ss[j]), e[i + 1] = Len(b)
  PROVE  Upto(e, ss, i + 1, b)
<1>0. /\ IsList(a) /\ e[i] = Len(a)
      /\ \A j \in 1..i : /\ e[j - 1] \in Nat /\ e[j] = e[j - 1] + Len(ss[j]) /\ e[j] <= Len(a)
                        /\ \A k \in 1..Len(ss[j]) : a[e[j - 1] + k] = ss[j][k]
  BY Zenon DEF Upto
<1>1. PICK t : t = ss[i + 1]
  OBVIOUS
<1>2. PICK m : m = Len(a)
  OBVIOUS
<1>3. PICK n : n = Len(t)
  OBVIOUS
<1>4. m \in Nat /\ n \in Nat /\ Sized(a, m) /\ Sized(t, n)
  <2>1. i + 1 \in 1..(i + 1)
    OBVIOUS
  <2>2. IsList(t)
    BY <1>1, <2>1
  <2> QED
    BY <1>0, <1>2, <1>3, <2>2, ListFacts DEF Sized
<1>5. Joins(b, a, t, m, n)
  BY <1>1, <1>4, Zenon DEF Joins, Cat
<1>6. Sized(b, m + n) /\ (\A k \in 1..m : b[k] = a[k]) /\ \A k \in 1..n : b[m + k] = t[k]
  BY <1>5, Joined, SMT
<1>7. IsList(b) /\ Len(b) = m + n
  BY <1>6 DEF Sized
<1>8. ASSUME NEW j \in 1..i
      PROVE  /\ e[j - 1] \in Nat /\ e[j] = e[j - 1] + Len(ss[j]) /\ e[j] <= m + n
             /\ \A k \in 1..Len(ss[j]) : b[e[j - 1] + k] = ss[j][k]
  <2>1. /\ e[j - 1] \in Nat /\ e[j] = e[j - 1] + Len(ss[j]) /\ e[j] <= m
        /\ \A k \in 1..Len(ss[j]) : a[e[j - 1] + k] = ss[j][k]
    BY <1>0, <1>2
  <2>2. PICK x \in Nat : x = e[j - 1]
    BY <2>1
  <2>3. PICK l : l = Len(ss[j])
    OBVIOUS
  <2>4. PICK p : p = ss[j]
    OBVIOUS
  <2>5. e[j] = x + l /\ x + l <= m /\ \A k \in 1..l : a[x + k] = p[k]
    BY <2>1, <2>2, <2>3, <2>4
  <2>6. ASSUME NEW k \in 1..l PROVE b[x + k] = p[k]
    <3>1. x + k \in 1..m
      <4>1. k \in Nat /\ k >= 1 /\ k <= l
        OBVIOUS
      <4>2. l \in Nat
        <5>1. IsList(ss[j])
          OBVIOUS
        <5> QED
          BY <2>3, <5>1, ListFacts
      <4> QED
        BY <1>4, <2>2, <2>5, <4>1, <4>2
    <3> QED
      BY <1>6, <2>5, <3>1
  <2>7. e[j] <= m + n
    BY <1>4, <2>1, <2>2, <2>3, <2>5
  <2> QED
    BY <2>1, <2>2, <2>3, <2>4, <2>6, <2>7
<1>9. /\ e[(i + 1) - 1] \in Nat /\ e[i + 1] = e[(i + 1) - 1] + Len(ss[i + 1]) /\ e[i + 1] <= m + n
      /\ \A k \in 1..Len(ss[i + 1]) : b[e[(i + 1) - 1] + k] = ss[i + 1][k]
  <2>1. (i + 1) - 1 = i
    OBVIOUS
  <2>2. e[i] = m /\ e[i + 1] = m + n
    BY <1>0, <1>2, <1>7
  <2> QED
    BY <1>1, <1>3, <1>4, <1>6, <2>1, <2>2
<1>10. \A j \in 1..(i + 1) : j \in 1..i \/ j = i + 1
  OBVIOUS
<1> QED
  BY <1>7, <1>8, <1>9, <1>10 DEF Upto

\* Where each element is in what is flattened.
LEMMA FlattenCuts ==
  ASSUME NEW ss, Len(ss) \in Nat \ {0}, \A i \in 1..Len(ss) : IsList(ss[i])
  PROVE  IsList(FlattenSeq(ss)) /\ \E e : Cuts(e, ss, FlattenSeq(ss))
<1>1. PICK n \in Nat \ {0} : n = Len(ss)
  OBVIOUS
<1>2. PICK f : /\ FlattenSeq(ss) = f[n] /\ f[1] = ss[1]
               /\ \A i \in 2..n : f[i] = Cat(f[i - 1], ss[i])
  BY <1>1, FlattenStep
<1>3. PICK e : e = [i \in 0..n |-> IF i = 0 THEN 0 ELSE Len(f[i])]
  OBVIOUS
<1>4. e[0] = 0 /\ \A i \in 1..n : e[i] = Len(f[i])
  BY <1>3
<1> DEFINE S == {i \in Nat : i + 1 <= n => Upto(e, ss, i + 1, f[i + 1])}
<1> HIDE DEF S
<1>5. Upto(e, ss, 1, f[1])
  <2>1. 1 \in 1..n /\ 1 - 1 = 0 /\ \A j \in 1..1 : j = 1
    OBVIOUS
  <2>2. IsList(ss[1]) /\ Len(ss[1]) \in Nat
    BY <1>1, <2>1, ListFacts
  <2> QED
    BY <1>2, <1>4, <2>1, <2>2 DEF Upto
<1>51. \A i \in Nat : (i + 1) + 1 <= n =>
         /\ i + 1 \in Nat /\ (i + 1) + 1 \in 1..n /\ (i + 1) + 1 \in 2..n /\ ((i + 1) + 1) - 1 = i + 1
  OBVIOUS
<1>52. \A i \in Nat : (i + 1) + 1 <= n => \A j \in 1..((i + 1) + 1) : j \in 1..n
  OBVIOUS
<1>53. \A j \in 1..n : IsList(ss[j])
  BY <1>1
<1>6. ASSUME NEW i \in Nat, (i + 1) + 1 <= n, Upto(e, ss, i + 1, f[i + 1])
      PROVE  Upto(e, ss, (i + 1) + 1, f[(i + 1) + 1])
  <2>1. i + 1 \in Nat /\ (i + 1) + 1 \in 1..n /\ (i + 1) + 1 \in 2..n /\ ((i + 1) + 1) - 1 = i + 1
    BY <1>6, <1>51, Zenon
  <2>2. \A j \in 1..((i + 1) + 1) : IsList(ss[j])
    BY <1>6, <1>52, <1>53, Zenon
  <2>3. f[(i + 1) + 1] = Cat(f[i + 1], ss[(i + 1) + 1])
    BY <1>2, <2>1, Zenon
  <2>4. e[(i + 1) + 1] = Len(f[(i + 1) + 1])
    BY <1>4, <2>1, Zenon
  <2> QED
    BY <1>6, <2>1, <2>2, <2>3, <2>4, CutStep
<1>7. n - 1 \in S
  <2>1. 0 \in S
    BY <1>5 DEF S
  <2>2. \A i \in Nat : i \in S => i + 1 \in S
    BY <1>6 DEF S
  <2> QED
    BY <2>1, <2>2, NatInduct
<1>8. Upto(e, ss, n, f[n])
  <2>1. (n - 1) + 1 = n
    OBVIOUS
  <2> QED
    BY <1>7, <2>1 DEF S
<1>9. Cuts(e, ss, f[n])
  BY <1>1, <1>4, <1>8, Zenon DEF Cuts, Upto
<1>10. IsList(f[n])
  BY <1>8, Zenon DEF Upto
<1> QED
  BY <1>2, <1>9, <1>10

\* Attribute i of them lies after place e[i - 1].
Places(e, attrs) ==
  /\ e[0] = 0 /\ e[Len(attrs)] = Len(Tlvs(attrs))
  /\ \A i \in 1..Len(attrs) :
       LET at == e[i - 1]  value == attrs[i][2] IN
       /\ at \in Nat /\ e[i] = at + Len(value) + 3 /\ e[i] <= Len(Tlvs(attrs))
       /\ Tlvs(attrs)[at + 1] = attrs[i][1]
       /\ 256 * Tlvs(attrs)[at + 2] + Tlvs(attrs)[at + 3] = Len(value)
       /\ \A k \in 1..Len(value) : Tlvs(attrs)[at + 3 + k] = value[k]

\* Where each attribute is in a body.
LEMMA TlvCuts ==
  ASSUME NEW attrs, NEW size, AreAttrs(attrs, size), Len(attrs) # 0
  PROVE  /\ IsList(Tlvs(attrs))
         /\ \E e : Places(e, attrs)
<1>1. PICK n \in Nat \ {0} : n = Len(attrs)
  BY ListFacts DEF AreAttrs
<1>2. DOMAIN attrs = 1..n
  BY <1>1, ListFacts DEF AreAttrs
<1>3. PICK ss : ss = [i \in 1..n |-> Tlv(attrs[i])]
  OBVIOUS
<1>4. ss = [i \in 1..n |-> ss[i]] /\ \A i \in 1..n : ss[i] = Tlv(attrs[i])
  BY <1>3
<1>5. Len(ss) = n
  BY <1>4, MapList
<1>6. ASSUME NEW i \in 1..n
      PROVE  LET value == attrs[i][2] IN
             /\ IsList(ss[i]) /\ Len(value) \in Nat /\ Len(ss[i]) = 3 + Len(value)
             /\ ss[i][1] = attrs[i][1] /\ 256 * ss[i][2] + ss[i][3] = Len(value)
             /\ \A k \in 1..Len(value) : ss[i][3 + k] = value[k]
  <2>1. PICK value : value = attrs[i][2]
    OBVIOUS
  <2>2. PICK m : m = Len(value)
    OBVIOUS
  <2>3. IsList(value) /\ m \in Nat /\ Sized(value, m)
    BY <1>1, <2>1, <2>2, ListFacts DEF AreAttrs, Sized
  <2>4. PICK tag, u, s, t : tag = <<attrs[i][1]>> /\ u = U16(m) /\ s = tag \o u /\ t = ss[i]
    OBVIOUS
  <2>5. Sized(tag, 1) /\ Sized(u, 2) /\ 1 \in Nat /\ 2 \in Nat /\ 1 + 2 \in Nat
    <3>1. 1 \in Nat /\ 2 \in Nat /\ 1 + 2 \in Nat
      OBVIOUS
    <3> QED
      BY <2>4, <3>1, TupleSized, U16Sized, Zenon
  <2>6. Joins(s, tag, u, 1, 2)
    BY <2>4, <2>5, Zenon DEF Joins
  <2>7. Sized(s, 1 + 2) /\ (\A k \in 1..1 : s[k] = tag[k]) /\ \A k \in 1..2 : s[1 + k] = u[k]
    BY <2>6, Joined, SMT
  <2>8. t = s \o value
    BY <1>4, <2>1, <2>2, <2>4, Zenon DEF Tlv
  <2>9. Joins(t, s, value, 1 + 2, m)
    BY <2>3, <2>5, <2>7, <2>8, Zenon DEF Joins
  <2>10. Sized(t, (1 + 2) + m) /\ (\A k \in 1..(1 + 2) : t[k] = s[k]) /\ \A k \in 1..m : t[(1 + 2) + k] = value[k]
    BY <2>9, Joined, SMT
  <2>11. /\ 1 \in 1..1 /\ 1 \in 1..2 /\ 2 \in 1..2 /\ 1 + 1 = 2 /\ 1 + 2 = 3
         /\ 1 \in 1..(1 + 2) /\ 2 \in 1..(1 + 2) /\ 1 + 2 \in 1..(1 + 2) /\ 1 + 1 \in 1..(1 + 2)
    OBVIOUS
  <2>12. t[1] = tag[1] /\ t[2] = u[1] /\ t[3] = u[2]
    <3>1. t[1] = s[1] /\ s[1] = tag[1]
      BY <2>7, <2>10, <2>11, Zenon
    <3>2. t[1 + 1] = s[1 + 1] /\ s[1 + 1] = u[1]
      BY <2>7, <2>10, <2>11, Zenon
    <3>3. t[1 + 2] = s[1 + 2] /\ s[1 + 2] = u[2]
      BY <2>7, <2>10, <2>11, Zenon
    <3> QED
      BY <2>11, <3>1, <3>2, <3>3, Zenon
  <2>13. tag[1] = attrs[i][1]
    BY <2>4
  <2>14. 256 * u[1] + u[2] = m
    BY <2>3, <2>4, U16Back DEF FromU16
  <2>15. IsList(t) /\ Len(t) = 3 + m
    BY <2>10, <2>11 DEF Sized
  <2>16. \A k \in 1..m : t[3 + k] = value[k]
    BY <2>10, <2>11, Zenon
  <2> QED
    BY <2>1, <2>2, <2>3, <2>4, <2>12, <2>13, <2>14, <2>15, <2>16
<1>7. PICK all : all = Tlvs(attrs)
  OBVIOUS
<1>8. all = FlattenSeq(ss)
  BY <1>2, <1>3, <1>7, Zenon DEF Tlvs
<1>9. Len(ss) \in Nat \ {0} /\ \A i \in 1..Len(ss) : IsList(ss[i])
  BY <1>5, <1>6
<1>10. IsList(all) /\ \E e : Cuts(e, ss, all)
  BY <1>8, <1>9, FlattenCuts
<1>11. PICK e : Cuts(e, ss, all)
  BY <1>10
<1>12. e[0] = 0 /\ e[n] = Len(all)
  BY <1>5, <1>11 DEF Cuts
<1>13. ASSUME NEW i \in 1..n
       PROVE  LET at == e[i - 1]  value == attrs[i][2] IN
              /\ at \in Nat /\ e[i] = at + Len(value) + 3 /\ e[i] <= Len(all)
              /\ all[at + 1] = attrs[i][1]
              /\ 256 * all[at + 2] + all[at + 3] = Len(value)
              /\ \A k \in 1..Len(value) : all[at + 3 + k] = value[k]
  <2>1. PICK value : value = attrs[i][2]
    OBVIOUS
  <2>2. PICK s : s = ss[i]
    OBVIOUS
  <2>10. PICK m \in Nat : m = Len(value)
    BY <1>6, <2>1
  <2>3. /\ e[i - 1] \in Nat /\ e[i] = e[i - 1] + Len(s) /\ e[i] <= Len(all)
        /\ \A k \in 1..Len(s) : all[e[i - 1] + k] = s[k]
    BY <1>5, <1>11, <2>2 DEF Cuts
  <2>4. /\ Len(s) = 3 + m /\ s[1] = attrs[i][1] /\ 256 * s[2] + s[3] = m
        /\ \A k \in 1..m : s[3 + k] = value[k]
    BY <1>6, <2>1, <2>2, <2>10
  <2>5. PICK at \in Nat : at = e[i - 1]
    BY <2>3
  <2>6. \A k \in 1..(3 + m) : all[at + k] = s[k]
    BY <2>3, <2>4, <2>5
  <2>7. /\ 1 \in 1..(3 + m) /\ 2 \in 1..(3 + m) /\ 3 \in 1..(3 + m)
        /\ \A k \in 1..m : 3 + k \in 1..(3 + m) /\ at + (3 + k) = at + 3 + k
    OBVIOUS
  <2>8. all[at + 1] = s[1] /\ all[at + 2] = s[2] /\ all[at + 3] = s[3] /\ \A k \in 1..m : all[at + 3 + k] = value[k]
    BY <2>4, <2>6, <2>7
  <2>9. e[i] = at + m + 3
    <3>1. PICK l : l = Len(s)
      OBVIOUS
    <3>2. l = 3 + m /\ e[i] = at + l
      BY <2>3, <2>4, <2>5, <3>1, Zenon
    <3> QED
      BY <3>2
  <2> QED
    BY <2>1, <2>2, <2>10, <2>3, <2>4, <2>5, <2>8, <2>9
<1> QED
  BY <1>1, <1>7, <1>10, <1>12, <1>13 DEF Places

\* What a reader of the bytes makes of the first i attributes.
Got(attrs, i) == [j \in 1..i |-> <<attrs[j][1], attrs[j][2]>>]

\* Where a reader is after i attributes.
Reader(attrs, e, i) ==
  [rest |-> SubSeq(Tlvs(attrs), e[i] + 1, Len(Tlvs(attrs))), attrs |-> Got(attrs, i)]

\* At the end of the bytes the parser stays where it is.
LEMMA NextStops ==
  ASSUME NEW r, r.rest = <<>>
  PROVE  NextAttribute(r) = r
  BY Zenon DEF NextAttribute

\* The parser takes an attribute that is all there.
LEMMA NextTakes ==
  ASSUME NEW r, NEW n, n = FromU16(SubSeq(r.rest, 2, 3)), r.rest # <<>>, ~(Len(r.rest) < 3), ~(3 + n > Len(r.rest))
  PROVE  NextAttribute(r) = [rest |-> SubSeq(r.rest, 4 + n, Len(r.rest)),
                             attrs |-> Append(r.attrs, <<r.rest[1], SubSeq(r.rest, 4, 3 + n)>>)]
  BY Zenon DEF NextAttribute

\* What was got is a list.
LEMMA GotList ==
  ASSUME NEW attrs, NEW i \in Nat
  PROVE  /\ IsList(Got(attrs, i)) /\ Len(Got(attrs, i)) = i
         /\ \A j \in 1..i : Got(attrs, i)[j] = <<attrs[j][1], attrs[j][2]>>
<1>1. PICK g : g = Got(attrs, i)
  OBVIOUS
<1>2. g = [j \in 1..i |-> g[j]] /\ \A j \in 1..i : g[j] = <<attrs[j][1], attrs[j][2]>>
  BY <1>1 DEF Got
<1>3. IsList(g) /\ Len(g) = i
  BY <1>2, MapList
<1> QED
  BY <1>1, <1>2, <1>3

\* One attribute more.
LEMMA GotMore ==
  ASSUME NEW attrs, NEW i \in Nat, NEW x, x = <<attrs[i + 1][1], attrs[i + 1][2]>>
  PROVE  Append(Got(attrs, i), x) = Got(attrs, i + 1)
<1>1. PICK g : g = Got(attrs, i)
  OBVIOUS
<1>2. PICK h : h = Got(attrs, i + 1)
  OBVIOUS
<1>3. PICK a : a = Append(g, x)
  OBVIOUS
<1>4. IsList(g) /\ Len(g) = i /\ \A j \in 1..i : g[j] = <<attrs[j][1], attrs[j][2]>>
  BY <1>1, GotList
<1>5. IsList(h) /\ Len(h) = i + 1 /\ \A j \in 1..(i + 1) : h[j] = <<attrs[j][1], attrs[j][2]>>
  BY <1>2, GotList
<1>6. IsList(a) /\ Len(a) = i + 1 /\ (\A j \in 1..i : a[j] = g[j]) /\ a[i + 1] = x
  BY <1>3, <1>4, AppendList
<1>7. \A j \in 1..(i + 1) : a[j] = h[j]
  <2>1. \A j \in 1..(i + 1) : j \in 1..i \/ j = i + 1
    OBVIOUS
  <2>2. i + 1 \in 1..(i + 1)
    OBVIOUS
  <2>3. \A j \in 1..i : j \in 1..(i + 1)
    OBVIOUS
  <2> QED
    BY <1>4, <1>5, <1>6, <2>1, <2>2, <2>3, Zenon
<1>8. a = h
  BY <1>5, <1>6, <1>7, ListExt, Zenon
<1> QED
  BY <1>1, <1>2, <1>3, <1>8

\* A part of a part is a part.
LEMMA SubSubSeq ==
  ASSUME NEW s, NEW a \in Nat, NEW b \in Nat, NEW m \in Nat, NEW n \in Nat, m >= 1, n <= b - a
  PROVE  SubSeq(SubSeq(s, a + 1, b), m, n) = SubSeq(s, a + m, a + n)
<1>1. PICK t : t = SubSeq(s, a + 1, b)
  OBVIOUS
<1>2. PICK u : u = SubSeq(t, m, n)
  OBVIOUS
<1>3. PICK v : v = SubSeq(s, a + m, a + n)
  OBVIOUS
<1>4. PICK l : l = IF m <= n THEN n - m + 1 ELSE 0
  OBVIOUS
<1>5. IsList(u) /\ Len(u) = l /\ \A i \in 1..l : u[i] = t[m + i - 1]
  BY <1>2, <1>4, SubList
<1>6. IsList(v) /\ Len(v) = l /\ \A i \in 1..l : v[i] = s[a + m + i - 1]
  <2>1. a + m \in Int /\ a + n \in Int
    OBVIOUS
  <2>2. /\ IsList(v) /\ Len(v) = IF a + m <= a + n THEN (a + n) - (a + m) + 1 ELSE 0
        /\ \A i \in 1..Len(v) : v[i] = s[(a + m) + i - 1]
    BY <1>3, <2>1, SubList
  <2>3. Len(v) = l
    BY <1>4, <2>2
  <2> QED
    BY <2>2, <2>3
<1>7. m <= n => \A i \in 1..(b - a) : t[i] = s[(a + 1) + i - 1]
  <2> SUFFICES ASSUME m <= n PROVE \A i \in 1..(b - a) : t[i] = s[(a + 1) + i - 1]
    OBVIOUS
  <2>1. a + 1 \in Int /\ b \in Int /\ a + 1 <= b
    OBVIOUS
  <2>2. Len(t) = b - (a + 1) + 1 /\ \A i \in 1..Len(t) : t[i] = s[(a + 1) + i - 1]
    BY <1>1, <2>1, SubList
  <2>3. b - (a + 1) + 1 = b - a
    OBVIOUS
  <2> QED
    BY <2>2, <2>3
<1>8. ASSUME NEW i \in 1..l PROVE u[i] = v[i]
  <2>1. m <= n /\ m + i - 1 \in 1..(b - a) /\ (a + 1) + (m + i - 1) - 1 = a + m + i - 1
    BY <1>4
  <2>2. u[i] = t[m + i - 1] /\ v[i] = s[a + m + i - 1]
    BY <1>5, <1>6
  <2>3. t[m + i - 1] = s[(a + 1) + (m + i - 1) - 1]
    BY <1>7, <2>1, Zenon
  <2> QED
    BY <2>1, <2>2, <2>3, Zenon
<1>9. u = v
  BY <1>5, <1>6, <1>8, ListExt, Zenon
<1> QED
  BY <1>1, <1>2, <1>3, <1>9, Zenon

\* A part of what is joined.
LEMMA SubAt ==
  ASSUME NEW s, NEW a \in Nat, NEW b \in Nat, a < b
  PROVE  /\ IsList(SubSeq(s, a + 1, b)) /\ Len(SubSeq(s, a + 1, b)) = b - a
         /\ \A i \in 1..(b - a) : SubSeq(s, a + 1, b)[i] = s[a + i]
<1>1. PICK t : t = SubSeq(s, a + 1, b)
  OBVIOUS
<1>2. a + 1 \in Int /\ a + 1 <= b
  OBVIOUS
<1>3. IsList(t) /\ Len(t) = b - (a + 1) + 1 /\ \A i \in 1..Len(t) : t[i] = s[(a + 1) + i - 1]
  BY <1>1, <1>2, SubList
<1>4. b - (a + 1) + 1 = b - a /\ \A i \in 1..(b - a) : (a + 1) + i - 1 = a + i
  OBVIOUS
<1>5. \A i \in 1..(b - a) : t[i] = s[a + i]
  BY <1>3, <1>4
<1> QED
  BY <1>1, <1>3, <1>4, <1>5

\* Each turn of the parser takes one attribute.
LEMMA ReaderStep ==
  ASSUME NEW attrs, NEW size, AreAttrs(attrs, size), NEW e, Places(e, attrs), IsList(Tlvs(attrs)),
         NEW i \in Nat, i < Len(attrs)
  PROVE  NextAttribute(Reader(attrs, e, i)) = Reader(attrs, e, i + 1)
<1>1. PICK all : all = Tlvs(attrs)
  OBVIOUS
<1>2. PICK l \in Nat : l = Len(all)
  BY <1>1, ListFacts
<1>3. PICK value : value = attrs[i + 1][2]
  OBVIOUS
<1>4. Len(attrs) \in Nat
  BY ListFacts DEF AreAttrs
<1>5. i + 1 \in 1..Len(attrs) /\ (i + 1) - 1 = i
  BY <1>4
<1>6. IsList(value)
  BY <1>3, <1>5 DEF AreAttrs
<1>7. PICK m \in Nat : m = Len(value)
  BY <1>6, ListFacts
<1>8. /\ e[i] \in Nat /\ e[i + 1] = e[i] + m + 3 /\ e[i + 1] <= l
      /\ all[e[i] + 1] = attrs[i + 1][1] /\ 256 * all[e[i] + 2] + all[e[i] + 3] = m
      /\ \A k \in 1..m : all[e[i] + 3 + k] = value[k]
  <2>1. /\ e[(i + 1) - 1] \in Nat /\ e[i + 1] = e[(i + 1) - 1] + m + 3 /\ e[i + 1] <= l
        /\ all[e[(i + 1) - 1] + 1] = attrs[i + 1][1]
        /\ 256 * all[e[(i + 1) - 1] + 2] + all[e[(i + 1) - 1] + 3] = m
        /\ \A k \in 1..m : all[e[(i + 1) - 1] + 3 + k] = value[k]
    BY <1>1, <1>2, <1>3, <1>5, <1>7, Zenon DEF Places
  <2> QED
    BY <1>5, <2>1, Zenon
<1>9. PICK at \in Nat : at = e[i]
  BY <1>8
<1>10. /\ e[i + 1] = at + m + 3 /\ at + m + 3 <= l
       /\ all[at + 1] = attrs[i + 1][1] /\ 256 * all[at + 2] + all[at + 3] = m
       /\ \A k \in 1..m : all[at + 3 + k] = value[k]
  BY <1>8, <1>9
<1>11. PICK rest : rest = SubSeq(all, at + 1, l)
  OBVIOUS
<1>12. IsList(rest) /\ Len(rest) = l - at /\ \A j \in 1..(l - at) : rest[j] = all[at + j]
  <2>1. at < l
    BY <1>10
  <2> QED
    BY <1>11, <2>1, SubAt
<1>13. rest[1] = attrs[i + 1][1] /\ 256 * rest[2] + rest[3] = m
  <2>1. 1 \in 1..(l - at) /\ 2 \in 1..(l - at) /\ 3 \in 1..(l - at)
    BY <1>10
  <2>2. rest[1] = all[at + 1] /\ rest[2] = all[at + 2] /\ rest[3] = all[at + 3]
    BY <1>12, <2>1
  <2> QED
    BY <1>10, <2>2
<1>14. FromU16(SubSeq(rest, 2, 3)) = m
  <2>1. PICK u : u = SubSeq(rest, 2, 3)
    OBVIOUS
  <2>2. u[1] = rest[2] /\ u[2] = rest[3]
    BY <2>1, SubList
  <2> QED
    BY <1>13, <2>1, <2>2 DEF FromU16
<1>15. ~(Len(rest) < 3) /\ ~(3 + m > Len(rest))
  BY <1>10, <1>12
<1>16. rest # <<>>
  <2>1. Len(rest) \in Nat /\ Len(rest) # 0
    BY <1>10, <1>12
  <2> QED
    BY <2>1
<1>17. SubSeq(rest, 4 + m, Len(rest)) = SubSeq(all, e[i + 1] + 1, l)
  <2>1. /\ 4 + m \in Nat /\ l - at \in Nat /\ 4 + m >= 1 /\ l - at <= l - at
        /\ at + (4 + m) = (at + m + 3) + 1 /\ at + (l - at) = l
    BY <1>10
  <2>2. SubSeq(SubSeq(all, at + 1, l), 4 + m, l - at) = SubSeq(all, at + (4 + m), at + (l - at))
    BY <2>1, SubSubSeq
  <2> QED
    BY <1>10, <1>11, <1>12, <2>1, <2>2, Zenon
<1>18. SubSeq(rest, 4, 3 + m) = value
  <2>1. 4 \in Nat /\ 3 + m \in Nat /\ 4 >= 1 /\ 3 + m <= l - at /\ at + 4 \in Int /\ at + (3 + m) \in Int
    BY <1>10
  <2>2. SubSeq(SubSeq(all, at + 1, l), 4, 3 + m) = SubSeq(all, at + 4, at + (3 + m))
    BY <2>1, SubSubSeq
  <2>3. PICK v : v = SubSeq(all, at + 4, at + (3 + m))
    OBVIOUS
  <2>4. /\ IsList(v) /\ Len(v) = IF at + 4 <= at + (3 + m) THEN (at + (3 + m)) - (at + 4) + 1 ELSE 0
        /\ \A k \in 1..Len(v) : v[k] = all[(at + 4) + k - 1]
    BY <2>1, <2>3, SubList
  <2>5. Len(v) = m
    <3>1. CASE m = 0
      BY <2>4, <3>1
    <3>2. CASE m >= 1
      BY <2>4, <3>2
    <3> QED
      BY <3>1, <3>2
  <2>6. \A k \in 1..m : (at + 4) + k - 1 = at + 3 + k
    OBVIOUS
  <2>7. \A k \in 1..m : v[k] = value[k]
    BY <1>10, <2>4, <2>5, <2>6
  <2>8. v = value
    BY <1>6, <1>7, <2>4, <2>5, <2>7, ListExt
  <2> QED
    BY <1>11, <2>2, <2>3, <2>8, Zenon
<1>19. PICK r : r = Reader(attrs, e, i)
  OBVIOUS
<1>20. r.rest = rest /\ r.attrs = Got(attrs, i)
  BY <1>1, <1>2, <1>9, <1>11, <1>19 DEF Reader
<1>21. NextAttribute(r) = [rest |-> SubSeq(rest, 4 + m, Len(rest)),
                           attrs |-> Append(Got(attrs, i), <<rest[1], SubSeq(rest, 4, 3 + m)>>)]
  <2>1. m = FromU16(SubSeq(r.rest, 2, 3)) /\ r.rest # <<>> /\ ~(Len(r.rest) < 3) /\ ~(3 + m > Len(r.rest))
    BY <1>14, <1>15, <1>16, <1>20, Zenon
  <2>2. NextAttribute(r) = [rest |-> SubSeq(r.rest, 4 + m, Len(r.rest)),
                             attrs |-> Append(r.attrs, <<r.rest[1], SubSeq(r.rest, 4, 3 + m)>>)]
    BY <2>1, NextTakes, Zenon
  <2> QED
    BY <1>20, <2>2, Zenon
<1>22. Append(Got(attrs, i), <<rest[1], SubSeq(rest, 4, 3 + m)>>) = Got(attrs, i + 1)
  <2>1. <<rest[1], SubSeq(rest, 4, 3 + m)>> = <<attrs[i + 1][1], attrs[i + 1][2]>>
    BY <1>3, <1>13, <1>18, Zenon
  <2> QED
    BY <2>1, GotMore, Zenon
<1> QED
  BY <1>1, <1>2, <1>17, <1>19, <1>21, <1>22, Zenon DEF Reader

\* A list of length 0 is empty.
LEMMA EmptyList ==
  ASSUME NEW s, IsList(s), Len(s) = 0
  PROVE  s = <<>>
<1>1. PICK S : s \in Seq(S)
  BY DEF IsList
<1> QED
  BY <1>1

\* Every attribute takes three bytes at least.
LEMMA PlacesGrow ==
  ASSUME NEW attrs, NEW size, AreAttrs(attrs, size), NEW e, Places(e, attrs)
  PROVE  e[Len(attrs)] \in Nat /\ 3 * Len(attrs) <= e[Len(attrs)]
<1>1. PICK n \in Nat : n = Len(attrs)
  BY ListFacts DEF AreAttrs
<1> DEFINE S == {i \in Nat : i <= n => e[i] \in Nat /\ 3 * i <= e[i]}
<1>2. \A i \in 1..n : e[i - 1] \in Nat /\ e[i] = e[i - 1] + Len(attrs[i][2]) + 3 /\ Len(attrs[i][2]) \in Nat
  <2>1. \A i \in 1..n : e[i - 1] \in Nat /\ e[i] = e[i - 1] + Len(attrs[i][2]) + 3
    BY <1>1, Zenon DEF Places
  <2>2. \A i \in 1..n : Len(attrs[i][2]) \in Nat
    BY <1>1, ListFacts DEF AreAttrs
  <2> QED
    BY <2>1, <2>2
<1>3. 0 \in S
  <2>1. e[0] = 0
    BY Zenon DEF Places
  <2> QED
    BY <2>1
<1>4. \A i \in Nat : i \in S => i + 1 \in S
  <2> SUFFICES ASSUME NEW i \in Nat, i + 1 <= n, e[i] \in Nat, 3 * i <= e[i]
               PROVE  e[i + 1] \in Nat /\ 3 * (i + 1) <= e[i + 1]
    OBVIOUS
  <2>1. i + 1 \in 1..n /\ (i + 1) - 1 = i
    BY <1>1
  <2>2. PICK m \in Nat : m = Len(attrs[i + 1][2])
    BY <1>2, <2>1
  <2>3. e[i + 1] = e[i] + m + 3
    BY <1>2, <2>1, <2>2, Zenon
  <2> QED
    BY <2>2, <2>3
<1> HIDE DEF S
<1>5. n \in S
  BY <1>3, <1>4, NatInduct
<1> QED
  BY <1>1, <1>5 DEF S

\* A list of attributes is read back as it was written.
LEMMA AttributesBack ==
  ASSUME NEW attrs, NEW size, AreAttrs(attrs, size), Len(attrs) # 0
  PROVE  Attributes(Tlvs(attrs)) = Got(attrs, Len(attrs))
<1>1. PICK n \in Nat \ {0} : n = Len(attrs)
  BY ListFacts DEF AreAttrs
<1>2. PICK all : all = Tlvs(attrs)
  OBVIOUS
<1>3. IsList(all) /\ \E e : Places(e, attrs)
  BY <1>2, TlvCuts
<1>4. PICK e : Places(e, attrs)
  BY <1>3
<1>5. PICK l \in Nat : l = Len(all)
  BY <1>3, ListFacts
<1>6. e[0] = 0 /\ e[n] = l
  BY <1>1, <1>2, <1>4, <1>5, Zenon DEF Places
<1>7. 3 * n <= l
  BY <1>1, <1>4, <1>6, PlacesGrow
<1>8. PICK turns : turns = l \div 3 + 1
  OBVIOUS
<1>9. turns \in Nat /\ n <= turns
  <2>1. PICK q : q = l \div 3
    OBVIOUS
  <2>2. q \in Nat /\ 3 * q <= l /\ l < 3 * q + 3
    BY <2>1, Division
  <2> QED
    BY <1>7, <1>8, <2>1, <2>2
<1> DEFINE At(i) == Reader(attrs, e, IF i < n THEN i ELSE n)
           r == CHOOSE r : r = [i \in 0..turns |->
                                  IF i = 0 THEN [rest |-> all, attrs |-> <<>>] ELSE NextAttribute(r[i - 1])]
<1>10. Attributes(all) = r[turns].attrs
  BY <1>5, <1>8, Zenon DEF Attributes
<1>11. At(0) = [rest |-> all, attrs |-> <<>>]
  <2>1. Got(attrs, 0) = <<>>
    BY GotList, EmptyList
  <2>2. SubSeq(all, 1, l) = all
    BY <1>3, <1>5, WholeList
  <2>3. 0 < n /\ 0 + 1 = 1
    BY <1>1
  <2>4. Reader(attrs, e, 0) = [rest |-> SubSeq(all, 0 + 1, l), attrs |-> <<>>]
    BY <1>2, <1>5, <1>6, <2>1, Zenon DEF Reader
  <2> QED
    BY <2>2, <2>3, <2>4, Zenon
<1>12. ASSUME NEW i \in Nat PROVE NextAttribute(At(i)) = At(i + 1)
  <2>1. CASE i < n
    <3>1. NextAttribute(Reader(attrs, e, i)) = Reader(attrs, e, i + 1)
      BY <1>1, <1>2, <1>3, <1>4, <2>1, ReaderStep
    <3>2. (IF i + 1 < n THEN i + 1 ELSE n) = i + 1
      BY <1>1, <2>1
    <3> QED
      BY <2>1, <3>1, <3>2, Zenon
  <2>2. CASE ~(i < n)
    <3>1. (IF i + 1 < n THEN i + 1 ELSE n) = n
      BY <1>1, <2>2
    <3>2. SubSeq(all, l + 1, l) = <<>>
      BY <1>5, SubSeqEmpty
    <3>3. Reader(attrs, e, n).rest = <<>>
      BY <1>2, <1>5, <1>6, <3>2 DEF Reader
    <3>4. NextAttribute(Reader(attrs, e, n)) = Reader(attrs, e, n)
      BY <3>3, NextStops
    <3> QED
      BY <2>2, <3>1, <3>4, Zenon
  <2> QED
    BY <2>1, <2>2
<1> HIDE DEF At
<1>13. \E g : g = [i \in 0..turns |-> IF i = 0 THEN [rest |-> all, attrs |-> <<>>] ELSE NextAttribute(g[i - 1])]
  <2> DEFINE g == [i \in 0..turns |-> At(i)]
  <2>1. \A i \in 0..turns : At(i) = IF i = 0 THEN [rest |-> all, attrs |-> <<>>] ELSE NextAttribute(g[i - 1])
    <3>1. ASSUME NEW i \in 1..turns PROVE At(i) = NextAttribute(g[i - 1])
      <4>1. i - 1 \in Nat /\ i - 1 \in 0..turns /\ (i - 1) + 1 = i
        BY <1>9
      <4>2. g[i - 1] = At(i - 1)
        BY <4>1
      <4>3. NextAttribute(At(i - 1)) = At((i - 1) + 1)
        BY <1>12, <4>1, Zenon
      <4> QED
        BY <4>1, <4>2, <4>3, Zenon
    <3>2. \A i \in 0..turns : i = 0 \/ i \in 1..turns
      BY <1>9
    <3> HIDE DEF g
    <3> QED
      BY <1>11, <3>1, <3>2
  <2>2. g = [i \in 0..turns |-> IF i = 0 THEN [rest |-> all, attrs |-> <<>>] ELSE NextAttribute(g[i - 1])]
    BY <2>1
  <2> QED
    BY <2>2
<1>14. r = [i \in 0..turns |-> IF i = 0 THEN [rest |-> all, attrs |-> <<>>] ELSE NextAttribute(r[i - 1])]
  BY <1>13, Zenon
<1> HIDE DEF r
<1>15. r[0] = At(0) /\ \A i \in 1..turns : r[i] = NextAttribute(r[i - 1])
  BY <1>9, <1>11, <1>14
<1> DEFINE S == {i \in Nat : i <= turns => r[i] = At(i)}
<1>16. turns \in S
  <2>1. 0 \in S
    BY <1>15
  <2>2. \A i \in Nat : i \in S => i + 1 \in S
    <3> SUFFICES ASSUME NEW i \in Nat, i \in S, i + 1 <= turns PROVE r[i + 1] = At(i + 1)
      OBVIOUS
    <3>1. i + 1 \in 1..turns /\ (i + 1) - 1 = i /\ i <= turns
      BY <1>9
    <3>2. r[i] = At(i)
      BY <3>1
    <3>3. r[i + 1] = NextAttribute(r[(i + 1) - 1])
      BY <1>15, <3>1, Zenon
    <3> QED
      BY <1>12, <3>1, <3>2, <3>3, Zenon
  <2> HIDE DEF S
  <2> QED
    BY <1>9, <2>1, <2>2, NatInduct
<1>17. r[turns] = Reader(attrs, e, n)
  <2>1. (IF turns < n THEN turns ELSE n) = n
    BY <1>1, <1>9
  <2>2. r[turns] = At(turns)
    BY <1>9, <1>16
  <2> QED
    BY <2>1, <2>2, Zenon DEF At
<1>18. Reader(attrs, e, n).attrs = Got(attrs, n)
  BY DEF Reader
<1> QED
  BY <1>1, <1>2, <1>10, <1>17, <1>18, Zenon

\* What the parser asks of a frame with these attributes.
Parses(p, body, attrs, crc) ==
  /\ ~(Len(p) < 11) /\ SubSeq(p, 1, 2) = MagicHead /\ SubSeq(p, Len(p) - 1, Len(p)) = MagicTail
  /\ FromU16(SubSeq(p, 4, 5)) + 9 = Len(p)
  /\ body = SubSeq(p, 6, Len(p) - 4) /\ attrs = Attributes(SubSeq(body, 3, Len(body)))
  /\ ~(Len(attrs) > 0 /\ Last(attrs) = BadAttribute)
  /\ crc = (SubSeq(p, Len(p) - 3, Len(p) - 2) = U16(Crc(body)))

\* Such a frame parses to them.
LEMMA ParseTakes ==
  ASSUME NEW p, NEW body, NEW attrs, NEW crc, Parses(p, body, attrs, crc)
  PROVE  ParseFrame(p) = [attrs |-> attrs, msgId |-> body[2], ok |-> TRUE, crcOk |-> crc]
  BY Zenon DEF ParseFrame, Parses

\* The first and the last two bytes of a frame.
LEMMA PairEnds ==
  ASSUME NEW s, NEW m \in Int, NEW n, n = m + 1
  PROVE  SubSeq(s, m, n) = <<s[m], s[n]>>
<1>1. PICK t : t = SubSeq(s, m, n)
  OBVIOUS
<1>2. /\ IsList(t) /\ Len(t) = IF m <= n THEN n - m + 1 ELSE 0
      /\ \A i \in 1..Len(t) : t[i] = s[m + i - 1]
  BY <1>1, SubList
<1>3. Len(t) = 2 /\ t[1] = s[m] /\ t[2] = s[n]
  BY <1>2
<1>4. PICK S : t \in Seq(S)
  BY <1>2 DEF IsList
<1>5. t = <<t[1], t[2]>>
  BY <1>3, <1>4
<1> QED
  BY <1>1, <1>3, <1>5

\* The last attribute is not what the parser puts for a damaged one.
Ends(attrs) == Len(attrs) # 0 /\ attrs[Len(attrs)][1] # -1

\* A frame that was understood as these attributes, its CRC right.
ParsedAs(frame, attrs, msgId) ==
  frame.ok = TRUE /\ frame.crcOk = TRUE /\ frame.attrs = Got(attrs, Len(attrs)) /\ frame.msgId = msgId

\* A frame is parsed as the attributes it was made of.
LEMMA ParseBack ==
  ASSUME NEW attrs, NEW size, NEW most, NEW msgId, NEW src, Fits(attrs, size, most), Ends(attrs)
  PROVE  ParsedAs(ParseFrame(SerializeFrame(attrs, msgId, src)), attrs, msgId)
<1>0. AreAttrs(attrs, size) /\ Len(attrs) # 0 /\ attrs[Len(attrs)][1] # -1
  BY Zenon DEF Fits, Ends
<1>1. PICK p : p = SerializeFrame(attrs, msgId, src)
  OBVIOUS
<1>2. PICK all : all = Tlvs(attrs)
  OBVIOUS
<1>3. PICK body : body = Body(attrs, msgId, src)
  OBVIOUS
<1>4. /\ Sound(p) /\ IsList(all) /\ Sized(body, 2 + Len(all)) /\ Len(p) = 2 + Len(all) + 9
      /\ \A k \in 1..(2 + Len(all)) : p[5 + k] = body[k]
      /\ <<p[Len(p) - 3], p[Len(p) - 2]>> = U16(Crc(body))
  <2>1. Laid(p, attrs, msgId, src)
    BY <1>1, SerializeSound
  <2> QED
    BY <1>2, <1>3, <2>1, Zenon DEF Laid
<1>5. PICK l \in Nat : l = Len(all)
  BY <1>4, ListFacts
<1>6. Len(p) = l + 11 /\ IsList(body) /\ Len(body) = l + 2
  BY <1>4, <1>5 DEF Sized
<1>7. /\ p[1] = 85 /\ p[2] = 170 /\ 256 * p[4] + p[5] + 9 = Len(p) /\ p[Len(p) - 1] = 170 /\ p[Len(p)] = 85
  BY <1>4, Zenon DEF Sound
<1>8. SubSeq(p, 1, 2) = MagicHead
  <2>1. SubSeq(p, 1, 2) = <<p[1], p[2]>>
    <3>1. 1 \in Int /\ 2 = 1 + 1
      OBVIOUS
    <3> QED
      BY <3>1, PairEnds, Zenon
  <2> QED
    BY <1>7, <2>1 DEF MagicHead
<1>9. SubSeq(p, Len(p) - 1, Len(p)) = MagicTail
  <2>1. Len(p) - 1 \in Int /\ Len(p) = (Len(p) - 1) + 1
    BY <1>6
  <2>2. SubSeq(p, Len(p) - 1, Len(p)) = <<p[Len(p) - 1], p[Len(p)]>>
    BY <2>1, PairEnds, Zenon
  <2> QED
    BY <1>7, <2>2 DEF MagicTail
<1>10. FromU16(SubSeq(p, 4, 5)) + 9 = Len(p)
  <2>1. SubSeq(p, 4, 5) = <<p[4], p[5]>>
    <3>1. 4 \in Int /\ 5 = 4 + 1
      OBVIOUS
    <3> QED
      BY <3>1, PairEnds, Zenon
  <2>2. PICK u : u = SubSeq(p, 4, 5)
    OBVIOUS
  <2>3. u[1] = p[4] /\ u[2] = p[5]
    BY <2>1, <2>2
  <2> QED
    BY <1>7, <2>2, <2>3 DEF FromU16
<1>11. SubSeq(p, 6, Len(p) - 4) = body
  <2>1. PICK m \in Int : m = Len(p) - 4
    BY <1>6
  <2>2. m = l + 7 /\ (IF 6 <= m THEN m - 6 + 1 ELSE 0) = l + 2
    BY <1>6, <2>1
  <2>3. PICK b : b = SubSeq(p, 6, m)
    OBVIOUS
  <2>4. IsList(b) /\ Len(b) = l + 2 /\ \A i \in 1..(l + 2) : b[i] = p[6 + i - 1]
    BY <2>1, <2>2, <2>3, SubList
  <2>5. \A i \in 1..(l + 2) : 6 + i - 1 = 5 + i /\ i \in 1..(2 + l)
    OBVIOUS
  <2>6. \A i \in 1..(l + 2) : b[i] = body[i]
    BY <1>4, <1>5, <2>4, <2>5
  <2>7. b = body
    BY <1>6, <2>4, <2>6, ListExt
  <2> QED
    BY <2>1, <2>3, <2>7
<1>12. SubSeq(body, 3, Len(body)) = all /\ body[2] = msgId
  <2>1. PICK h : h = <<src, msgId>>
    OBVIOUS
  <2>2. Sized(h, 2) /\ Sized(all, l) /\ h[2] = msgId
    BY <1>4, <1>5, <2>1, TupleSized DEF Sized
  <2>3. Joins(body, h, all, 2, l)
    <3>1. 2 \in Nat
      OBVIOUS
    <3> QED
      BY <1>2, <1>3, <2>1, <2>2, <3>1, Zenon DEF Joins, Body
  <2>4. (\A k \in 1..2 : body[k] = h[k]) /\ \A k \in 1..l : body[2 + k] = all[k]
    BY <2>3, Joined, SMT
  <2>5. PICK m \in Int : m = Len(body)
    BY <1>6
  <2>6. (IF 3 <= m THEN m - 3 + 1 ELSE 0) = l
    BY <1>6, <2>5
  <2>7. PICK t : t = SubSeq(body, 3, m)
    OBVIOUS
  <2>8. IsList(t) /\ Len(t) = l /\ \A i \in 1..l : t[i] = body[3 + i - 1]
    BY <2>5, <2>6, <2>7, SubList
  <2>9. \A i \in 1..l : 3 + i - 1 = 2 + i
    OBVIOUS
  <2>10. \A i \in 1..l : t[i] = all[i]
    BY <2>4, <2>8, <2>9
  <2>11. t = all
    BY <1>4, <1>5, <2>8, <2>10, ListExt
  <2>12. 2 \in 1..2
    OBVIOUS
  <2> QED
    BY <2>2, <2>4, <2>5, <2>7, <2>11, <2>12
<1>13. PICK n \in Nat \ {0} : n = Len(attrs)
  BY <1>0, ListFacts DEF AreAttrs
<1>14. PICK got : got = Got(attrs, n)
  OBVIOUS
<1>15. Attributes(SubSeq(body, 3, Len(body))) = got
  BY <1>0, <1>2, <1>12, <1>13, <1>14, AttributesBack
<1>16. IsList(got) /\ Len(got) = n /\ got[n] = <<attrs[n][1], attrs[n][2]>>
  BY <1>14, GotList
<1>17. Last(got) # BadAttribute
  BY <1>0, <1>13, <1>16 DEF Last, BadAttribute
<1>18. ~(Len(p) < 11)
  BY <1>6
<1>19. PICK crc : crc = (SubSeq(p, Len(p) - 3, Len(p) - 2) = U16(Crc(body)))
  OBVIOUS
<1>190. crc = TRUE
  <2>1. Len(p) - 3 \in Int /\ Len(p) - 2 = (Len(p) - 3) + 1
    BY <1>6
  <2>2. SubSeq(p, Len(p) - 3, Len(p) - 2) = <<p[Len(p) - 3], p[Len(p) - 2]>>
    BY <2>1, PairEnds, Zenon
  <2> QED
    BY <1>4, <1>19, <2>2, Zenon
<1>20. ParseFrame(p) = [attrs |-> got, msgId |-> body[2], ok |-> TRUE, crcOk |-> crc]
  <2>1. Parses(p, body, got, crc)
    BY <1>8, <1>9, <1>10, <1>11, <1>15, <1>17, <1>18, <1>19, Zenon DEF Parses
  <2> QED
    BY <2>1, ParseTakes, Zenon
<1>21. /\ ParseFrame(p).ok = TRUE /\ ParseFrame(p).crcOk = TRUE
      /\ ParseFrame(p).attrs = got /\ ParseFrame(p).msgId = body[2]
  BY <1>190, <1>20
<1> QED
  BY <1>1, <1>12, <1>13, <1>14, <1>21, Zenon DEF ParsedAs

(* -- the sensor obeys a command ------------------------------------------ *)

\* The attributes of a sensor, the thresholds due, and the sensor while it obeys
\* a command: k answers so far.
TagsOk(t) == 56 \in DOMAIN t /\ \A x \in DOMAIN t : IsList(t[x]) /\ Len(t[x]) <= 71
\* Thresholds that are due, oldest first.
DueOk(d) == IsList(d) /\ \A i \in 1..Len(d) : IsList(d[i]) /\ Len(d[i]) <= 71
\* A sensor that obeys a command and has k answers at most.
SensorOk(s, k) ==
  /\ DOMAIN s = {"tags", "learn", "due", "out", "status", "frames"}
  /\ TagsOk(s.tags) /\ DueOk(s.due)
  /\ AreAttrs(s.out, 71) /\ AreAttrs(s.status, 71)
  /\ Len(s.out) + Len(s.status) <= k

\* A value that may be written is 28 bytes long at most.
LEMMA SizeFacts ==
  /\ \A t \in DOMAIN WriteSize : WriteSize[t] \in Nat /\ WriteSize[t] <= 28
  /\ WriteSize[98] = 3
  BY DEF WriteSize

\* An attribute may take any value that is not too long.
LEMMA TagSet ==
  ASSUME NEW t, TagsOk(t), NEW x, NEW v, IsList(v), Len(v) <= 71
  PROVE  TagsOk([t EXCEPT ![x] = v])
  BY DEF TagsOk

\* An attribute may take any value of one byte.
LEMMA TagSet1 ==
  ASSUME NEW t, TagsOk(t), NEW x, NEW v
  PROVE  TagsOk([t EXCEPT ![x] = <<v>>])
<1>1. PICK w : w = <<v>>
  OBVIOUS
<1>2. Sized(w, 1)
  BY <1>1, TupleSized
<1>3. IsList(w) /\ Len(w) <= 71
  BY <1>2 DEF Sized
<1> QED
  BY <1>1, <1>3, TagSet

\* One more value that is due.
LEMMA DueAppend ==
  ASSUME NEW d, DueOk(d), NEW v, IsList(v), Len(v) <= 71
  PROVE  DueOk(Append(d, v))
<1>1. PICK e : e = Append(d, v)
  OBVIOUS
<1>2. PICK n \in Nat : n = Len(d)
  BY ListFacts DEF DueOk
<1>3. IsList(e) /\ Len(e) = n + 1 /\ (\A i \in 1..n : e[i] = d[i]) /\ e[n + 1] = v
  BY <1>1, <1>2, AppendList DEF DueOk
<1>4. \A i \in 1..(n + 1) : i \in 1..n \/ i = n + 1
  OBVIOUS
<1>5. \A i \in 1..n : IsList(d[i]) /\ Len(d[i]) <= 71
  BY <1>2 DEF DueOk
<1>6. \A i \in 1..(n + 1) : IsList(e[i]) /\ Len(e[i]) <= 71
  BY <1>3, <1>4, <1>5
<1> QED
  BY <1>1, <1>3, <1>6 DEF DueOk

\* One more attribute.
LEMMA AttrsAppend ==
  ASSUME NEW a, NEW size, AreAttrs(a, size), NEW x, IsList(x[2]), Len(x[2]) <= size
  PROVE  AreAttrs(Append(a, x), size) /\ Len(a) \in Nat /\ Len(Append(a, x)) = Len(a) + 1
<1>1. PICK e : e = Append(a, x)
  OBVIOUS
<1>2. PICK n \in Nat : n = Len(a)
  BY ListFacts DEF AreAttrs
<1>3. IsList(e) /\ Len(e) = n + 1 /\ (\A i \in 1..n : e[i] = a[i]) /\ e[n + 1] = x
  BY <1>1, <1>2, AppendList DEF AreAttrs
<1>4. \A i \in 1..(n + 1) : i \in 1..n \/ i = n + 1
  OBVIOUS
<1>5. \A i \in 1..n : IsList(a[i][2]) /\ Len(a[i][2]) <= size
  BY <1>2 DEF AreAttrs
<1>6. \A i \in 1..(n + 1) : IsList(e[i][2]) /\ Len(e[i][2]) <= size
  BY <1>3, <1>4, <1>5
<1> QED
  BY <1>1, <1>2, <1>3, <1>6 DEF AreAttrs

\* The list of all sample intervals stays nine bytes at most.
LEMMA IntervalList ==
  ASSUME NEW list, NEW value, Sized(value, 3)
  PROVE  IsList(SetInterval(list, value)) /\ Len(SetInterval(list, value)) <= 71
<1>1. PICK ss : ss = [i \in SubSensors |-> IF list[3 * i - 2] = value[1] THEN value ELSE SubSeq(list, 3 * i - 2, 3 * i)]
  OBVIOUS
<1>2. SetInterval(list, value) = FlattenSeq(ss)
  BY <1>1, Zenon DEF SetInterval
<1>3. PICK m \in Nat : m = 3
  OBVIOUS
<1>4. \A i \in 1..m : IsList(ss[i]) /\ Len(ss[i]) <= m
  <2> SUFFICES ASSUME NEW i \in 1..m PROVE IsList(ss[i]) /\ Len(ss[i]) <= m
    OBVIOUS
  <2>1. i \in SubSensors
    BY <1>3 DEF SubSensors
  <2>2. PICK t : t = SubSeq(list, 3 * i - 2, 3 * i)
    OBVIOUS
  <2>3. ss[i] = value \/ ss[i] = t
    BY <1>1, <2>1, <2>2
  <2>4. IsList(t) /\ Len(t) <= m
    <3>1. 3 * i - 2 \in Int /\ 3 * i \in Int
      BY <1>3
    <3>2. IsList(t) /\ Len(t) = IF 3 * i - 2 <= 3 * i THEN 3 * i - (3 * i - 2) + 1 ELSE 0
      BY <2>2, <3>1, SubList
    <3> QED
      BY <1>3, <3>2
  <2>5. IsList(value) /\ Len(value) <= m
    BY <1>3 DEF Sized
  <2> QED
    BY <2>3, <2>4, <2>5, Zenon
<1>5. Len(ss) = m
  <2>1. ss = [i \in 1..m |-> ss[i]]
    BY <1>1, <1>3 DEF SubSensors
  <2> QED
    BY <2>1, MapList
<1>6. IsList(FlattenSeq(ss)) /\ Len(FlattenSeq(ss)) \in Nat /\ Len(FlattenSeq(ss)) <= m * m
  <2>1. m = 0 => ss = <<>>
    BY <1>3
  <2> QED
    BY <1>4, <1>5, <2>1, FlattenLists
<1>7. m * m <= 71
  BY <1>3
<1> QED
  BY <1>2, <1>6, <1>7

\* A write that is not refused leaves the sensor with values that are not too long.
LEMMA WriteOk ==
  ASSUME NEW s, NEW k, SensorOk(s, k), NEW tag, NEW value, IsList(value), ~Refuses(s, tag, value)
  PROVE  SensorOk(Write(s, tag, value), k) /\ Write(s, tag, value).frames = s.frames
<1>1. tag \in DOMAIN WriteSize /\ WriteSize[tag] = Len(value)
  BY DEF Refuses
<1>2. Len(value) \in Nat /\ Len(value) <= 71 /\ (tag = 98 => Len(value) = 3)
  BY <1>1, SizeFacts
<1>3. ASSUME NEW x, TagsOk(x) PROVE SensorOk([s EXCEPT !.tags = x], k) /\ [s EXCEPT !.tags = x].frames = s.frames
  BY <1>3 DEF SensorOk
<1>4. CASE tag = 52 /\ value[1] = SpaceLearning
  <2>1. Write(s, tag, value) = StartLearning(s)
    BY <1>4 DEF Write
  <2>2. CASE s.learn.on
    BY <2>1, <2>2 DEF StartLearning
  <2>3. CASE ~s.learn.on
    <3>1. PICK l : l = [on |-> TRUE, ticks |-> 0, mode |-> s.tags[52][1], start |-> DecodeZoneThresholds(s.tags[51])]
      OBVIOUS
    <3>2. PICK t : t = [s.tags EXCEPT ![52] = <<SpaceLearning>>]
      OBVIOUS
    <3>3. StartLearning(s) = [s EXCEPT !.learn = l, !.tags = t]
      BY <2>3, <3>1, <3>2 DEF StartLearning
    <3>4. TagsOk(t)
      BY <3>2, TagSet1 DEF SensorOk
    <3> QED
      BY <2>1, <3>3, <3>4 DEF SensorOk
  <2> QED
    BY <2>2, <2>3
<1>5. CASE tag = 51
  <2>1. Write(s, tag, value) = [s EXCEPT !.due = Append(s.due, value)]
    BY <1>5 DEF Write
  <2>2. PICK d : d = Append(s.due, value)
    OBVIOUS
  <2>3. DueOk(d)
    BY <1>2, <2>2, DueAppend DEF SensorOk
  <2> QED
    BY <2>1, <2>2, <2>3 DEF SensorOk
<1>6. CASE tag = 98
  <2>1. PICK v : v = SetInterval(s.tags[98], value)
    OBVIOUS
  <2>2. IsList(v) /\ Len(v) <= 71
    <3>1. Sized(value, 3)
      BY <1>2, <1>6 DEF Sized
    <3> QED
      BY <2>1, <3>1, IntervalList
  <2>3. Write(s, tag, value) = [s EXCEPT !.tags = [s.tags EXCEPT ![98] = v]]
    BY <1>6, <2>1 DEF Write
  <2>4. TagsOk([s.tags EXCEPT ![98] = v])
    BY <2>2, TagSet DEF SensorOk
  <2> QED
    BY <1>3, <2>3, <2>4
<1>7. CASE ~(tag = 52 /\ value[1] = SpaceLearning) /\ tag # 51 /\ tag # 98
  <2>1. Write(s, tag, value) = [s EXCEPT !.tags = [s.tags EXCEPT ![tag] = value]]
    BY <1>7 DEF Write
  <2>2. TagsOk([s.tags EXCEPT ![tag] = value])
    BY <1>2, TagSet DEF SensorOk
  <2> QED
    BY <1>3, <2>1, <2>2
<1> QED
  BY <1>4, <1>5, <1>6, <1>7

\* A sensor obeys attribute i of a command.
Obeys(s, attr, refuse) == IF refuse THEN Refusal(s, attr) ELSE Attribute(s, attr)

\* The answer to a read.
Reads(s, a) == [s EXCEPT !.out = Append(s.out, a)]
\* The answer to a write.
Acks(s, v) == [s EXCEPT !.status = Append(s.status, <<3, <<v>>>>)]

\* One more answer to a read.
LEMMA OutOk ==
  ASSUME NEW s, NEW k \in Nat, SensorOk(s, k), NEW a, IsList(a[2]), Len(a[2]) <= 71
  PROVE  SensorOk(Reads(s, a), k + 1) /\ Reads(s, a).frames = s.frames
<1>1. PICK o : o = Append(s.out, a)
  OBVIOUS
<1>2. AreAttrs(o, 71) /\ Len(s.out) \in Nat /\ Len(o) = Len(s.out) + 1
  BY <1>1, AttrsAppend DEF SensorOk
<1>3. Len(s.status) \in Nat
  BY ListFacts DEF SensorOk, AreAttrs
<1>4. Len(o) + Len(s.status) <= k + 1
  BY <1>2, <1>3 DEF SensorOk
<1> QED
  BY <1>1, <1>2, <1>4 DEF SensorOk, Reads

\* One more answer to a write.
LEMMA StatusOk ==
  ASSUME NEW s, NEW k \in Nat, SensorOk(s, k), NEW v
  PROVE  SensorOk(Acks(s, v), k + 1) /\ Acks(s, v).frames = s.frames
<1>1. PICK a : a = <<3, <<v>>>>
  OBVIOUS
<1>2. PICK w : w = <<v>>
  OBVIOUS
<1>3. Sized(w, 1) /\ a[2] = w
  BY <1>1, <1>2, TupleSized
<1>4. IsList(a[2]) /\ Len(a[2]) <= 71
  BY <1>3 DEF Sized
<1>5. PICK o : o = Append(s.status, a)
  OBVIOUS
<1>6. AreAttrs(o, 71) /\ Len(s.status) \in Nat /\ Len(o) = Len(s.status) + 1
  BY <1>4, <1>5, AttrsAppend DEF SensorOk
<1>7. Len(s.out) \in Nat
  BY ListFacts DEF SensorOk, AreAttrs
<1>8. Len(s.out) + Len(o) <= k + 1
  BY <1>6, <1>7 DEF SensorOk
<1> QED
  BY <1>1, <1>5, <1>6, <1>8 DEF SensorOk, Acks

\* One answer more.
LEMMA MoreOk ==
  ASSUME NEW s, NEW k \in Nat, SensorOk(s, k)
  PROVE  SensorOk(s, k + 1)
<1>1. Len(s.out) \in Nat /\ Len(s.status) \in Nat
  BY ListFacts DEF SensorOk, AreAttrs
<1> QED
  BY <1>1 DEF SensorOk

\* A read answers with one attribute.
LEMMA ReadOk ==
  ASSUME NEW s, NEW k \in Nat, SensorOk(s, k), NEW value
  PROVE  SensorOk(Read(s, value), k + 1) /\ Read(s, value).frames = s.frames
<1>1. CASE Len(value) = 1 /\ value[1] \in DOMAIN s.tags
  <2>1. PICK a : a = <<value[1], s.tags[value[1]]>>
    OBVIOUS
  <2>2. IsList(a[2]) /\ Len(a[2]) <= 71
    BY <1>1, <2>1 DEF SensorOk, TagsOk
  <2>3. Read(s, value) = Reads(s, a)
    BY <1>1, <2>1 DEF Read, Answered, Reads
  <2> QED
    BY <2>2, <2>3, OutOk
<1>2. CASE ~(Len(value) = 1 /\ value[1] \in DOMAIN s.tags)
  <2>1. PICK a : a = <<3, <<1>>>>
    OBVIOUS
  <2>2. Sized(<<1>>, 1)
    BY TupleSized
  <2>3. IsList(a[2]) /\ Len(a[2]) <= 71
    BY <2>1, <2>2 DEF Sized
  <2>4. Read(s, value) = Reads(s, a)
    BY <1>2, <2>1 DEF Read, Answered, Reads
  <2> QED
    BY <2>3, <2>4, OutOk
<1> QED
  BY <1>1, <1>2

\* One attribute of a command is answered once at most.
LEMMA ObeysOk ==
  ASSUME NEW s, NEW k \in Nat, SensorOk(s, k), NEW attr, IsList(attr[2]), NEW refuse
  PROVE  SensorOk(Obeys(s, attr, refuse), k + 1) /\ Obeys(s, attr, refuse).frames = s.frames
<1>1. Obeys(s, attr, refuse) \in
        {s, Read(s, attr[2]), Acks(s, 1)}
      \/ /\ ~Refuses(s, attr[1], attr[2])
         /\ Obeys(s, attr, refuse) = Acks(Write(s, attr[1], attr[2]), 0)
  BY DEF Obeys, Refusal, Attribute, Acks
<1>2. CASE Obeys(s, attr, refuse) = s
  BY <1>2, MoreOk
<1>3. CASE Obeys(s, attr, refuse) = Read(s, attr[2])
  BY <1>3, ReadOk
<1>4. CASE Obeys(s, attr, refuse) = Acks(s, 1)
  BY <1>4, StatusOk
<1>5. CASE /\ ~Refuses(s, attr[1], attr[2])
           /\ Obeys(s, attr, refuse) = Acks(Write(s, attr[1], attr[2]), 0)
  <2>1. PICK t : t = Write(s, attr[1], attr[2])
    OBVIOUS
  <2>2. SensorOk(t, k) /\ t.frames = s.frames
    BY <1>5, <2>1, WriteOk
  <2>3. Obeys(s, attr, refuse) = Acks(t, 0)
    BY <1>5, <2>1
  <2> QED
    BY <2>2, <2>3, StatusOk
<1> QED
  BY <1>1, <1>2, <1>3, <1>4, <1>5

\* f[i]: the sensor after i attributes of a command.
Run(f, s, attrs, refuse, n) == f[0] = s /\ \A i \in 1..n : f[i] = Obeys(f[i - 1], attrs[i], refuse)

\* The attributes of a command are obeyed in turn.
LEMMA ObeyExists ==
  ASSUME NEW s, NEW attrs, NEW refuse, NEW n \in Nat
  PROVE  \E f : Run(f, s, attrs, refuse, n)
<1> DEFINE Solves(f, m) == f[0] = s /\ \A i \in 1..m : f[i] = Obeys(f[i - 1], attrs[i], refuse)
           S == {m \in Nat : \E f : Solves(f, m)}
<1>1. Solves([i \in 0..0 |-> s], 0)
  OBVIOUS
<1>2. ASSUME NEW m \in Nat, NEW f, Solves(f, m) PROVE \E g : Solves(g, m + 1)
  <2> DEFINE g == [i \in 0..(m + 1) |-> IF i <= m THEN f[i] ELSE Obeys(f[m], attrs[i], refuse)]
  <2>1. \A i \in 0..m : g[i] = f[i]
    OBVIOUS
  <2>2. g[m + 1] = Obeys(f[m], attrs[m + 1], refuse)
    OBVIOUS
  <2> HIDE DEF g
  <2>3. ASSUME NEW i \in 1..(m + 1) PROVE g[i] = Obeys(g[i - 1], attrs[i], refuse)
    <3>1. CASE i = m + 1
      <4>1. i - 1 = m /\ m \in 0..m
        BY <3>1
      <4> QED
        BY <2>1, <2>2, <3>1, <4>1
    <3>2. CASE i \in 1..m
      <4>1. i - 1 \in 0..m /\ i \in 0..m
        BY <3>2
      <4> QED
        BY <1>2, <2>1, <3>2, <4>1
    <3> QED
      BY <3>1, <3>2
  <2>4. g[0] = s
    BY <1>2, <2>1
  <2> QED
    BY <2>3, <2>4
<1> HIDE DEF Solves
<1>3. 0 \in S
  BY <1>1
<1>4. \A m \in Nat : m \in S => m + 1 \in S
  BY <1>2
<1> HIDE DEF S
<1>5. n \in S
  BY <1>3, <1>4, NatInduct
<1> QED
  BY <1>5 DEF S, Solves, Run

\* Obeying a command is such a run.
LEMMA ObeyedRun ==
  ASSUME NEW s, NEW attrs, NEW refuse, NEW n \in Nat, n = Len(attrs)
  PROVE  \E f : Run(f, s, attrs, refuse, n) /\ Obeyed(s, attrs, refuse) = f[n]
<1>1. \E h : Run(h, s, attrs, refuse, n)
  BY ObeyExists
<1> DEFINE f == CHOOSE f : f = [i \in 0..n |-> IF i = 0 THEN s ELSE IF refuse THEN Refusal(f[i - 1], attrs[i])
                                                                  ELSE Attribute(f[i - 1], attrs[i])]
<1>2. Obeyed(s, attrs, refuse) = f[n]
  BY Zenon DEF Obeyed
<1>3. \E g : g = [i \in 0..n |-> IF i = 0 THEN s ELSE IF refuse THEN Refusal(g[i - 1], attrs[i])
                                                     ELSE Attribute(g[i - 1], attrs[i])]
  <2>1. PICK h : h[0] = s /\ \A i \in 1..n : h[i] = Obeys(h[i - 1], attrs[i], refuse)
    BY <1>1, Zenon DEF Run
  <2> DEFINE g == [i \in 0..n |-> h[i]]
  <2>2. \A i \in 0..n : h[i] = IF i = 0 THEN s ELSE IF refuse THEN Refusal(g[i - 1], attrs[i])
                                                    ELSE Attribute(g[i - 1], attrs[i])
    <3> SUFFICES ASSUME NEW i \in 1..n
                 PROVE  h[i] = IF refuse THEN Refusal(g[i - 1], attrs[i]) ELSE Attribute(g[i - 1], attrs[i])
      BY <2>1
    <3>1. g[i - 1] = h[i - 1]
      OBVIOUS
    <3>2. h[i] = Obeys(h[i - 1], attrs[i], refuse)
      BY <2>1
    <3> HIDE DEF g
    <3> QED
      BY <3>1, <3>2, Zenon DEF Obeys
  <2>3. g = [i \in 0..n |-> IF i = 0 THEN s ELSE IF refuse THEN Refusal(g[i - 1], attrs[i])
                                                ELSE Attribute(g[i - 1], attrs[i])]
    BY <2>2
  <2> QED
    BY <2>3
<1>4. f = [i \in 0..n |-> IF i = 0 THEN s ELSE IF refuse THEN Refusal(f[i - 1], attrs[i])
                                              ELSE Attribute(f[i - 1], attrs[i])]
  BY <1>3, Zenon
<1> HIDE DEF f
<1>5. f[0] = s /\ \A i \in 1..n : f[i] = Obeys(f[i - 1], attrs[i], refuse)
  <2>1. \A i \in 0..n : f[i] = IF i = 0 THEN s ELSE IF refuse THEN Refusal(f[i - 1], attrs[i])
                                                    ELSE Attribute(f[i - 1], attrs[i])
    BY <1>4
  <2>2. 0 \in 0..n /\ \A i \in 1..n : i \in 0..n /\ i # 0
    OBVIOUS
  <2> QED
    BY <2>1, <2>2, Zenon DEF Obeys
<1> QED
  BY <1>2, <1>5 DEF Run

\* A sensor that has obeyed a command has at most one answer for each attribute.
LEMMA ObeyedOk ==
  ASSUME NEW s, SensorOk(s, 0), NEW attrs, NEW refuse, IsList(attrs), \A i \in 1..Len(attrs) : IsList(attrs[i][2])
  PROVE  SensorOk(Obeyed(s, attrs, refuse), Len(attrs)) /\ Obeyed(s, attrs, refuse).frames = s.frames
<1>1. PICK n \in Nat : n = Len(attrs)
  BY ListFacts
<1>2. \E f : Run(f, s, attrs, refuse, n) /\ Obeyed(s, attrs, refuse) = f[n]
  BY <1>1, ObeyedRun
<1>3. PICK f : Run(f, s, attrs, refuse, n) /\ Obeyed(s, attrs, refuse) = f[n]
  BY <1>2, Zenon
<1>4. f[0] = s /\ \A i \in 1..n : f[i] = Obeys(f[i - 1], attrs[i], refuse)
  BY <1>3, Zenon DEF Run
<1> DEFINE S == {i \in Nat : i <= n => SensorOk(f[i], i) /\ f[i].frames = s.frames}
<1> HIDE DEF S
<1>5. 0 \in S
  BY <1>4 DEF S
<1>6. \A i \in Nat : i \in S => i + 1 \in S
  <2> SUFFICES ASSUME NEW i \in Nat, i \in S, i + 1 <= n PROVE SensorOk(f[i + 1], i + 1) /\ f[i + 1].frames = s.frames
    BY DEF S
  <2>1. i + 1 \in 1..n /\ (i + 1) - 1 = i /\ i <= n
    OBVIOUS
  <2>2. SensorOk(f[i], i) /\ f[i].frames = s.frames
    BY <2>1 DEF S
  <2>3. f[i + 1] = Obeys(f[i], attrs[i + 1], refuse)
    BY <1>4, <2>1
  <2>4. IsList(attrs[i + 1][2])
    BY <1>1, <2>1
  <2> QED
    BY <2>2, <2>3, <2>4, ObeysOk
<1>7. n \in S
  BY <1>5, <1>6, NatInduct
<1> QED
  BY <1>1, <1>3, <1>7 DEF S

\* What the program asks: many attributes to read, or one to write.
IsCommand(attrs) ==
  \/ AreAttrs(attrs, 1) /\ Len(attrs) <= 8
  \/ AreAttrs(attrs, 28) /\ Len(attrs) <= 1

\* The frames of commands.
Command(f) == \E attrs, id : IsCommand(attrs) /\ f = BuildCommand(attrs, id)

\* A command with its trailer.
LEMMA TrailerAttr ==
  ASSUME NEW attrs, NEW size \in Nat \ {0}, AreAttrs(attrs, size)
  PROVE  /\ AreAttrs(Append(attrs, Trailer), size)
         /\ Len(attrs) \in Nat /\ Len(Append(attrs, Trailer)) = Len(attrs) + 1
         /\ Append(attrs, Trailer)[Len(attrs) + 1] = Trailer
<1>1. PICK w : w = <<6>>
  OBVIOUS
<1>2. Sized(w, 1) /\ Trailer[2] = w
  BY <1>1, TupleSized DEF Trailer
<1>3. IsList(Trailer[2]) /\ Len(Trailer[2]) <= size
  <2>1. PICK m : m = Len(Trailer[2])
    OBVIOUS
  <2>2. IsList(Trailer[2]) /\ m = 1
    BY <1>2, <2>1, Zenon DEF Sized
  <2>3. m <= size
    BY <2>2
  <2> QED
    BY <2>1, <2>2, <2>3, Zenon
<1>4. IsList(attrs)
  BY DEF AreAttrs
<1> QED
  BY <1>3, <1>4, AttrsAppend, AppendList, Zenon

\* The frame of a command, and what it is parsed as.
LEMMA BuildFacts ==
  ASSUME NEW attrs, NEW id, IsCommand(attrs), NEW f, f = BuildCommand(attrs, id),
         NEW all, all = Append(attrs, Trailer)
  PROVE  /\ Sound(f)
         /\ IsList(all) /\ Len(all) <= 9 /\ \A i \in 1..Len(all) : IsList(all[i][2])
         /\ ParseFrame(f).attrs = Got(all, Len(all))
<1>1. f = SerializeFrame(all, id, TriggerSrc)
  BY Zenon DEF BuildCommand
<1>2. \E size, most : Fits(all, size, most) /\ most <= 9
  <2>1. CASE AreAttrs(attrs, 1) /\ Len(attrs) <= 8
    <3>1. AreAttrs(all, 1) /\ Len(attrs) \in Nat /\ Len(all) = Len(attrs) + 1
      BY <2>1, TrailerAttr
    <3>2. Len(all) <= 9
      BY <2>1, <3>1
    <3>3. (1 + 3) * 9 + 2 <= MaxFrameBody /\ 9 <= 9 /\ 1 \in Nat /\ 9 \in Nat
      BY DEF MaxFrameBody
    <3>4. Fits(all, 1, 9)
      BY <3>1, <3>2, <3>3, Zenon DEF Fits
    <3> QED
      BY <3>3, <3>4, Zenon
  <2>2. CASE AreAttrs(attrs, 28) /\ Len(attrs) <= 1
    <3>1. AreAttrs(all, 28) /\ Len(attrs) \in Nat /\ Len(all) = Len(attrs) + 1
      BY <2>2, TrailerAttr
    <3>2. Len(all) <= 2
      BY <2>2, <3>1
    <3>3. (28 + 3) * 2 + 2 <= MaxFrameBody /\ 2 <= 9 /\ 28 \in Nat /\ 2 \in Nat
      BY DEF MaxFrameBody
    <3>4. Fits(all, 28, 2)
      BY <3>1, <3>2, <3>3, Zenon DEF Fits
    <3> QED
      BY <3>3, <3>4, Zenon
  <2> QED
    BY <2>1, <2>2 DEF IsCommand
<1>3. PICK size, most : Fits(all, size, most) /\ most <= 9
  BY <1>2
<1>4. AreAttrs(all, size) /\ Len(all) <= most /\ most \in Nat
  BY <1>3, Zenon DEF Fits
<1>5. Ends(all)
  <2>1. IsList(attrs)
    BY Zenon DEF IsCommand, AreAttrs
  <2>2. Len(attrs) \in Nat /\ Len(all) = Len(attrs) + 1 /\ all[Len(attrs) + 1] = Trailer
    BY <2>1, AppendList, ListFacts
  <2>3. Len(all) # 0 /\ all[Len(all)] = Trailer
    BY <2>2
  <2>4. Trailer[1] # -1
    BY DEF Trailer
  <2> QED
    BY <2>3, <2>4, Zenon DEF Ends
<1>6. Sound(f)
  <2>1. Laid(f, all, id, TriggerSrc)
    BY <1>1, <1>3, SerializeSound
  <2> QED
    BY <2>1, Zenon DEF Laid
<1>7. ParseFrame(f).attrs = Got(all, Len(all))
  <2>1. ParsedAs(ParseFrame(SerializeFrame(all, id, TriggerSrc)), all, id)
    BY <1>3, <1>5, ParseBack
  <2> QED
    BY <1>1, <2>1, Zenon DEF ParsedAs
<1>8. IsList(all) /\ \A i \in 1..Len(all) : IsList(all[i][2])
  BY <1>4, Zenon DEF AreAttrs
<1>9. Len(all) <= 9
  <2>1. Len(all) \in Nat
    BY <1>8, ListFacts
  <2> QED
    BY <1>3, <1>4, <2>1
<1> QED
  BY <1>6, <1>7, <1>8, <1>9

\* A command is a sound frame, and is parsed as at most nine attributes.
LEMMA CommandFacts ==
  ASSUME NEW f, Command(f)
  PROVE  /\ Sound(f)
         /\ LET attrs == ParseFrame(f).attrs IN
            IsList(attrs) /\ Len(attrs) <= 9 /\ \A i \in 1..Len(attrs) : IsList(attrs[i][2])
<1>1. PICK attrs, id : IsCommand(attrs) /\ f = BuildCommand(attrs, id)
  BY DEF Command
<1>2. PICK all : all = Append(attrs, Trailer)
  OBVIOUS
<1>3. /\ Sound(f)
      /\ IsList(all) /\ Len(all) <= 9 /\ \A i \in 1..Len(all) : IsList(all[i][2])
      /\ ParseFrame(f).attrs = Got(all, Len(all))
  BY <1>1, <1>2, BuildFacts
<1>4. PICK n \in Nat : n = Len(all)
  BY <1>3, ListFacts
<1>5. PICK got : got = Got(all, n)
  OBVIOUS
<1>6. IsList(got) /\ Len(got) = n /\ \A i \in 1..n : got[i] = <<all[i][1], all[i][2]>>
  BY <1>5, GotList
<1>7. \A i \in 1..n : IsList(got[i][2])
  BY <1>3, <1>4, <1>6
<1>8. n <= 9
  BY <1>3, <1>4
<1> QED
  BY <1>3, <1>4, <1>5, <1>6, <1>7, <1>8

\* The attributes of two lists.
LEMMA AttrsCat ==
  ASSUME NEW a, NEW b, NEW size, AreAttrs(a, size), AreAttrs(b, size)
  PROVE  AreAttrs(a \o b, size) /\ Len(a) \in Nat /\ Len(b) \in Nat /\ Len(a \o b) = Len(a) + Len(b)
<1>1. PICK m \in Nat : m = Len(a)
  BY ListFacts DEF AreAttrs
<1>2. PICK n \in Nat : n = Len(b)
  BY ListFacts DEF AreAttrs
<1>3. PICK u : u = a \o b
  OBVIOUS
<1>4. Joins(u, a, b, m, n)
  BY <1>1, <1>2, <1>3, Zenon DEF Joins, Sized, AreAttrs
<1>5. Sized(u, m + n) /\ (\A k \in 1..m : u[k] = a[k]) /\ \A k \in 1..n : u[m + k] = b[k]
  BY <1>4, Joined, SMT
<1>6. IsList(u) /\ Len(u) = m + n
  BY <1>5 DEF Sized
<1>7. \A i \in 1..(m + n) : i \in 1..m \/ \E k \in 1..n : i = m + k
  <2> SUFFICES ASSUME NEW i \in 1..(m + n), i \notin 1..m PROVE i - m \in 1..n /\ i = m + (i - m)
    OBVIOUS
  <2> QED
    BY <1>1, <1>2
<1>8. /\ \A i \in 1..m : IsList(a[i][2]) /\ Len(a[i][2]) <= size
      /\ \A i \in 1..n : IsList(b[i][2]) /\ Len(b[i][2]) <= size
  BY <1>1, <1>2, Zenon DEF AreAttrs
<1>9. \A i \in 1..(m + n) : IsList(u[i][2]) /\ Len(u[i][2]) <= size
  BY <1>5, <1>7, <1>8, Zenon
<1> QED
  BY <1>1, <1>2, <1>3, <1>6, <1>9 DEF AreAttrs

\* An answer has nine attributes at most.
LEMMA ReplyOk ==
  ASSUME NEW s, SensorOk(s, 9)
  PROVE  AreAttrs(Reply(s), 71) /\ Len(Reply(s)) <= 9
<1>1. PICK all : all = s.out \o s.status
  OBVIOUS
<1>2. AreAttrs(all, 71) /\ Len(all) <= 9
  BY <1>1, AttrsCat DEF SensorOk
<1>3. CASE all # <<>>
  BY <1>1, <1>2, <1>3 DEF Reply
<1>4. CASE all = <<>>
  <2>1. PICK w : w = <<0>>
    OBVIOUS
  <2>2. PICK a : a = <<3, w>>
    OBVIOUS
  <2>3. PICK r : r = <<a>>
    OBVIOUS
  <2>4. Reply(s) = r
    BY <1>1, <1>4, <2>1, <2>2, <2>3 DEF Reply
  <2>5. Sized(w, 1) /\ Sized(r, 1)
    BY <2>1, <2>3, TupleSized, Zenon
  <2>6. IsList(w) /\ Len(w) <= 71 /\ a[2] = w
    BY <2>2, <2>5 DEF Sized
  <2>7. r[1] = a
    BY <2>3
  <2>8. IsList(r) /\ Len(r) = 1
    BY <2>5 DEF Sized
  <2>9. \A i \in 1..Len(r) : i = 1
    BY <2>8
  <2>10. AreAttrs(r, 71)
    BY <2>6, <2>7, <2>8, <2>9, Zenon DEF AreAttrs
  <2> QED
    BY <2>4, <2>8, <2>10
<1> QED
  BY <1>3, <1>4

\* Fewer answers than k are fewer than n >= k.
LEMMA MostOk ==
  ASSUME NEW s, NEW k, SensorOk(s, k), NEW n, k <= n, k \in Nat, n \in Nat
  PROVE  SensorOk(s, n)
<1>1. Len(s.out) \in Nat /\ Len(s.status) \in Nat
  BY ListFacts DEF SensorOk, AreAttrs
<1> QED
  BY <1>1 DEF SensorOk

\* Before a command there is no answer.
LEMMA FreshOk ==
  ASSUME NEW s, SensorOk(s, 9)
  PROVE  /\ SensorOk([s EXCEPT !.out = <<>>, !.status = <<>>], 0)
         /\ [s EXCEPT !.out = <<>>, !.status = <<>>].frames = s.frames
<1>1. PICK e : e = <<>>
  OBVIOUS
<1>2. Sized(e, 0)
  BY <1>1, TupleSized
<1>3. IsList(e) /\ Len(e) = 0
  BY <1>2 DEF Sized
<1>4. AreAttrs(e, 71)
  BY <1>3 DEF AreAttrs
<1>5. Len(e) + Len(e) <= 0
  BY <1>3
<1> QED
  BY <1>1, <1>4, <1>5 DEF SensorOk

\* A sensor that has obeyed one command holds values as before, and has answered
\* with one sound frame or not at all.
Served(s) ==
  /\ TagsOk(s.tags) /\ DueOk(s.due)
  /\ s.frames = <<>> \/ \E f : Sound(f) /\ s.frames = <<f>>

\* A command that is understood is answered with one sound frame.
LEMMA ObeyOk ==
  ASSUME NEW s, SensorOk(s, 9), s.frames = <<>>, NEW frame, NEW refuse,
         IsList(frame.attrs), Len(frame.attrs) <= 9, \A i \in 1..Len(frame.attrs) : IsList(frame.attrs[i][2])
  PROVE  Served(Obey(s, frame, refuse))
<1>1. PICK fresh : fresh = [s EXCEPT !.out = <<>>, !.status = <<>>]
  OBVIOUS
<1>2. SensorOk(fresh, 0) /\ fresh.frames = <<>>
  BY <1>1, FreshOk
<1>3. PICK done : done = Obeyed(fresh, frame.attrs, refuse)
  OBVIOUS
<1>4. PICK n \in Nat : n = Len(frame.attrs)
  BY ListFacts
<1>5. SensorOk(done, n) /\ done.frames = <<>>
  BY <1>2, <1>3, <1>4, ObeyedOk
<1>6. SensorOk(done, 9)
  <2>1. n <= 9 /\ 9 \in Nat
    BY <1>4
  <2> QED
    BY <1>4, <1>5, <2>1, MostOk
<1>7. PICK f : f = SerializeFrame(Reply(done), frame.msgId, TriggerSrc)
  OBVIOUS
<1>8. Sound(f)
  <2>1. AreAttrs(Reply(done), 71) /\ Len(Reply(done)) <= 9
    BY <1>6, ReplyOk
  <2>2. (71 + 3) * 9 + 2 <= MaxFrameBody /\ 71 \in Nat /\ 9 \in Nat
    BY DEF MaxFrameBody
  <2>3. Fits(Reply(done), 71, 9)
    BY <2>1, <2>2, Zenon DEF Fits
  <2>4. Laid(f, Reply(done), frame.msgId, TriggerSrc)
    BY <1>7, <2>3, SerializeSound
  <2> QED
    BY <2>4, Zenon DEF Laid
<1>9. PICK t : t = Obey(s, frame, refuse)
  OBVIOUS
<1>10. t = [done EXCEPT !.frames = Append(done.frames, f)]
  BY <1>1, <1>3, <1>7, <1>9, Zenon DEF Obey, BuildFrameRaw
<1>11. Append(done.frames, f) = <<f>>
  BY <1>5
<1>12. t.tags = done.tags /\ t.due = done.due /\ t.frames = <<f>>
  BY <1>6, <1>10, <1>11 DEF SensorOk
<1>13. TagsOk(done.tags) /\ DueOk(done.due)
  BY <1>6, Zenon DEF SensorOk
<1> QED
  BY <1>8, <1>9, <1>12, <1>13, Zenon DEF Served

\* A frame of a command is answered once at most.
LEMMA HandleOk ==
  ASSUME NEW s, SensorOk(s, 9), s.frames = <<>>, NEW raw, Command(raw), NEW refuse
  PROVE  Served(Handle(s, raw, refuse))
<1>1. PICK frame : frame = ParseFrame(raw)
  OBVIOUS
<1>2. IsList(frame.attrs) /\ Len(frame.attrs) <= 9 /\ \A i \in 1..Len(frame.attrs) : IsList(frame.attrs[i][2])
  BY <1>1, CommandFacts
<1>3. Served(s)
  BY Zenon DEF Served, SensorOk
<1>4. Served(Obey(s, frame, refuse))
  BY <1>2, ObeyOk
<1>5. Handle(s, raw, refuse) \in {s, Obey(s, frame, refuse)}
  BY <1>1, Zenon DEF Handle
<1> QED
  BY <1>3, <1>4, <1>5
\* What one chunk completes is nothing or one frame.
LEMMA HandledOne ==
  ASSUME NEW s, NEW raws, NEW refuse, raws = <<>> \/ \E raw : raws = <<raw>>
  PROVE  /\ raws = <<>> => Handled(s, raws, refuse) = s
         /\ raws # <<>> => Handled(s, raws, refuse) = Handle(s, raws[1], refuse)
<1>1. PICK n \in Nat : n = Len(raws) /\ n <= 1 /\ (n = 0 <=> raws = <<>>)
  <2>1. CASE raws = <<>>
    <3>1. Len(raws) = 0
      BY <2>1
    <3> HIDE <2>1
    <3>2. PICK k : k = Len(raws)
      OBVIOUS
    <3>3. k \in Nat /\ k <= 1 /\ k = 0
      BY <3>1, <3>2
    <3> QED
      BY <2>1, <3>2, <3>3, Zenon
  <2>2. CASE \E raw : raws = <<raw>>
    <3>1. PICK raw : raws = <<raw>>
      BY <2>2, Zenon
    <3>2. Len(raws) = 1 /\ raws # <<>>
      BY <3>1
    <3>3. 1 \in Nat /\ 1 <= 1 /\ 1 # 0
      OBVIOUS
    <3> QED
      BY <3>2, <3>3, Zenon
  <2> QED
    BY <2>1, <2>2, Zenon
<1> DEFINE f == CHOOSE f : f = [i \in 0..n |-> IF i = 0 THEN s ELSE Handle(f[i - 1], raws[i], refuse)]
<1>3. Handled(s, raws, refuse) = f[n]
  BY <1>1, Zenon DEF Handled
<1>4. \E g : g = [i \in 0..n |-> IF i = 0 THEN s ELSE Handle(g[i - 1], raws[i], refuse)]
  <2> HIDE DEF f
  <2> DEFINE g == [i \in 0..n |-> IF i = 0 THEN s ELSE Handle(s, raws[i], refuse)]
  <2>1. \A i \in 0..n : (IF i = 0 THEN s ELSE Handle(s, raws[i], refuse))
                        = IF i = 0 THEN s ELSE Handle(g[i - 1], raws[i], refuse)
    <3>1. g[0] = s
      OBVIOUS
    <3>2. \A i \in 0..n : i = 0 \/ i - 1 = 0
      BY <1>1
    <3> HIDE DEF g
    <3> QED
      BY <3>1, <3>2
  <2>2. g = [i \in 0..n |-> IF i = 0 THEN s ELSE Handle(g[i - 1], raws[i], refuse)]
    BY <2>1
  <2> QED
    BY <2>2
<1>5. f = [i \in 0..n |-> IF i = 0 THEN s ELSE Handle(f[i - 1], raws[i], refuse)]
  BY <1>4, Zenon
<1> HIDE DEF f
<1>6. f[0] = s /\ (n = 1 => f[1] = Handle(s, raws[1], refuse))
  <2>1. \A i \in 0..n : f[i] = IF i = 0 THEN s ELSE Handle(f[i - 1], raws[i], refuse)
    BY <1>5
  <2>2. f[0] = s
    BY <2>1
  <2>3. n = 1 => 1 \in 0..n /\ 1 - 1 = 0 /\ 1 # 0
    OBVIOUS
  <2> QED
    BY <2>1, <2>2, <2>3, Zenon
<1>7. CASE n = 0
  BY <1>1, <1>3, <1>6, <1>7, Zenon
<1>8. CASE n = 1
  <2>1. n # 0
    BY <1>8
  <2> QED
    BY <1>1, <1>3, <1>6, <1>8, <2>1, Zenon
<1>9. n = 0 \/ n = 1
  BY <1>1
<1> QED
  BY <1>7, <1>8, <1>9

\* So is what one chunk completes.
LEMMA HandledOk ==
  ASSUME NEW s, SensorOk(s, 9), s.frames = <<>>, NEW raws, NEW refuse,
         raws = <<>> \/ \E raw : Command(raw) /\ raws = <<raw>>
  PROVE  Served(Handled(s, raws, refuse))
<1>1. CASE raws = <<>>
  <2>1. Handled(s, raws, refuse) = s
    BY <1>1, HandledOne
  <2> QED
    BY <2>1 DEF Served, SensorOk
<1>2. CASE raws # <<>>
  <2>1. PICK raw : Command(raw) /\ raws = <<raw>>
    BY <1>2, Zenon
  <2>2. raws[1] = raw
    BY <2>1
  <2>3. Handled(s, raws, refuse) = Handle(s, raw, refuse)
    <3>1. \E r : raws = <<r>>
      BY <2>1
    <3>2. Handled(s, raws, refuse) = Handle(s, raws[1], refuse)
      BY <1>2, <3>1, HandledOne
    <3> QED
      BY <2>2, <3>2, Zenon
  <2> QED
    BY <2>1, <2>3, HandleOk, Zenon
<1> QED
  BY <1>1, <1>2

(* -- what the sensor pushes ---------------------------------------------- *)

\* Sixteen-bit pairs are four bytes each.
LEMMA PairsList ==
  ASSUME NEW pairs, NEW m \in Nat \ {0}, DOMAIN pairs = 1..m
  PROVE  /\ IsList(EncodeU16Pairs(pairs)) /\ Len(EncodeU16Pairs(pairs)) \in Nat
         /\ Len(EncodeU16Pairs(pairs)) <= 4 * m
<1>1. PICK ss : ss = [i \in 1..m |-> U16(pairs[i][1]) \o U16(pairs[i][2])]
  OBVIOUS
<1>2. EncodeU16Pairs(pairs) = FlattenSeq(ss)
  BY <1>1, Zenon DEF EncodeU16Pairs
<1>3. ss = [i \in 1..m |-> ss[i]]
  BY <1>1, Zenon
<1>4. Len(ss) = m
  BY <1>3, MapList
<1>5. PICK size \in Nat : size = 4
  OBVIOUS
<1>6. \A i \in 1..m : IsList(ss[i]) /\ Len(ss[i]) <= size
  <2> SUFFICES ASSUME NEW i \in 1..m PROVE IsList(ss[i]) /\ Len(ss[i]) <= size
    OBVIOUS
  <2>1. ss[i] = U16(pairs[i][1]) \o U16(pairs[i][2])
    BY <1>1, Zenon
  <2>2. Sized(ss[i], 2 + 2)
    BY <2>1, U16Sized, CatSized, Zenon
  <2>3. 2 + 2 = 4
    OBVIOUS
  <2> QED
    BY <1>5, <2>2, <2>3 DEF Sized
<1>7. m = 0 => ss = <<>>
  OBVIOUS
<1>8. IsList(FlattenSeq(ss)) /\ Len(FlattenSeq(ss)) \in Nat /\ Len(FlattenSeq(ss)) <= size * m
  BY <1>4, <1>6, <1>7, FlattenLists
<1> QED
  BY <1>2, <1>5, <1>8

\* The thresholds of seven zones are 28 bytes at most.
LEMMA ThresholdsList ==
  ASSUME NEW pairs, DOMAIN pairs = 1..7
  PROVE  IsList(EncodeZoneThresholds(pairs)) /\ Len(EncodeZoneThresholds(pairs)) <= 28
<1>1. PICK m \in Nat \ {0} : m = 7
  OBVIOUS
<1>2. IsList(EncodeU16Pairs(pairs)) /\ Len(EncodeU16Pairs(pairs)) \in Nat /\ Len(EncodeU16Pairs(pairs)) <= 4 * m
  BY <1>1, PairsList
<1>3. 4 * m <= 28
  BY <1>1
<1> QED
  BY <1>2, <1>3, <1>1 DEF EncodeZoneThresholds

\* What live output shows of one zone is ten bytes.
LEMMA ZoneSized ==
  ASSUME NEW a, NEW b, NEW c, NEW d, NEW e, NEW g
  PROVE  Sized(U16(a) \o U16(b) \o <<c, d>> \o U16(e) \o U16(g), 10)
<1>1. Sized(U16(a) \o U16(b), 2 + 2)
  BY U16Sized, CatSized, Zenon
<1>2. Sized((U16(a) \o U16(b)) \o <<c, d>>, (2 + 2) + 2)
  BY <1>1, TupleSized, CatSized, Zenon
<1>3. Sized((U16(a) \o U16(b) \o <<c, d>>) \o U16(e), ((2 + 2) + 2) + 2)
  BY <1>2, U16Sized, CatSized, Zenon
<1>4. Sized((U16(a) \o U16(b) \o <<c, d>> \o U16(e)) \o U16(g), (((2 + 2) + 2) + 2) + 2)
  BY <1>3, U16Sized, CatSized, Zenon
<1>5. (((2 + 2) + 2) + 2) + 2 = 10
  OBVIOUS
<1> QED
  BY <1>4, <1>5, Zenon

\* Live output is 71 bytes at most, whatever it shows.
LEMMA RadarList ==
  ASSUME NEW k
  PROVE  IsList(RadarValue(k)) /\ Len(RadarValue(k)) <= 71
<1>1. \E mask, ss : /\ RadarValue(k) = <<mask>> \o FlattenSeq(ss)
                    /\ ss = [z \in 1..7 |-> ss[z]]
                    /\ \A z \in 1..7 : Sized(ss[z], 10)
  <2> DEFINE thr == CurrentThresholds(k)
             cur(z) == <<Signal(z)[1] + ((ticks + 1) % 3), Signal(z)[2]>>
             on == Bits(tags[50][1], 7)
             active == [z \in 1..7 |-> on[z] /\ cur(z)[1] >= thr[z][1]]
             flag(b) == IF b THEN 1 ELSE 0
             zone(z) == U16(cur(z)[1]) \o U16(cur(z)[2]) \o <<flag(on[z]), flag(active[z])>>
                        \o U16(I16(thr[z][1])) \o U16(I16(thr[z][2]))
             here(i) == \E z \in 1..7 : active[z] /\ Bits(tags[48][i], 7)[z]
             mask == Mask([i \in SubSensors |-> here(i)])
             ss == [z \in 1..7 |-> zone(z)]
  <2>1. RadarValue(k) = <<mask>> \o FlattenSeq(ss)
    BY Zenon DEF RadarValue
  <2>2. \A z : Sized(zone(z), 10)
    BY ZoneSized, Zenon
  <2> HIDE DEF mask, zone
  <2>3. \A z \in 1..7 : ss[z] = zone(z)
    BY Zenon
  <2>4. ss = [z \in 1..7 |-> ss[z]]
    BY Zenon
  <2> HIDE DEF ss
  <2> QED
    BY <2>1, <2>2, <2>3, <2>4, Zenon
<1>2. PICK mask, ss : /\ RadarValue(k) = <<mask>> \o FlattenSeq(ss)
                      /\ ss = [z \in 1..7 |-> ss[z]]
                      /\ \A z \in 1..7 : Sized(ss[z], 10)
  BY <1>1
<1>3. PICK m \in Nat \ {0} : m = 7
  OBVIOUS
<1>4. PICK size \in Nat : size = 10
  OBVIOUS
<1>5. Len(ss) = m
  <2>1. ss = [z \in 1..m |-> ss[z]]
    BY <1>2, <1>3, Zenon
  <2> QED
    BY <2>1, MapList
<1>6. \A i \in 1..m : IsList(ss[i]) /\ Len(ss[i]) <= size
  <2>1. ASSUME NEW i \in 1..m PROVE IsList(ss[i]) /\ Len(ss[i]) = size
    BY <1>2, <1>3, <1>4, Zenon DEF Sized
  <2> QED
    BY <2>1
<1>7. PICK all : all = FlattenSeq(ss)
  OBVIOUS
<1>8. IsList(all) /\ Len(all) \in Nat /\ Len(all) <= size * m
  <2>1. m = 0 => ss = <<>>
    OBVIOUS
  <2> QED
    BY <1>5, <1>6, <1>7, <2>1, FlattenLists
<1>9. PICK n \in Nat : n = Len(all) /\ n <= 70
  BY <1>3, <1>4, <1>8
<1>10. Sized(<<mask>> \o all, 1 + n)
  <2>1. Sized(all, n)
    BY <1>8, <1>9, Zenon DEF Sized
  <2>2. PICK one : one = <<mask>>
    OBVIOUS
  <2>3. Sized(one, 1)
    BY <2>2, TupleSized, Zenon
  <2>4. Sized(one \o all, 1 + n)
    BY <2>1, <2>3, CatSized, Zenon
  <2> QED
    BY <2>2, <2>4, Zenon
<1>11. Sized(RadarValue(k), 1 + n)
  BY <1>2, <1>7, <1>10, Zenon
<1> QED
  BY <1>9, <1>11 DEF Sized

\* A list of one attribute.
LEMMA OneAttr ==
  ASSUME NEW a, NEW size, IsList(a[2]), Len(a[2]) <= size
  PROVE  AreAttrs(<<a>>, size) /\ Len(<<a>>) = 1
<1>1. PICK r : r = <<a>>
  OBVIOUS
<1>2. Sized(r, 1)
  BY <1>1, TupleSized, Zenon
<1>3. r[1] = a
  BY <1>1
<1>4. IsList(r) /\ Len(r) = 1
  BY <1>2 DEF Sized
<1>5. \A i \in 1..Len(r) : i = 1
  BY <1>4
<1>6. AreAttrs(r, size)
  BY <1>3, <1>4, <1>5, Zenon DEF AreAttrs
<1> QED
  BY <1>1, <1>4, <1>6

\* A pushed attribute leaves a clean direction clean.
LEMMA PushClean ==
  ASSUME NEW w, Clean(w), NEW tag, NEW value, IsList(value), Len(value) <= 71
  PROVE  Clean(Push(w, tag, value))
<1>1. PICK a : a = <<tag, value>>
  OBVIOUS
<1>2. a[2] = value
  BY <1>1
<1>3. AreAttrs(<<a>>, 71) /\ Len(<<a>>) = 1
  BY <1>2, OneAttr
<1>4. PICK attrs : attrs = <<a>>
  OBVIOUS
<1>5. 1 <= 1 /\ (71 + 3) * 1 + 2 <= MaxFrameBody /\ 71 \in Nat /\ 1 \in Nat
  BY DEF MaxFrameBody
<1>6. Fits(attrs, 71, 1)
  BY <1>3, <1>4, <1>5, Zenon DEF Fits
<1>7. PICK f : f = SerializeFrame(attrs, 0, PushTriggerSrc)
  OBVIOUS
<1>8. Laid(f, attrs, 0, PushTriggerSrc)
  BY <1>6, <1>7, SerializeSound
<1>9. Sound(f)
  BY <1>8, Zenon DEF Laid
<1>10. Push(w, tag, value) = Put(w, f)
  BY <1>1, <1>4, <1>7, Zenon DEF Push, BuildFrameRaw
<1> QED
  BY <1>9, <1>10, PutClean

(* -- what the program asks ----------------------------------------------- *)

\* The way to the sensor: nothing but commands.
UpOk(w) == Clean(w) /\ \A i \in 1..Len(w.air) : Command(w.air[i].frame)

\* A command that is sent leaves nothing but commands on the way.
LEMMA UpPut ==
  ASSUME NEW w, UpOk(w), NEW f, Command(f)
  PROVE  UpOk(Put(w, f))
<1>1. Sound(f)
  BY CommandFacts, Zenon
<1>2. Clean(w)
  BY DEF UpOk
<1>3. /\ Clean(Put(w, f))
      /\ \A i \in 1..Len(Put(w, f).air) :
           \/ Put(w, f).air[i].frame = f
           \/ i \in 1..Len(w.air) /\ Put(w, f).air[i].frame = w.air[i].frame
  BY <1>1, <1>2, PutClean
<1> QED
  BY <1>3, Zenon DEF UpOk

\* A chunk that reaches the sensor leaves nothing but commands on the way, and completes one
\* command at most.
LEMMA UpTake ==
  ASSUME NEW w, UpOk(w), Len(w.air) > 0
  PROVE  /\ UpOk(Take(w))
         /\ Heard(w).frames = <<>> \/ \E raw : Command(raw) /\ Heard(w).frames = <<raw>>
<1>1. Clean(w) /\ \A i \in 1..Len(w.air) : Command(w.air[i].frame)
  BY DEF UpOk
<1>2. PICK n \in Nat : n = Len(w.air)
  BY <1>1, ListFacts DEF Clean, IsWay
<1>3. PICK x : x = Take(w)
  OBVIOUS
<1>4. /\ Clean(x) /\ Len(x.air) = n - 1
      /\ \A i \in 1..(n - 1) : x.air[i] = w.air[i + 1]
      /\ Heard(w).frames \in {<<>>, <<w.air[1].frame>>}
  BY <1>1, <1>2, <1>3, TakeClean
<1>5. \A i \in 1..(n - 1) : i + 1 \in 1..n
  BY <1>2
<1>6. \A i \in 1..(n - 1) : Command(x.air[i].frame)
  BY <1>1, <1>2, <1>4, <1>5
<1>7. Command(w.air[1].frame)
  BY <1>1, <1>2
<1>8. UpOk(x)
  BY <1>4, <1>6, Zenon DEF UpOk
<1> QED
  BY <1>3, <1>4, <1>7, <1>8, Zenon

\* A request sends one command.
LEMMA RequestOk ==
  ASSUME UpOk(up), NEW attrs, IsCommand(attrs), Request(attrs)
  PROVE  UpOk(up')
<1>1. Command(BuildCommand(attrs, NextMsgId(app.id)))
  BY Zenon DEF Command
<1>2. up' = Put(up, BuildCommand(attrs, NextMsgId(app.id)))
  BY DEF Request
<1> QED
  BY <1>1, <1>2, UpPut

\* A ping is a command,
LEMMA PingCommand == IsCommand(<<>>)
<1>1. PICK e : e = <<>>
  OBVIOUS
<1>2. Sized(e, 0)
  BY <1>1, TupleSized, Zenon
<1>3. IsList(e) /\ Len(e) = 0
  BY <1>2 DEF Sized
<1>4. AreAttrs(e, 1) /\ Len(e) <= 8
  BY <1>3 DEF AreAttrs
<1> QED
  BY <1>1, <1>4 DEF IsCommand

\* so is one attribute that may be written,
LEMMA OneCommand ==
  ASSUME NEW attr, IsList(attr[2]), Len(attr[2]) <= 28
  PROVE  IsCommand(<<attr>>)
<1>1. PICK r : r = <<attr>>
  OBVIOUS
<1>2. AreAttrs(r, 28) /\ Len(r) = 1
  BY <1>1, OneAttr
<1>3. Len(r) <= 1
  BY <1>2
<1> QED
  BY <1>1, <1>2, <1>3, Zenon DEF IsCommand

\* and so is the read of the configuration.
LEMMA ReadCommand == IsCommand(ReadConfig)
<1>1. PICK r : r = ReadConfig
  OBVIOUS
<1>2. DOMAIN ReadConfigTags = 1..8
  BY DEF ReadConfigTags
<1>3. r = [i \in 1..8 |-> <<2, <<ReadConfigTags[i]>>>>]
  BY <1>1, <1>2, Zenon DEF ReadConfig
<1>4. r = [i \in 1..8 |-> r[i]]
  BY <1>3, Zenon
<1>5. PICK n \in Nat : n = 8
  OBVIOUS
<1>6. IsList(r) /\ Len(r) = n
  BY <1>4, <1>5, MapList
<1>7. ASSUME NEW i \in 1..n PROVE IsList(r[i][2]) /\ Len(r[i][2]) <= 1
  <2>1. PICK v : v = <<ReadConfigTags[i]>>
    OBVIOUS
  <2>2. Sized(v, 1)
    BY <2>1, TupleSized, Zenon
  <2>3. r[i] = <<2, v>>
    BY <1>3, <1>5, <1>7, <2>1, Zenon
  <2>4. r[i][2] = v
    BY <2>3
  <2>5. IsList(v) /\ Len(v) = 1
    BY <2>2, Zenon DEF Sized
  <2>6. Len(v) <= 1
    BY <2>5
  <2> QED
    BY <2>4, <2>5, <2>6, Zenon
<1>8. AreAttrs(r, 1)
  BY <1>6, <1>7 DEF AreAttrs
<1>9. Len(r) <= 8
  BY <1>5, <1>6
<1> QED
  BY <1>1, <1>8, <1>9, Zenon DEF IsCommand

\* A section the sensor lets be written in one command.
Encodable(s, value) == IsList(Encode(s, value)) /\ Len(Encode(s, value)) <= 28

\* A section that validates can be written.
LEMMA SectionEncodable ==
  ASSUME NEW s \in ToSet(Sections), NEW value, ValidSection(s, value),
         s = "zone_thresholds" => DOMAIN value = 1..7,
         s = "subsensor_timing" => IsList(value)
  PROVE  Encodable(s, value)
<1>1. CASE \E b : Encode(s, value) = <<b>>
  <2>1. PICK b, v : v = <<b>> /\ Encode(s, value) = v
    BY <1>1
  <2>2. Sized(v, 1)
    BY <2>1, TupleSized, Zenon
  <2>3. IsList(v) /\ Len(v) <= 28
    BY <2>2 DEF Sized
  <2> QED
    BY <2>1, <2>3, Zenon DEF Encodable
<1>2. CASE s = "zone_thresholds"
  <2>1. Encode(s, value) = EncodeZoneThresholds(value)
    BY <1>2 DEF Encode
  <2>2. DOMAIN value = 1..7
    BY <1>2
  <2>3. IsList(EncodeZoneThresholds(value)) /\ Len(EncodeZoneThresholds(value)) <= 28
    BY <2>2, ThresholdsList
  <2> QED
    BY <2>1, <2>3, Zenon DEF Encodable
<1>3. CASE s = "subsensor_timing"
  <2>1. Encode(s, value) = EncodeU16Pairs(Append(value, <<0, 0>>))
    BY <1>3 DEF Encode, EncodePresenceAbsenceTimes
  <2>2. Len(value) = 3 /\ IsList(value)
    <3>1. ValidSection("subsensor_timing", value)
      BY <1>3
    <3>2. IsU16Pairs(value, 3)
      BY <3>1 DEF ValidSection
    <3>3. Len(value) = 3
      BY <3>2, Zenon DEF IsU16Pairs
    <3>4. IsList(value)
      BY <1>3
    <3> QED
      BY <3>3, <3>4
  <2>3. PICK p : p = Append(value, <<0, 0>>)
    OBVIOUS
  <2>4. IsList(p) /\ Len(p) = Len(value) + 1
    BY <2>2, <2>3, AppendList
  <2>5. PICK m \in Nat \ {0} : m = 4
    OBVIOUS
  <2>6. DOMAIN p = 1..m
    BY <2>2, <2>4, <2>5, ListFacts
  <2>7. IsList(EncodeU16Pairs(p)) /\ Len(EncodeU16Pairs(p)) \in Nat /\ Len(EncodeU16Pairs(p)) <= 4 * m
    BY <2>6, PairsList
  <2>8. 4 * m <= 28
    BY <2>5
  <2>9. Len(EncodeU16Pairs(p)) <= 28
    BY <2>5, <2>7, <2>8
  <2> QED
    BY <2>1, <2>3, <2>7, <2>9, Zenon DEF Encodable
<1>4. CASE s = "subsensor_zones"
  <2>1. PICK v : v = EncodeSegmentMap(value)
    OBVIOUS
  <2>2. v = [i \in 1..4 |-> v[i]]
    BY <2>1 DEF EncodeSegmentMap
  <2>3. PICK m \in Nat : m = 4
    OBVIOUS
  <2>4. IsList(v) /\ Len(v) = m
    BY <2>2, <2>3, MapList
  <2>5. Encode(s, value) = v
    BY <1>4, <2>1 DEF Encode
  <2> QED
    BY <2>3, <2>4, <2>5 DEF Encodable
<1>5. s \in {"sensitivity", "detect_mode", "zone_enable", "subsensor_enable"} => \E b : Encode(s, value) = <<b>>
  BY DEF Encode
<1>6. s \in {"sensitivity", "detect_mode", "zone_enable", "subsensor_enable",
             "zone_thresholds", "subsensor_timing", "subsensor_zones"}
  BY DEF ToSet, Sections
<1> QED
  BY <1>1, <1>2, <1>3, <1>4, <1>5, <1>6

\* Whatever a draft asks for, every section of the target can be written.
LEMMA TargetEncodable ==
  ASSUME NEW changes \in Drafts, NEW current, NEW target, target = Resolve(changes, current), Validate(target)
  PROVE  Written(target) \subseteq ToSet(Sections) /\ \A s \in Written(target) : Encodable(s, target[s])
<1>1. Written(target) \subseteq SectionsPresent(target) /\ SectionsPresent(target) \subseteq ToSet(Sections)
  BY DEF Written, SectionsPresent
<1>2. ASSUME NEW s \in Written(target) PROVE Encodable(s, target[s])
  <2>1. s \in ToSet(Sections) /\ target[s] # None /\ ValidSection(s, target[s])
    BY <1>1 DEF Validate, SectionsPresent
  <2>2. /\ DOMAIN changes = ToSet(Sections)
        /\ changes.subsensor_timing # None => changes.subsensor_timing \in Seq(Int \X Int)
    BY DraftsAssumption
  <2>3. "zone_thresholds" \in ToSet(Sections)
    BY DEF ToSet, Sections
  <2>4. target["subsensor_timing"] = changes["subsensor_timing"]
    BY DEF Resolve
  <2>5. s = "subsensor_timing" => IsList(target[s])
    BY <2>1, <2>2, <2>4 DEF IsList
  <2>6. s = "zone_thresholds" => DOMAIN target[s] = 1..7
    <3> SUFFICES ASSUME s = "zone_thresholds" PROVE DOMAIN target["zone_thresholds"] = 1..7
      OBVIOUS
    <3>1. PICK r : r = ResolveThresholds(changes.zone_thresholds, current.zone_thresholds)
      OBVIOUS
    <3>2. changes.zone_thresholds # None
      BY <2>1 DEF Resolve
    <3>3. target = [changes EXCEPT !.zone_thresholds = r]
      BY <3>1, <3>2, Zenon DEF Resolve
    <3>4. target["zone_thresholds"] = r
      BY <2>2, <2>3, <3>3
    <3>5. DOMAIN r = 1..7
      BY <3>1 DEF ResolveThresholds
    <3> QED
      BY <3>4, <3>5
  <2> QED
    BY <2>1, <2>5, <2>6, SectionEncodable
<1> QED
  BY <1>1, <1>2

(* -- the steps of the sensor and of the link ----------------------------- *)

\* A clean direction may be given its own frames again.
LEMMA CleanSame ==
  ASSUME NEW w, Clean(w), NEW x, DOMAIN x = DOMAIN w, x.air = w.air, x.buf = w.buf, x.owed = w.owed
  PROVE  Clean(x)
<1>1. PICK pos : Ordered(w, pos)
  BY DEF Clean
<1>2. Ordered(x, pos)
  BY <1>1 DEF Ordered
<1> QED
  BY <1>2 DEF Clean, IsWay

\* The answers to one chunk, none or one, keep their direction clean.
LEMMA AnswersClean ==
  ASSUME NEW w, Clean(w), NEW frames, frames = <<>> \/ \E f : Sound(f) /\ frames = <<f>>
  PROVE  Clean([w EXCEPT !.air = @ \o FlattenSeq([i \in DOMAIN frames |-> Chunks(frames[i])])])
<1>1. PICK ss : ss = [i \in DOMAIN frames |-> Chunks(frames[i])]
  OBVIOUS
<1>2. PICK all : all = FlattenSeq(ss)
  OBVIOUS
<1>3. PICK x : x = [w EXCEPT !.air = w.air \o all]
  OBVIOUS
<1>4. [w EXCEPT !.air = @ \o FlattenSeq([i \in DOMAIN frames |-> Chunks(frames[i])])] = x
  BY <1>1, <1>2, <1>3, Zenon
<1>5. IsWay(w)
  BY DEF Clean
<1>6. CASE frames = <<>>
  <2>1. ss = <<>>
    BY <1>1, <1>6
  <2>2. all = <<>>
    BY <1>2, <2>1, Zenon DEF FlattenSeq
  <2>3. PICK air : air = w.air \o all
    OBVIOUS
  <2>4. air = w.air
    <3>1. Sized(all, 0)
      BY <2>2, TupleSized, Zenon
    <3>2. PICK m \in Nat : m = Len(w.air)
      BY <1>5, ListFacts DEF IsWay
    <3>3. Joins(air, w.air, all, m, 0)
      BY <1>5, <2>3, <3>1, <3>2, Zenon DEF Joins, Sized, IsWay
    <3>4. Sized(air, m + 0) /\ \A k \in 1..m : air[k] = w.air[k]
      BY <3>3, Joined, SMT
    <3>5. IsList(air) /\ Len(air) = m
      BY <3>4 DEF Sized
    <3> QED
      BY <1>5, <3>2, <3>4, <3>5, ListExt DEF IsWay
  <2>5. x = [w EXCEPT !.air = air]
    BY <1>3, <2>3, Zenon
  <2>6. DOMAIN x = DOMAIN w /\ x.air = w.air /\ x.buf = w.buf /\ x.owed = w.owed
    BY <1>5, <2>4, <2>5 DEF IsWay
  <2> QED
    BY <1>4, <2>6, CleanSame
<1>7. CASE \E f : Sound(f) /\ frames = <<f>>
  <2>1. PICK f : Sound(f) /\ frames = <<f>>
    BY <1>7, Zenon
  <2>2. DOMAIN frames = 1..1 /\ frames[1] = f
    BY <2>1
  <2>3. PICK one \in Nat \ {0} : one = 1
    OBVIOUS
  <2>4. ss = [i \in 1..one |-> ss[i]] /\ ss[1] = Chunks(f)
    BY <1>1, <2>2, <2>3
  <2>5. Len(ss) = one
    BY <2>4, MapList
  <2>6. PICK g : FlattenSeq(ss) = g[Len(ss)] /\ g[1] = ss[1]
    BY <2>5, FlattenStep
  <2>7. all = Chunks(f)
    BY <1>2, <2>3, <2>4, <2>5, <2>6
  <2>8. x = Put(w, f)
    BY <1>3, <2>7, Zenon DEF Put
  <2> QED
    BY <1>4, <2>1, <2>8, PutClean
<1> QED
  BY <1>6, <1>7

\* What holds of a link that has lost nothing.
LinkOk == UpOk(up) /\ Clean(down) /\ TagsOk(tags) /\ DueOk(due)

\* The sensor as a chunk finds it.
LEMMA StartOk ==
  ASSUME TagsOk(tags), DueOk(due), NEW s,
         s = [tags |-> tags, learn |-> learn, due |-> due, out |-> <<>>, status |-> <<>>, frames |-> <<>>]
  PROVE  SensorOk(s, 9) /\ s.frames = <<>>
<1>1. PICK e : e = <<>>
  OBVIOUS
<1>2. Sized(e, 0)
  BY <1>1, TupleSized
<1>3. IsList(e) /\ Len(e) = 0
  BY <1>2 DEF Sized
<1>4. AreAttrs(e, 71)
  BY <1>3 DEF AreAttrs
<1>5. Len(e) + Len(e) <= 9
  BY <1>3
<1>6. s = [tags |-> tags, learn |-> learn, due |-> due, out |-> e, status |-> e, frames |-> e]
  BY <1>1
<1>7. /\ DOMAIN s = {"tags", "learn", "due", "out", "status", "frames"}
      /\ s.tags = tags /\ s.due = due /\ s.out = e /\ s.status = e /\ s.frames = e
  BY <1>6
<1> QED
  BY <1>1, <1>4, <1>5, <1>7 DEF SensorOk

\* Something is under way.
LEMMA AirLen ==
  ASSUME NEW w, Clean(w), w.air # <<>>
  PROVE  Len(w.air) > 0
  BY DEF Clean, IsWay, IsList

\* What reaches the sensor is a whole command or nothing, and is answered by a whole frame or
\* nothing.
LEMMA DeliverUpOk ==
  ASSUME LinkOk, NEW refuse, DeliverUp(refuse)
  PROVE  LinkOk'
<1> DEFINE raws == Heard(up).frames
           s0 == [tags |-> tags, learn |-> learn, due |-> due, out |-> <<>>, status |-> <<>>, frames |-> <<>>]
           s == Handled(s0, raws, refuse)
<1>1. /\ up.air # <<>> /\ up' = Take(up) /\ tags' = s.tags /\ due' = s.due
      /\ down' = [down EXCEPT !.air = @ \o FlattenSeq([i \in DOMAIN s.frames |-> Chunks(s.frames[i])])]
  BY Zenon DEF DeliverUp
<1>2. UpOk(up) /\ Clean(down) /\ TagsOk(tags) /\ DueOk(due)
  BY DEF LinkOk
<1>3. Len(up.air) > 0
  BY <1>1, <1>2, AirLen DEF UpOk
<1>4. UpOk(Take(up)) /\ (raws = <<>> \/ \E raw : Command(raw) /\ raws = <<raw>>)
  BY <1>2, <1>3, UpTake
<1> HIDE DEF raws
<1>5. PICK start : start = s0
  OBVIOUS
<1>6. SensorOk(start, 9) /\ start.frames = <<>>
  BY <1>2, <1>5, StartOk
<1>7. Served(Handled(start, raws, refuse))
  BY <1>4, <1>6, HandledOk
<1>8. Served(s)
  BY <1>5, <1>7, Zenon
<1> HIDE DEF s
<1>9. TagsOk(s.tags) /\ DueOk(s.due) /\ (s.frames = <<>> \/ \E f : Sound(f) /\ s.frames = <<f>>)
  BY <1>8, Zenon DEF Served
<1>10. Clean([down EXCEPT !.air = @ \o FlattenSeq([i \in DOMAIN s.frames |-> Chunks(s.frames[i])])])
  BY <1>2, <1>9, AnswersClean
<1>11. Clean(down')
  BY <1>1, <1>10, Zenon
<1>12. UpOk(up') /\ TagsOk(tags') /\ DueOk(due')
  BY <1>1, <1>4, <1>9, Zenon
<1> QED
  BY <1>11, <1>12 DEF LinkOk

\* What reaches the program leaves the rest as it is.
LEMMA DeliverDownOk ==
  ASSUME LinkOk, DeliverDown
  PROVE  LinkOk'
<1>1. down.air # <<>> /\ down' = Take(down) /\ UNCHANGED <<up, tags, due>>
  BY DEF DeliverDown
<1>2. Clean(down)
  BY DEF LinkOk
<1>3. Clean(Take(down))
  BY <1>1, <1>2, AirLen, TakeClean
<1> QED
  BY <1>1, <1>3 DEF LinkOk

\* Thresholds that show are not too long.
LEMMA LandOk ==
  ASSUME LinkOk, Land
  PROVE  LinkOk'
<1>1. due # <<>> /\ tags' = [tags EXCEPT ![51] = Head(due)] /\ due' = Tail(due) /\ UNCHANGED <<up, down>>
  BY DEF Land
<1>2. IsList(due) /\ (\A i \in 1..Len(due) : IsList(due[i]) /\ Len(due[i]) <= 71) /\ TagsOk(tags)
  BY DEF LinkOk, DueOk
<1>3. PICK n \in Nat : n = Len(due)
  BY <1>2, ListFacts
<1>4. PICK d : d = Tail(due)
  OBVIOUS
<1>5. IsList(d) /\ Len(d) = n - 1 /\ (\A i \in 1..(n - 1) : d[i] = due[i + 1]) /\ Head(due) = due[1]
  BY <1>1, <1>2, <1>3, <1>4, TailList
<1>6. \A i \in 1..(n - 1) : i + 1 \in 1..n
  BY <1>3
<1>7. \A i \in 1..(n - 1) : IsList(d[i]) /\ Len(d[i]) <= 71
  BY <1>2, <1>3, <1>5, <1>6
<1>8. DueOk(d)
  BY <1>5, <1>7 DEF DueOk
<1>9. 1 \in 1..n
  <2>1. n # 0
    BY <1>1, <1>2, <1>3 DEF IsList
  <2> QED
    BY <2>1
<1>10. IsList(Head(due)) /\ Len(Head(due)) <= 71
  BY <1>2, <1>3, <1>5, <1>9
<1>11. TagsOk(tags')
  BY <1>1, <1>2, <1>10, TagSet
<1> QED
  BY <1>1, <1>4, <1>8, <1>11 DEF LinkOk

(* -- what a preview shows ------------------------------------------------ *)

\* The fields of the operation under way.
Fields == {"pc", "id", "changes", "todo", "written", "before", "after", "rows", "base", "read",
           "polls"}

\* A section as a page shows it.
View(s, value) ==
  IF s = "subsensor_zones" THEN [i \in SubSensors |-> Sorted(ToSet(value[i]))] ELSE value

\* The target that a section's promise is about: thresholds count if they are what they were.
Stands(a, s) == s = "zone_thresholds" => a.base[s] = a.before[s]

\* What a preview has shown: for every section of the target that it resolved, the value it will
\* have, and rows about nothing else.
Promises(a) ==
  /\ DOMAIN a.rows = ToSet(Sections)
  /\ \A s \in ToSet(Sections) :
       /\ s \in Written(Resolve(a.changes, a.before)) => a.after[s] = View(s, Resolve(a.changes, a.before)[s])
       /\ a.rows[s] # {} => s \in Written(Resolve(a.changes, a.before))

\* The apply keeps it: what is to be written is what is shown as "after", and the rows are about
\* nothing else, but for thresholds that moved.
Applies(a) ==
  /\ DOMAIN a.rows = ToSet(Sections)
  /\ a.written \subseteq ToSet(Sections)
  /\ \A s \in ToSet(Sections) : Stands(a, s) =>
       /\ s \in a.written => a.after[s] = View(s, a.changes[s])
       /\ a.rows[s] # {} => s \in a.written

\* What holds of the operation under way: what it has shown is what it does, and what it read back.
Shown(a) ==
  /\ DOMAIN a = Fields
  /\ a.pc \in {"preview", "previewed", "apply"} => a.changes \in Drafts
  /\ a.pc \in {"previewed", "apply"} => Promises(a)
  /\ a.pc \in {"write", "writing", "verify", "verified"} => Applies(a)
  /\ a.pc = "verified" => \A s \in a.written : Stands(a, s) => a.read[s] = a.after[s]

\* A profile is shown section by section.
LEMMA ViewIs ==
  ASSUME NEW p, DOMAIN p = ToSet(Sections), NEW s \in ToSet(Sections)
  PROVE  ProfileView(p)[s] = View(s, p[s])
  BY DEF ProfileView, View

\* The sections, as a set.
LEMMA SectionsAre ==
  ToSet(Sections) = {"sensitivity", "detect_mode", "zone_enable", "zone_thresholds",
              "subsensor_zones", "subsensor_timing", "subsensor_enable"}
  BY DEF ToSet, Sections

\* A section that does not change has no row.
LEMMA NoRows ==
  ASSUME NEW before, NEW after, NEW s \in ToSet(Sections), before[s] = after[s]
  PROVE  DiffRows(before, after)[s] = {}
<1>1. ScalarRows(before[s], after[s]) = {}
  BY DEF ScalarRows
<1>2. \A parts : PairRows(parts, before[s], after[s]) = {}
  BY DEF PairRows
<1>3. ListRows(before[s], after[s]) = {}
  BY DEF ListRows
<1> QED
  BY <1>1, <1>2, <1>3 DEF DiffRows

\* A profile that was read has every section.
LEMMA ProfileFields ==
  ASSUME NEW frame
  PROVE  DOMAIN FromConfig(frame) = ToSet(Sections)
  BY SectionsAre DEF FromConfig

\* What a preview shows of a target: what will be written, as it will be, and no row of anything
\* else.
LEMMA PreviewShows ==
  ASSUME NEW current, NEW target, DOMAIN current = ToSet(Sections)
  PROVE  LET before == ProfileView(current)
             after == ProfileView(Merge(current, target)) IN
         /\ Written(target) \subseteq ToSet(Sections)
         /\ \A s \in Written(target) : after[s] = View(s, target[s])
         /\ \A s \in DOMAIN DiffRows(before, after) : DiffRows(before, after)[s] # {} => s \in Written(target)
<1> DEFINE before == ProfileView(current)
           after == ProfileView(Merge(current, target))
<1>1. Written(target) \subseteq ToSet(Sections)
  BY DEF Written, SectionsPresent
<1>2. DOMAIN Merge(current, target) = ToSet(Sections)
  BY DEF Merge
<1>3. \A s \in ToSet(Sections) : after[s] = View(s, Merge(current, target)[s])
  BY <1>2, ViewIs
<1>4. \A s \in Written(target) : after[s] = View(s, target[s])
  BY <1>1, <1>3 DEF Merge
<1>5. \A s \in ToSet(Sections) : before[s] = View(s, current[s])
  BY ViewIs
<1>6. \A s \in ToSet(Sections) : s \notin Written(target) => before[s] = after[s]
  BY <1>3, <1>5 DEF Merge
<1>7. DOMAIN DiffRows(before, after) = ToSet(Sections)
  BY DEF DiffRows
<1> HIDE DEF before, after
<1>8. \A s \in DOMAIN DiffRows(before, after) : DiffRows(before, after)[s] # {} => s \in Written(target)
  BY <1>6, <1>7, NoRows
<1> QED
  BY <1>1, <1>4, <1>8 DEF before, after

\* Resolving against a profile or against what a page shows of it is the same.
LEMMA ResolveView ==
  ASSUME NEW changes, NEW p, DOMAIN p = ToSet(Sections)
  PROVE  Resolve(changes, ProfileView(p)) = Resolve(changes, p)
<1>1. ProfileView(p).zone_thresholds = p.zone_thresholds
  BY SectionsAre DEF ProfileView
<1> QED
  BY <1>1, Zenon DEF Resolve

\* A section of the target is the same for two profiles, if it is not the thresholds or they agree.
LEMMA ResolveSame ==
  ASSUME NEW changes, DOMAIN changes = ToSet(Sections), NEW p, NEW q, NEW s \in ToSet(Sections),
         s = "zone_thresholds" => p[s] = q[s]
  PROVE  /\ Resolve(changes, p)[s] = Resolve(changes, q)[s]
         /\ s \in Written(Resolve(changes, p)) <=> s \in Written(Resolve(changes, q))
<1>1. Resolve(changes, p)[s] = Resolve(changes, q)[s]
  <2>1. CASE s = "zone_thresholds"
    BY <2>1, Zenon DEF Resolve
  <2>2. CASE s # "zone_thresholds"
    <3>1. \A v : [changes EXCEPT !.zone_thresholds = v][s] = changes[s]
      BY <2>2
    <3>2. \A c : Resolve(changes, c)[s] = changes[s]
      BY <3>1 DEF Resolve
    <3> QED
      BY <3>2
  <2> QED
    BY <2>1, <2>2
<1>2. Resolve(changes, p).detect_mode = Resolve(changes, q).detect_mode
  <2>1. \A v : [changes EXCEPT !.zone_thresholds = v].detect_mode = changes.detect_mode
    BY SectionsAre
  <2> QED
    BY <2>1 DEF Resolve
<1> QED
  BY <1>1, <1>2 DEF Written, SectionsPresent

\* An operation that begins has shown nothing.
LEMMA IdleShown ==
  ASSUME NEW id, NEW pc \in {"idle", "preview", "set"}, NEW changes, NEW polls, pc = "preview" => changes \in Drafts
  PROVE  /\ Shown(Idle)
         /\ Shown([Idle EXCEPT !.id = id])
         /\ Shown([Idle EXCEPT !.pc = pc, !.id = id, !.changes = changes, !.polls = polls])
  BY DEF Shown, Idle, Fields

\* An operation that ends shows nothing any more.
LEMMA EndShown ==
  ASSUME NEW id
  PROVE  Shown([Idle EXCEPT !.id = id])
  BY DEF Shown, Idle, Fields

\* What an operation has shown, and what it is to write.
Same(a, b) ==
  /\ DOMAIN b = Fields
  /\ b.changes = a.changes /\ b.written = a.written
  /\ b.before = a.before /\ b.after = a.after /\ b.rows = a.rows /\ b.base = a.base

\* An operation that goes on keeps to what it has shown.
LEMMA GoesOn ==
  ASSUME NEW a, Shown(a), a.pc \in {"write", "writing", "verify"}, NEW b, Same(a, b),
         b.pc \in {"write", "writing", "verify"}
  PROVE  Shown(b)
  BY DEF Shown, Applies, Stands, Same

\* The preview itself.
LEMMA PreviewedShown ==
  ASSUME NEW frame, Shown(app), app.pc = "preview"
  PROVE  Shown(Previewed(frame))
<1> DEFINE current == FromConfig(frame)
           target == Resolve(app.changes, current)
           before == ProfileView(current)
           after == ProfileView(Merge(current, target))
           next == [app EXCEPT !.pc = "previewed", !.before = before, !.after = after,
                     !.rows = DiffRows(before, after)]
<1>1. /\ Written(target) \subseteq ToSet(Sections)
      /\ \A s \in Written(target) : after[s] = View(s, target[s])
      /\ \A s \in DOMAIN DiffRows(before, after) : DiffRows(before, after)[s] # {} => s \in Written(target)
  BY ProfileFields, PreviewShows
<1>2. Previewed(frame) = IF ~Complete(frame) \/ ~Validate(target) THEN [Idle EXCEPT !.id = app.id] ELSE next
  BY DEF Previewed
<1>3. target = Resolve(app.changes, before)
  BY ProfileFields, ResolveView
<1>4. DOMAIN DiffRows(before, after) = ToSet(Sections)
  BY DEF DiffRows
<1> HIDE DEF current, target, before, after
<1>5. /\ DOMAIN next = Fields /\ next.pc = "previewed" /\ next.changes = app.changes
      /\ next.before = before /\ next.after = after /\ next.rows = DiffRows(before, after)
  BY DEF Shown, Fields
<1>6. app.changes \in Drafts
  BY DEF Shown
<1> HIDE DEF next
<1>7. Promises(next)
  BY <1>1, <1>3, <1>4, <1>5 DEF Promises
<1>8. Shown(next)
  BY <1>5, <1>6, <1>7 DEF Shown
<1> QED
  BY <1>2, <1>8, EndShown

\* The apply's read: what is resolved afresh is what was shown, but for thresholds that moved.
LEMMA AppliedShown ==
  ASSUME NEW frame, Shown(app), app.pc = "apply"
  PROVE  Shown(Applied(frame))
<1> DEFINE current == FromConfig(frame)
           target == Resolve(app.changes, current)
           base == ProfileView(current)
           next == [app EXCEPT !.pc = "write", !.changes = target, !.todo = Written(target),
                     !.written = Written(target), !.base = base]
<1>1. Applied(frame) = IF ~Complete(frame) \/ ~Validate(target) THEN [Idle EXCEPT !.id = app.id] ELSE next
  BY DEF Applied
<1>2. target = Resolve(app.changes, base)
  BY ProfileFields, ResolveView
<1>3. DOMAIN app.changes = ToSet(Sections) /\ Promises(app)
  BY DraftsAssumption DEF Shown
<1>4. Written(target) \subseteq ToSet(Sections)
  BY DEF Written, SectionsPresent
<1> HIDE DEF current, target, base
<1>5. /\ DOMAIN next = Fields /\ next.pc = "write" /\ next.changes = target /\ next.written = Written(target)
      /\ next.before = app.before /\ next.after = app.after /\ next.rows = app.rows /\ next.base = base
  BY DEF Shown, Fields
<1> HIDE DEF next
<1>6. ASSUME NEW s \in ToSet(Sections), Stands(next, s)
      PROVE  /\ s \in next.written => next.after[s] = View(s, next.changes[s])
             /\ next.rows[s] # {} => s \in next.written
  <2>1. s = "zone_thresholds" => base[s] = app.before[s]
    BY <1>5, <1>6 DEF Stands
  <2>2. /\ target[s] = Resolve(app.changes, app.before)[s]
        /\ s \in Written(target) <=> s \in Written(Resolve(app.changes, app.before))
    BY <1>2, <1>3, <1>6, <2>1, ResolveSame
  <2>3. /\ s \in Written(Resolve(app.changes, app.before)) =>
             app.after[s] = View(s, Resolve(app.changes, app.before)[s])
        /\ app.rows[s] # {} => s \in Written(Resolve(app.changes, app.before))
    BY <1>3, <1>6, Zenon DEF Promises
  <2> QED
    BY <1>5, <2>2, <2>3, Zenon
<1>7. Applies(next)
  BY <1>3, <1>4, <1>5, <1>6 DEF Applies, Promises
<1>8. Shown(next)
  BY <1>5, <1>7 DEF Shown
<1> QED
  BY <1>1, <1>8, EndShown

\* After a section was written.
LEMMA AckedShown ==
  ASSUME NEW frame, Shown(app), app.pc = "writing"
  PROVE  Shown(Acked(frame))
<1> DEFINE next == [app EXCEPT !.pc = "write"]
<1>1. Same(app, next) /\ next.pc = "write"
  BY DEF Shown, Fields, Same
<1>2. Acked(frame) = IF FirstErrorStatus(frame) # 0 THEN [Idle EXCEPT !.id = app.id] ELSE next
  BY DEF Acked
<1> HIDE DEF next
<1> QED
  BY <1>1, <1>2, GoesOn, EndShown

\* A read that matches reads what was shown: sections compare as they are shown.
LEMMA ComparedShown ==
  ASSUME NEW frame, Shown(app), app.pc = "verify"
  PROVE  Shown(Compared(frame))
<1> DEFINE read == FromConfig(frame)
           good == [app EXCEPT !.pc = "verified", !.read = ProfileView(read)]
           again == [app EXCEPT !.pc = "write", !.polls = @ - 1]
<1>1. Same(app, good) /\ good.pc = "verified" /\ good.read = ProfileView(read)
  BY DEF Shown, Fields, Same
<1>2. Same(app, again) /\ again.pc = "write"
  BY DEF Shown, Fields, Same
<1>3. /\ \/ Compared(frame) = good /\ DiffSections(app.changes, read, app.written) = {}
         \/ Compared(frame) = again
         \/ Compared(frame) = [Idle EXCEPT !.id = app.id]
  BY DEF Compared
<1>4. DOMAIN read = ToSet(Sections)
  BY ProfileFields
<1> HIDE DEF good, again, read
<1>5. Shown(again)
  BY <1>2, GoesOn
<1>6. ASSUME DiffSections(app.changes, read, app.written) = {} PROVE Shown(good)
  <2>1. Applies(app)
    BY DEF Shown
  <2>2. ASSUME NEW s \in app.written, Stands(app, s) PROVE ProfileView(read)[s] = app.after[s]
    <3>1. s \in ToSet(Sections) /\ app.after[s] = View(s, app.changes[s])
      BY <2>1, <2>2 DEF Applies
    <3>2. Plain(s, app.changes[s]) = Plain(s, read[s])
      BY <1>6 DEF DiffSections
    <3>3. ProfileView(read)[s] = View(s, read[s])
      BY <1>4, <3>1, ViewIs
    <3>4. CASE s = "subsensor_zones"
      <4>1. [i \in SubSensors |-> ToSet(app.changes[s][i])] = [i \in SubSensors |-> ToSet(read[s][i])]
        BY <3>2, <3>4 DEF Plain
      <4>2. \A i \in SubSensors : ToSet(app.changes[s][i]) = ToSet(read[s][i])
        BY <4>1
      <4>3. View(s, read[s]) = View(s, app.changes[s])
        BY <4>2, <3>4 DEF View
      <4> QED
        BY <3>1, <3>3, <4>3
    <3>5. CASE s # "subsensor_zones"
      BY <3>1, <3>2, <3>3, <3>5 DEF Plain, View
    <3> QED
      BY <3>4, <3>5
  <2>3. Applies(good)
    BY <1>1, <2>1 DEF Applies, Stands, Same
  <2>4. \A s \in good.written : Stands(good, s) => good.read[s] = good.after[s]
    BY <1>1, <2>2 DEF Stands, Same
  <2> QED
    BY <1>1, <2>3, <2>4 DEF Shown, Same
<1> QED
  BY <1>3, <1>5, <1>6, EndShown

\* The next request of an operation.
LEMMA AskShown ==
  ASSUME NEW pc \in {"apply", "writing", "verify"}, NEW todo, NEW attrs, Shown(app),
         app.pc = IF pc = "apply" THEN "previewed" ELSE "write", Ask(pc, todo, attrs)
  PROVE  Shown(app')
<1>1. app' = [app EXCEPT !.pc = pc, !.id = NextMsgId(@), !.todo = todo]
  BY DEF Ask
<1>2. Same(app, app') /\ app'.pc = pc
  BY <1>1 DEF Shown, Fields, Same
<1>3. CASE pc = "apply"
  <2>1. app.changes \in Drafts /\ Promises(app)
    BY <1>3 DEF Shown
  <2>2. Promises(app')
    BY <1>2, <2>1 DEF Promises, Same
  <2> QED
    BY <1>2, <1>3, <2>1, <2>2 DEF Shown, Same
<1>4. CASE pc # "apply"
  BY <1>2, <1>4, GoesOn
<1> QED
  BY <1>3, <1>4

\* Every step keeps to what has been shown.
LEMMA ShownStep ==
  ASSUME Shown(app), [Next]_vars
  PROVE  Shown(app')
<1>1. CASE UNCHANGED app
  BY <1>1
<1>2. ASSUME NEW changes \in Drafts, Preview(changes) PROVE Shown(app')
  BY <1>2, IdleShown DEF Preview, Begin
<1>3. CASE Ping
  BY <1>3, IdleShown DEF Ping, Begin
<1>4. ASSUME NEW attr, Set(attr) PROVE Shown(app')
  BY <1>4, IdleShown DEF Set, Begin
<1>5. CASE Apply
  BY <1>5, AskShown DEF Apply
<1>6. CASE WriteSection
  BY <1>6, AskShown DEF WriteSection
<1>7. CASE Verify
  BY <1>7, AskShown DEF Verify
<1>8. CASE app' = [Idle EXCEPT !.id = app.id]
  BY <1>8, EndShown
<1>9. CASE DeliverDown
  <2>1. app' = app \/ \E frame : app' = Answer(frame)
    BY <1>9 DEF DeliverDown
  <2>2. ASSUME NEW frame PROVE Shown(Answer(frame))
    BY PreviewedShown, AppliedShown, AckedShown, ComparedShown, EndShown DEF Answer
  <2> QED
    BY <1>1, <2>1, <2>2
<1> QED
  BY <1>1, <1>2, <1>3, <1>4, <1>5, <1>6, <1>7, <1>8, <1>9 DEF Next, AppNext, vars, TimeOut, Done, LoseUp, LoseDown,
     LinkLost, Interrupted, Accept, DeliverUp, Land, LearnTick, LiveTick

\* An operation keeps to what it has shown, whatever was lost on the link or refused by the sensor.
THEOREM ShownAlways == Spec => []Shown(app)
<1>1. Init => Shown(app)
  BY IdleShown DEF Init
<1>2. Shown(app) /\ [Next]_vars => Shown(app)'
  BY ShownStep
<1> QED
  BY <1>1, <1>2, PTL DEF Spec

\* What a verified apply reads back is what its preview showed as "after", whatever chunks were
\* lost, writes refused and links ended; but for thresholds that moved between the preview's and the
\* apply's read (fleet.py:850, fleet.py:913, gui/apply.py:169).
THEOREM VerifiedIsAfterAlways == Spec => []VerifiedIsAfter
<1>1. ASSUME Shown(app), app.pc = "verified" PROVE VerifiedIsAfter
  <2>1. Applies(app) /\ \A s \in app.written : Stands(app, s) => app.read[s] = app.after[s]
    BY <1>1 DEF Shown
  <2>2. \A s : ~Moved(s) => Stands(app, s)
    BY DEF Moved, Stands
  <2> QED
    BY <2>1, <2>2 DEF Applies, VerifiedIsAfter
<1>2. app.pc # "verified" => VerifiedIsAfter
  BY DEF VerifiedIsAfter
<1>3. Shown(app) => VerifiedIsAfter
  BY <1>1, <1>2
<1> QED
  BY <1>3, ShownAlways, PTL

\* A learning sensor pushes whole frames.
LEMMA LearnTickOk ==
  ASSUME LinkOk, LearnTick
  PROVE  LinkOk'
<1>1. UpOk(up) /\ Clean(down) /\ TagsOk(tags) /\ DueOk(due)
  BY DEF LinkOk
<1> DEFINE k == learn.ticks + 1
           first == Push(down, 55, RadarValue(k))
           shown == Push(first, 56, tags[56])
<1>2. Clean(first)
  BY <1>1, RadarList, PushClean
<1>3. IsList(tags[56]) /\ Len(tags[56]) <= 71
  BY <1>1 DEF TagsOk
<1> HIDE DEF first
<1>4. Clean(shown)
  BY <1>2, <1>3, PushClean
<1>5. Clean(Push(shown, 62, <<1>>))
  <2>1. PICK v : v = <<1>>
    OBVIOUS
  <2>2. Sized(v, 1)
    BY <2>1, TupleSized, Zenon
  <2>3. IsList(v) /\ Len(v) = 1
    BY <2>2, Zenon DEF Sized
  <2>4. Len(v) <= 71
    BY <2>3
  <2> HIDE DEF shown
  <2> QED
    BY <1>4, <2>1, <2>3, <2>4, PushClean
<1>6. TagsOk([tags EXCEPT ![51] = EncodeZoneThresholds(Learned), ![61] = <<4>>, ![52] = <<learn.mode>>])
  <2>1. PICK v : v = EncodeZoneThresholds(Learned)
    OBVIOUS
  <2>2. DOMAIN Learned = 1..7
    BY LearnedAssumption
  <2>3. IsList(v) /\ Len(v) <= 28
    BY <2>1, <2>2, ThresholdsList
  <2>4. IsList(v) /\ Len(v) <= 71
    BY <2>3, ListFacts
  <2>5. PICK t : t = [tags EXCEPT ![51] = v]
    OBVIOUS
  <2>6. TagsOk(t)
    BY <1>1, <2>4, <2>5, TagSet
  <2>7. PICK u : u = [t EXCEPT ![61] = <<4>>]
    OBVIOUS
  <2>8. TagsOk(u)
    BY <2>6, <2>7, TagSet1
  <2>9. TagsOk([u EXCEPT ![52] = <<learn.mode>>])
    BY <2>8, TagSet1
  <2> QED
    BY <2>1, <2>5, <2>7, <2>9, Zenon
<1>7. UNCHANGED <<up, due>>
  BY Zenon DEF LearnTick
<1>8. \/ down' = shown /\ UNCHANGED tags
      \/ /\ tags' = [tags EXCEPT ![51] = EncodeZoneThresholds(Learned), ![61] = <<4>>, ![52] = <<learn.mode>>]
         /\ down' = Push(shown, 62, <<1>>)
  BY Zenon DEF LearnTick, first
<1> HIDE DEF shown
<1>9. Clean(down') /\ TagsOk(tags')
  BY <1>1, <1>4, <1>5, <1>6, <1>8, Zenon
<1> QED
  BY <1>1, <1>7, <1>9, Zenon DEF LinkOk

\* So does live output.
LEMMA LiveTickOk ==
  ASSUME LinkOk, LiveTick
  PROVE  LinkOk'
<1>1. down' = Push(down, 55, RadarValue(0)) /\ UNCHANGED <<up, tags, due>>
  BY Zenon DEF LiveTick
<1>2. UpOk(up) /\ Clean(down) /\ TagsOk(tags) /\ DueOk(due)
  BY DEF LinkOk
<1>3. Clean(down')
  BY <1>1, <1>2, RadarList, PushClean
<1> QED
  BY <1>1, <1>2, <1>3, Zenon DEF LinkOk

\* A new link has no command on the way.
LEMMA QuietUp == UpOk(Quiet)
<1>1. Quiet.air = <<>>
  BY DEF Quiet
<1>2. Len(<<>>) = 0
  OBVIOUS
<1>3. \A i \in 1..Len(Quiet.air) : Command(Quiet.air[i].frame)
  BY <1>1, <1>2
<1> QED
  BY <1>3, QuietClean, Zenon DEF UpOk

\* After a link was lost nothing is under way.
LEMMA LinkLostOk ==
  ASSUME LinkOk, LinkLost
  PROVE  LinkOk'
<1>1. /\ tags' = [tags EXCEPT ![54] = <<0>>, ![52] = IF learn.on THEN <<learn.mode>> ELSE @]
      /\ up' = Quiet /\ down' = Quiet /\ UNCHANGED due
  BY DEF LinkLost
<1>2. TagsOk(tags) /\ DueOk(due)
  BY DEF LinkOk
<1>3. PICK t : t = [tags EXCEPT ![54] = <<0>>]
  OBVIOUS
<1>4. TagsOk(t)
  BY <1>2, <1>3, TagSet1
<1>5. PICK m : m = learn.mode
  OBVIOUS
<1>6. TagsOk([t EXCEPT ![52] = <<m>>])
  BY <1>4, TagSet1
<1>7. tags' = t \/ tags' = [t EXCEPT ![52] = <<m>>]
  <2>1. CASE learn.on
    BY <1>1, <1>3, <1>5, <2>1, Zenon
  <2>2. CASE ~learn.on
    <3>1. tags' = [tags EXCEPT ![54] = <<0>>, ![52] = @]
      BY <1>1, <2>2, Zenon
    <3>2. tags' = [t EXCEPT ![52] = t[52]]
      BY <1>3, <3>1
    <3>3. [t EXCEPT ![52] = t[52]] = t
      BY <1>3
    <3> QED
      BY <3>2, <3>3
  <2> QED
    BY <2>1, <2>2
<1>8. TagsOk(tags')
  BY <1>4, <1>6, <1>7
<1> QED
  BY <1>1, <1>2, <1>8, QuietClean, QuietUp DEF LinkOk

(* -- the program, and what holds of the link ----------------------------- *)

\* What is left to write can be written.
AppOk(a) == a.pc \in {"write", "writing", "verify"} => \A s \in a.todo : Encodable(s, a.changes[s])

\* An operation that begins has nothing to write.
LEMMA IdleOk ==
  ASSUME NEW id, NEW pc \in {"idle", "preview", "set"}, NEW changes, NEW polls
  PROVE  /\ AppOk(Idle)
         /\ AppOk([Idle EXCEPT !.id = id])
         /\ AppOk([Idle EXCEPT !.pc = pc, !.id = id, !.changes = changes, !.polls = polls])
<1>1. PICK r : r = [Idle EXCEPT !.pc = pc, !.id = id, !.changes = changes, !.polls = polls]
  OBVIOUS
<1>2. r.pc = pc /\ r.changes = changes
  BY <1>1 DEF Idle
<1>3. PICK q : q = [Idle EXCEPT !.id = id]
  OBVIOUS
<1>4. q.pc = "idle" /\ Idle.pc = "idle"
  BY <1>3 DEF Idle
<1>5. AppOk(r)
  BY <1>2 DEF AppOk
<1>6. AppOk(q) /\ AppOk(Idle)
  BY <1>4 DEF AppOk
<1> QED
  BY <1>1, <1>3, <1>5, <1>6

\* An operation that ends has nothing left to write.
LEMMA IdAgain ==
  ASSUME NEW id
  PROVE  AppOk([Idle EXCEPT !.id = id])
<1>1. PICK q : q = [Idle EXCEPT !.id = id]
  OBVIOUS
<1>2. q.pc = "idle"
  BY <1>1 DEF Idle
<1> QED
  BY <1>1, <1>2 DEF AppOk

\* A preview writes nothing.
LEMMA PreviewedOk ==
  ASSUME NEW frame, Shown(app)
  PROVE  AppOk(Previewed(frame))
<1> DEFINE current == FromConfig(frame)
           before == ProfileView(current)
           after == ProfileView(Merge(current, Resolve(app.changes, current)))
           next == [app EXCEPT !.pc = "previewed", !.before = before, !.after = after,
                     !.rows = DiffRows(before, after)]
<1>1. Previewed(frame) \in {next, [Idle EXCEPT !.id = app.id]}
  BY DEF Previewed
<1> HIDE DEF current, before, after
<1>2. next.pc = "previewed"
  BY DEF Shown, Fields
<1> HIDE DEF next
<1>3. AppOk(next)
  BY <1>2 DEF AppOk
<1> QED
  BY <1>1, <1>3, IdAgain

\* What an apply is to write can be written.
LEMMA AppliedOk ==
  ASSUME NEW frame, Shown(app), app.pc = "apply"
  PROVE  AppOk(Applied(frame))
<1> DEFINE current == FromConfig(frame)
           target == Resolve(app.changes, current)
           next == [app EXCEPT !.pc = "write", !.changes = target, !.todo = Written(target),
                     !.written = Written(target), !.base = ProfileView(current)]
<1>1. Applied(frame) = IF ~Complete(frame) \/ ~Validate(target) THEN [Idle EXCEPT !.id = app.id] ELSE next
  BY DEF Applied
<1>2. app.changes \in Drafts
  BY DEF Shown
<1>3. Validate(target) => \A s \in Written(target) : Encodable(s, target[s])
  BY <1>2, TargetEncodable
<1> HIDE DEF current, target
<1>4. next.pc = "write" /\ next.changes = target /\ next.todo = Written(target)
  BY DEF Shown, Fields
<1> HIDE DEF next
<1>5. Validate(target) => AppOk(next)
  BY <1>3, <1>4 DEF AppOk
<1> QED
  BY <1>1, <1>5, IdAgain

\* After a section was written,
LEMMA AckedOk ==
  ASSUME NEW frame, Shown(app), AppOk(app), app.pc = "writing"
  PROVE  AppOk(Acked(frame))
<1> DEFINE next == [app EXCEPT !.pc = "write"]
<1>1. next.pc = "write" /\ next.changes = app.changes /\ next.todo = app.todo
  BY DEF Shown, Fields
<1>2. Acked(frame) = IF FirstErrorStatus(frame) # 0 THEN [Idle EXCEPT !.id = app.id] ELSE next
  BY DEF Acked
<1> HIDE DEF next
<1>3. AppOk(next)
  BY <1>1 DEF AppOk
<1> QED
  BY <1>2, <1>3, IdAgain

\* and after the read that verifies them.
LEMMA ComparedOk ==
  ASSUME NEW frame, Shown(app), AppOk(app), app.pc = "verify"
  PROVE  AppOk(Compared(frame))
<1> DEFINE read == FromConfig(frame)
           good == [app EXCEPT !.pc = "verified", !.read = ProfileView(read)]
           again == [app EXCEPT !.pc = "write", !.polls = @ - 1]
<1>1. good.pc = "verified"
  BY DEF Shown, Fields
<1>2. again.pc = "write" /\ again.changes = app.changes /\ again.todo = app.todo
  BY DEF Shown, Fields
<1>3. Compared(frame) \in {good, again, [Idle EXCEPT !.id = app.id]}
  BY DEF Compared
<1> HIDE DEF good, again
<1>4. AppOk(good)
  BY <1>1 DEF AppOk
<1>5. AppOk(again)
  BY <1>2 DEF AppOk
<1> QED
  BY <1>3, <1>4, <1>5, IdAgain

\* Every step leaves only sections to write that can be written.
LEMMA AppStep ==
  ASSUME Shown(app), AppOk(app), [Next]_vars
  PROVE  AppOk(app')
<1>1. CASE UNCHANGED app
  BY <1>1
<1>2. ASSUME NEW changes, Preview(changes) PROVE AppOk(app')
  BY <1>2, IdleOk DEF Preview, Begin
<1>3. CASE Ping
  BY <1>3, IdleOk DEF Ping, Begin
<1>4. ASSUME NEW attr, Set(attr) PROVE AppOk(app')
  BY <1>4, IdleOk DEF Set, Begin
<1>5. ASSUME NEW pc \in {"writing", "verify"}, NEW todo, NEW attrs, app.pc = "write", todo \subseteq app.todo,
             Ask(pc, todo, attrs)
      PROVE  AppOk(app')
  <2>1. app' = [app EXCEPT !.pc = pc, !.id = NextMsgId(@), !.todo = todo]
    BY <1>5 DEF Ask
  <2>2. app'.pc = pc /\ app'.changes = app.changes /\ app'.todo = todo
    BY <2>1 DEF Shown, Fields
  <2>3. \A s \in app.todo : Encodable(s, app.changes[s])
    BY <1>5 DEF AppOk
  <2> QED
    BY <1>5, <2>2, <2>3 DEF AppOk
<1>6. CASE WriteSection
  <2>1. PICK s, attrs : Ask("writing", app.todo \ {s}, attrs) /\ app.pc = "write"
    BY <1>6, Zenon DEF WriteSection
  <2> QED
    BY <1>5, <2>1
<1>7. CASE Verify
  <2>1. Ask("verify", {}, ReadConfig) /\ app.pc = "write"
    BY <1>7, Zenon DEF Verify
  <2> QED
    BY <1>5, <2>1
<1>8. CASE Apply
  <2>1. Ask("apply", {}, ReadConfig) /\ app.pc = "previewed"
    BY <1>8, Zenon DEF Apply
  <2>2. app' = [app EXCEPT !.pc = "apply", !.id = NextMsgId(@), !.todo = {}]
    BY <2>1 DEF Ask
  <2>3. app'.pc = "apply"
    BY <2>2 DEF Shown, Fields
  <2> QED
    BY <2>3 DEF AppOk
<1>9. CASE app' = [Idle EXCEPT !.id = app.id]
  BY <1>9, IdAgain
<1>10. CASE DeliverDown
  <2>1. app' = app \/ \E frame : app' = Answer(frame)
    BY <1>10, Zenon DEF DeliverDown
  <2>2. ASSUME NEW frame PROVE AppOk(Answer(frame))
    BY PreviewedOk, AppliedOk, AckedOk, ComparedOk, IdAgain DEF Answer
  <2> QED
    BY <1>1, <2>1, <2>2
<1> QED
  BY <1>1, <1>2, <1>3, <1>4, <1>6, <1>7, <1>8, <1>9, <1>10 DEF Next, AppNext, vars, TimeOut, Done, LoseUp, LoseDown,
     LinkLost, Interrupted, Accept, DeliverUp, Land, LearnTick, LiveTick

\* A request of the program is a command, and changes nothing else of the link.
LEMMA AskedOk ==
  ASSUME LinkOk, NEW attrs, IsCommand(attrs), Request(attrs), UNCHANGED <<tags, due, down>>
  PROVE  LinkOk'
<1>1. UpOk(up) /\ Clean(down) /\ TagsOk(tags) /\ DueOk(due)
  BY DEF LinkOk
<1>2. UpOk(up')
  BY <1>1, RequestOk
<1> QED
  BY <1>1, <1>2 DEF LinkOk

\* Every request of the program is one command.
LEMMA AppNextOk ==
  ASSUME LinkOk, AppOk(app), AppNext
  PROVE  LinkOk'
<1>1. ASSUME NEW pc, NEW changes, NEW attrs, IsCommand(attrs), Begin(pc, changes, attrs) PROVE LinkOk'
  <2>1. Request(attrs) /\ UNCHANGED <<tags, due, down>>
    BY <1>1, Zenon DEF Begin
  <2> QED
    BY <1>1, <2>1, AskedOk
<1>2. ASSUME NEW pc, NEW todo, NEW attrs, IsCommand(attrs), Ask(pc, todo, attrs) PROVE LinkOk'
  <2>1. Request(attrs) /\ UNCHANGED <<tags, due, down>>
    BY <1>2, Zenon DEF Ask
  <2> QED
    BY <1>2, <2>1, AskedOk
<1>3. ASSUME NEW changes, Preview(changes) PROVE LinkOk'
  <2>1. Begin("preview", changes, ReadConfig)
    BY <1>3, Zenon DEF Preview
  <2> QED
    BY <1>1, <2>1, ReadCommand
<1>4. CASE Ping
  <2>1. Begin("set", None, <<>>)
    BY <1>4, Zenon DEF Ping
  <2> QED
    BY <1>1, <2>1, PingCommand
<1>5. ASSUME NEW attr \in Settings, Set(attr) PROVE LinkOk'
  <2>1. Begin("set", None, <<attr>>)
    BY <1>5, Zenon DEF Set
  <2>2. IsList(attr[2]) /\ Len(attr[2]) <= 28
    <3>1. attr \in (0..255) \X Seq(0..255) /\ Len(attr[2]) <= 28
      BY SettingsAssumption
    <3> QED
      BY <3>1 DEF IsList
  <2>3. IsCommand(<<attr>>)
    BY <2>2, OneCommand
  <2> QED
    BY <1>1, <2>1, <2>3
<1>6. CASE WriteSection
  <2>1. PICK s \in app.todo : /\ app.pc = "write"
                              /\ Ask("writing", app.todo \ {s}, <<<<TagOf[s], Encode(s, app.changes[s])>>>>)
    BY <1>6, Zenon DEF WriteSection
  <2>2. PICK v : v = Encode(s, app.changes[s])
    OBVIOUS
  <2>3. IsList(v) /\ Len(v) <= 28
    BY <2>1, <2>2 DEF AppOk, Encodable
  <2>4. PICK attr : attr = <<TagOf[s], v>>
    OBVIOUS
  <2>5. attr[2] = v
    BY <2>4
  <2>6. IsCommand(<<attr>>)
    BY <2>3, <2>5, OneCommand
  <2>7. Ask("writing", app.todo \ {s}, <<attr>>)
    BY <2>1, <2>2, <2>4, Zenon
  <2> QED
    BY <1>2, <2>6, <2>7
<1>7. CASE Verify
  <2>1. Ask("verify", {}, ReadConfig)
    BY <1>7, Zenon DEF Verify
  <2> QED
    BY <1>2, <2>1, ReadCommand
<1>8. CASE Apply
  <2>1. Ask("apply", {}, ReadConfig)
    BY <1>8, Zenon DEF Apply
  <2> QED
    BY <1>2, <2>1, ReadCommand
<1>9. CASE TimeOut \/ Done
  <2>1. UNCHANGED <<up, down, tags, due>>
    BY <1>9, Zenon DEF TimeOut, Done
  <2> QED
    BY <2>1 DEF LinkOk
<1> QED
  BY <1>3, <1>4, <1>5, <1>6, <1>7, <1>8, <1>9, Zenon DEF AppNext

\* What is so in every state: what is shown of the operation under way, and,
\* while nothing has been lost, whole frames in their order in both directions.
Flows ==
  /\ Shown(app) /\ AppOk(app)
  /\ DOMAIN left = {"ops", "faults", "lost"}
  /\ ~left.lost => LinkOk

\* Nothing is lost but by a step that loses a chunk.
LEMMA LeftStep ==
  ASSUME DOMAIN left = {"ops", "faults", "lost"}, [Next]_vars
  PROVE  /\ DOMAIN left' = {"ops", "faults", "lost"}
         /\ ~left'.lost => ~left.lost /\ ~LoseUp /\ ~LoseDown
<1>1. CASE UNCHANGED left /\ ~LoseUp /\ ~LoseDown
  BY <1>1
<1>2. ASSUME NEW f, left' = [left EXCEPT !.faults = f, !.lost = TRUE]
      PROVE  DOMAIN left' = {"ops", "faults", "lost"} /\ left'.lost
  BY <1>2
<1>3. ASSUME NEW f, left' = [left EXCEPT !.faults = f] \/ left' = [left EXCEPT !.ops = f]
      PROVE  DOMAIN left' = {"ops", "faults", "lost"} /\ left'.lost = left.lost
  BY <1>3
<1>4. CASE LoseUp \/ LoseDown
  <2>1. \E f : left' = [left EXCEPT !.faults = f, !.lost = TRUE]
    BY <1>4 DEF LoseUp, LoseDown
  <2> QED
    BY <1>2, <2>1, Zenon
<1>5. ASSUME ~LoseUp, ~LoseDown
      PROVE  UNCHANGED left \/ \E f : left' = [left EXCEPT !.faults = f] \/ left' = [left EXCEPT !.ops = f]
  <2>1. ASSUME NEW pc, NEW changes, NEW attrs, Begin(pc, changes, attrs) PROVE \E f : left' = [left EXCEPT !.ops = f]
    BY <2>1 DEF Begin
  <2>2. ASSUME NEW refuse, DeliverUp(refuse) PROVE \E f : left' = [left EXCEPT !.faults = f]
    BY <2>2 DEF DeliverUp
  <2>3. CASE LinkLost
    BY <2>3 DEF LinkLost
  <2>4. CASE Apply \/ WriteSection \/ Verify \/ TimeOut \/ Done \/ DeliverDown \/ Accept \/ Land \/ LearnTick \/ LiveTick
    <3>1. UNCHANGED left
      BY <2>4, Zenon DEF Apply, WriteSection, Verify, TimeOut, Done, DeliverDown, Accept, Land, LearnTick, LiveTick
    <3> QED
      BY <3>1
  <2>5. CASE UNCHANGED vars
    BY <2>5 DEF vars
  <2> QED
    BY <1>5, <2>1, <2>2, <2>3, <2>4, <2>5, Zenon DEF Next, AppNext, Preview, Ping, Set
<1> QED
  BY <1>3, <1>4, <1>2, <1>5, Zenon

\* While nothing is lost, every step leaves both directions clean.
LEMMA FlowsStep ==
  ASSUME Flows, [Next]_vars
  PROVE  Flows'
<1>1. Shown(app') /\ AppOk(app')
  BY ShownStep, AppStep DEF Flows
<1>2. DOMAIN left' = {"ops", "faults", "lost"} /\ (~left'.lost => ~left.lost /\ ~LoseUp /\ ~LoseDown)
  BY LeftStep DEF Flows
<1>3. ASSUME LinkOk, ~LoseUp, ~LoseDown PROVE LinkOk'
  <2>1. CASE AppNext
    BY <1>3, <2>1, AppNextOk DEF Flows
  <2>2. CASE DeliverDown
    BY <1>3, <2>2, DeliverDownOk
  <2>3. CASE LinkLost
    BY <1>3, <2>3, LinkLostOk
  <2>4. CASE Accept \/ UNCHANGED vars
    <3>1. UNCHANGED <<up, down, tags, due>>
      BY <2>4 DEF Accept, vars
    <3> QED
      BY <1>3, <3>1 DEF LinkOk
  <2>5. ASSUME NEW refuse, DeliverUp(refuse) PROVE LinkOk'
    BY <1>3, <2>5, DeliverUpOk
  <2>6. CASE Land
    BY <1>3, <2>6, LandOk
  <2>7. CASE LearnTick
    BY <1>3, <2>7, LearnTickOk
  <2>8. CASE LiveTick
    BY <1>3, <2>8, LiveTickOk
  <2> QED
    BY <1>3, <2>1, <2>2, <2>3, <2>4, <2>5, <2>6, <2>7, <2>8, Zenon DEF Next
<1>4. ~left.lost => LinkOk
  BY Zenon DEF Flows
<1>5. ~left'.lost => LinkOk'
  BY <1>2, <1>3, <1>4, Zenon
<1> QED
  BY <1>1, <1>2, <1>5, Zenon DEF Flows

\* The first state.
LEMMA FlowsInit ==
  ASSUME Init
  PROVE  Flows
<1>1. app = Idle /\ tags = InitTags /\ due = <<>> /\ up = Quiet /\ down = Quiet
  BY DEF Init
<1>2. Shown(app) /\ AppOk(app)
  <2>1. Idle.pc = "idle"
    BY DEF Idle
  <2>2. AppOk(Idle)
    BY <2>1 DEF AppOk
  <2> QED
    BY <1>1, <2>2, IdleShown
<1>3. DOMAIN left = {"ops", "faults", "lost"}
  BY DEF Init
<1>4. TagsOk(tags)
  BY <1>1, TagsAssumption DEF TagsOk, IsValue, IsList
<1>5. DueOk(due)
  <2>1. PICK e : e = <<>>
    OBVIOUS
  <2>2. Sized(e, 0)
    BY <2>1, TupleSized, Zenon
  <2>3. IsList(e) /\ Len(e) = 0
    BY <2>2 DEF Sized
  <2> QED
    BY <1>1, <2>1, <2>3 DEF DueOk
<1>6. LinkOk
  BY <1>1, <1>4, <1>5, QuietClean, QuietUp DEF LinkOk
<1> QED
  BY <1>2, <1>3, <1>6, Zenon DEF Flows

\* The invariant of the link and of the operation under way holds in every state.
THEOREM FlowsAlways == Spec => []Flows
<1>1. Init => Flows
  BY FlowsInit
<1>2. Flows /\ [Next]_vars => Flows'
  BY FlowsStep
<1> QED
  BY <1>1, <1>2, PTL DEF Spec

\* On a link that loses nothing every frame comes out as soon as it is whole, whatever its values
\* look
\* like and wherever the chunks cut it (protocol.py:498).
THEOREM CleanLinkDeliversAlways == Spec => []CleanLinkDelivers
<1>1. Flows => CleanLinkDelivers
  BY Zenon DEF Flows, LinkOk, UpOk, Clean, CleanLinkDelivers
<1> QED
  BY <1>1, FlowsAlways, PTL

(* -- the values the sensor holds ----------------------------------------- *)

\* A value of attribute t that StoredWasSent allows, if `done` has been written.
Kept(t, v, done) ==
  \/ v = InitTags[t] \/ <<t, v>> \in done
  \/ t = 51 /\ v = EncodeZoneThresholds(Learned)
  \/ t = 61 /\ v = <<4>>
  \/ t = 54 /\ v = <<0>>

\* What the sensor holds, and what it will put there of itself.
TagsKept(t, done) ==
  /\ DOMAIN t = DOMAIN InitTags
  /\ \A x \in DOMAIN t \ {98} : Kept(x, t[x], done)
  /\ t[52] = <<t[52][1]>>
\* The thresholds on their way were written.
DueKept(d, done) == \A i \in 1..Len(d) : <<51, d[i]>> \in done
\* The mode a learning goes back to is one the sensor may hold.
LearnKept(l, done) == DOMAIN l = {"on", "ticks", "mode", "start"} /\ (l.on => Kept(52, <<l.mode>>, done))

\* The three together, in the sensor that obeys a command.
Safe(s, done) == TagsKept(s.tags, done) /\ DueKept(s.due, done) /\ LearnKept(s.learn, done)

\* What may be held once may be held after more was written.
LEMMA KeptGrows ==
  ASSUME NEW t, NEW d, NEW l, NEW done, NEW more, done \subseteq more
  PROVE  /\ TagsKept(t, done) => TagsKept(t, more)
         /\ DueKept(d, done) => DueKept(d, more)
         /\ LearnKept(l, done) => LearnKept(l, more)
<1>1. \A x, v : Kept(x, v, done) => Kept(x, v, more)
  BY DEF Kept
<1> QED
  BY <1>1, Zenon DEF TagsKept, DueKept, LearnKept

\* An attribute that is set to what it may hold.
LEMMA TagsKeptSet ==
  ASSUME NEW t, NEW done, TagsKept(t, done), NEW x, NEW v, x # 98 => Kept(x, v, done), x = 52 => v = <<v[1]>>
  PROVE  TagsKept([t EXCEPT ![x] = v], done)
<1>1. PICK u : u = [t EXCEPT ![x] = v]
  OBVIOUS
<1>2. DOMAIN u = DOMAIN t /\ \A y \in DOMAIN t : u[y] = IF y = x THEN v ELSE t[y]
  BY <1>1
<1>3. \A y \in DOMAIN u \ {98} : Kept(y, u[y], done)
  BY <1>2 DEF TagsKept
<1>4. 52 \in DOMAIN t
  BY TagsAssumption DEF TagsKept
<1>5. u[52] = <<u[52][1]>>
  BY <1>2, <1>4 DEF TagsKept
<1> QED
  BY <1>1, <1>2, <1>3, <1>5, Zenon DEF TagsKept

\* Thresholds that were written wait their turn.
LEMMA DueKeptAppend ==
  ASSUME NEW d, NEW done, IsList(d), DueKept(d, done), NEW v, <<51, v>> \in done
  PROVE  DueKept(Append(d, v), done)
<1>1. PICK u : u = Append(d, v)
  OBVIOUS
<1>2. Len(d) \in Nat /\ Len(u) = Len(d) + 1 /\ u[Len(d) + 1] = v /\ \A i \in 1..Len(d) : u[i] = d[i]
  <2>1. PICK S : d \in Seq(S)
    BY DEF IsList
  <2>2. d \in Seq(S \cup {v}) /\ v \in S \cup {v}
    BY <2>1
  <2> QED
    BY <1>1, <2>2
<1>3. \A i \in 1..Len(u) : i = Len(d) + 1 \/ i \in 1..Len(d)
  BY <1>2
<1>4. \A i \in 1..Len(u) : <<51, u[i]>> \in done
  BY <1>2, <1>3, Zenon DEF DueKept
<1> QED
  BY <1>1, <1>4, Zenon DEF DueKept

\* A value of one byte is that byte.
LEMMA OneValue ==
  ASSUME NEW v, IsList(v), Len(v) = 1
  PROVE  v = <<v[1]>>
<1>1. IsList(<<v[1]>>) /\ Len(<<v[1]>>) = 1 /\ <<v[1]>>[1] = v[1]
  BY DEF IsList
<1>2. \A i \in 1..Len(v) : i = 1
  OBVIOUS
<1> QED
  BY <1>1, <1>2, ListExt

\* A write that is not refused.
LEMMA WriteSafe ==
  ASSUME NEW s, NEW k, SensorOk(s, k), NEW done, Safe(s, done), NEW tag, NEW value, IsList(value),
         ~Refuses(s, tag, value), <<tag, value>> \in done
  PROVE  Safe(Write(s, tag, value), done)
<1>1. DOMAIN s = {"tags", "learn", "due", "out", "status", "frames"} /\ IsList(s.due)
  BY DEF SensorOk, DueOk
<1>2. TagsKept(s.tags, done) /\ DueKept(s.due, done) /\ LearnKept(s.learn, done)
  BY DEF Safe
<1>3. Kept(tag, value, done)
  BY DEF Kept
<1>4. tag = 52 => value = <<value[1]>>
  <2>1. tag = 52 => Len(value) = 1
    BY DEF Refuses, WriteSize
  <2> QED
    BY <2>1, OneValue
<1>5. PICK w : w = Write(s, tag, value)
  OBVIOUS
<1>6. CASE tag = 52 /\ value[1] = SpaceLearning
  <2>1. w = StartLearning(s)
    BY <1>5, <1>6 DEF Write
  <2>2. CASE s.learn.on
    BY <1>5, <2>1, <2>2 DEF StartLearning
  <2>3. CASE ~s.learn.on
    <3>1. PICK l : l = [on |-> TRUE, ticks |-> 0, mode |-> s.tags[52][1], start |-> DecodeZoneThresholds(s.tags[51])]
      OBVIOUS
    <3>2. PICK t : t = [s.tags EXCEPT ![52] = <<SpaceLearning>>]
      OBVIOUS
    <3>3. w = [s EXCEPT !.learn = l, !.tags = t]
      BY <2>1, <2>3, <3>1, <3>2 DEF StartLearning
    <3>4. t = [s.tags EXCEPT ![52] = value]
      BY <1>4, <1>6, <3>2
    <3>5. TagsKept(t, done)
      BY <1>2, <1>3, <1>4, <1>6, <3>4, TagsKeptSet
    <3>6. 52 \in DOMAIN s.tags /\ s.tags[52] = <<s.tags[52][1]>> /\ Kept(52, s.tags[52], done)
      BY <1>2, TagsAssumption DEF TagsKept
    <3>7. DOMAIN l = {"on", "ticks", "mode", "start"} /\ l.mode = s.tags[52][1]
      BY <3>1
    <3>8. LearnKept(l, done)
      BY <3>6, <3>7, Zenon DEF LearnKept
    <3>9. w.tags = t /\ w.learn = l /\ w.due = s.due
      BY <1>1, <3>3
    <3> QED
      BY <1>2, <1>5, <3>5, <3>8, <3>9, Zenon DEF Safe
  <2> QED
    BY <2>2, <2>3
<1>7. CASE tag = 51
  <2>1. PICK d : d = Append(s.due, value)
    OBVIOUS
  <2>2. w = [s EXCEPT !.due = d]
    BY <1>5, <1>7, <2>1 DEF Write
  <2>3. DueKept(d, done)
    BY <1>1, <1>2, <1>7, <2>1, DueKeptAppend
  <2>4. w.tags = s.tags /\ w.learn = s.learn /\ w.due = d
    BY <1>1, <2>2
  <2> QED
    BY <1>2, <1>5, <2>3, <2>4, Zenon DEF Safe
<1>8. CASE ~(tag = 52 /\ value[1] = SpaceLearning) /\ tag # 51
  <2>1. PICK v : v = IF tag = 98 THEN SetInterval(s.tags[98], value) ELSE value
    OBVIOUS
  <2>2. PICK t : t = [s.tags EXCEPT ![tag] = v]
    OBVIOUS
  <2>3. w = [s EXCEPT !.tags = t]
    BY <1>5, <1>8, <2>1, <2>2 DEF Write
  <2>4. (tag # 98 => Kept(tag, v, done)) /\ (tag = 52 => v = <<v[1]>>)
    BY <1>3, <1>4, <2>1
  <2>5. TagsKept(t, done)
    BY <1>2, <2>2, <2>4, TagsKeptSet
  <2>6. w.tags = t /\ w.learn = s.learn /\ w.due = s.due
    BY <1>1, <2>3
  <2> QED
    BY <1>2, <1>5, <2>5, <2>6, Zenon DEF Safe
<1> QED
  BY <1>6, <1>7, <1>8

\* An attribute that is written has been announced: it is in `done`.
Announced(attr, done) == attr[1] \notin {1, 2} => <<attr[1], attr[2]>> \in done

\* One attribute of a command.
LEMMA ObeysSafe ==
  ASSUME NEW s, NEW k \in Nat, SensorOk(s, k), NEW done, Safe(s, done), NEW attr, IsList(attr[2]),
         Announced(attr, done), NEW refuse
  PROVE  Safe(Obeys(s, attr, refuse), done)
<1>1. DOMAIN s = {"tags", "learn", "due", "out", "status", "frames"}
  BY DEF SensorOk
<1>2. \/ Obeys(s, attr, refuse) = s
      \/ Obeys(s, attr, refuse) = Read(s, attr[2])
      \/ Obeys(s, attr, refuse) = Acks(s, 1)
      \/ /\ ~Refuses(s, attr[1], attr[2]) /\ attr[1] \notin {1, 2}
         /\ Obeys(s, attr, refuse) = Acks(Write(s, attr[1], attr[2]), 0)
  BY DEF Obeys, Refusal, Attribute, Acks
<1>3. CASE Obeys(s, attr, refuse) = s
  BY <1>3
<1>4. CASE Obeys(s, attr, refuse) = Read(s, attr[2])
  <2>1. \E a : Read(s, attr[2]) = Reads(s, a)
    BY DEF Read, Answered, Reads
  <2>2. PICK a : Read(s, attr[2]) = Reads(s, a)
    BY <2>1
  <2>3. PICK o : o = Append(s.out, a)
    OBVIOUS
  <2>4. Obeys(s, attr, refuse) = [s EXCEPT !.out = o]
    BY <1>4, <2>2, <2>3 DEF Reads
  <2> QED
    BY <1>1, <2>4 DEF Safe
<1>5. ASSUME NEW t, NEW v, DOMAIN t = DOMAIN s, Safe(t, done) PROVE Safe(Acks(t, v), done)
  <2>1. PICK o : o = Append(t.status, <<3, <<v>>>>)
    OBVIOUS
  <2>2. Acks(t, v) = [t EXCEPT !.status = o]
    BY <2>1 DEF Acks
  <2> QED
    BY <1>1, <1>5, <2>2 DEF Safe
<1>6. CASE Obeys(s, attr, refuse) = Acks(s, 1)
  BY <1>5, <1>6
<1>7. CASE /\ ~Refuses(s, attr[1], attr[2]) /\ attr[1] \notin {1, 2}
           /\ Obeys(s, attr, refuse) = Acks(Write(s, attr[1], attr[2]), 0)
  <2>1. PICK t : t = Write(s, attr[1], attr[2])
    OBVIOUS
  <2>2. SensorOk(t, k)
    BY <1>7, <2>1, WriteOk
  <2>3. DOMAIN t = DOMAIN s
    BY <1>1, <2>2 DEF SensorOk
  <2>4. <<attr[1], attr[2]>> \in done
    BY <1>7 DEF Announced
  <2>5. Safe(t, done)
    BY <1>7, <2>1, <2>4, WriteSafe
  <2>6. Obeys(s, attr, refuse) = Acks(t, 0)
    BY <1>7, <2>1
  <2> QED
    BY <1>5, <2>3, <2>5, <2>6
<1> QED
  BY <1>2, <1>3, <1>4, <1>6, <1>7

\* A command all of whose writes have been announced.
AllAnnounced(attrs, done) == \A i \in 1..Len(attrs) : Announced(attrs[i], done)

\* All the attributes of a command in turn.
LEMMA ObeyedSafe ==
  ASSUME NEW s, SensorOk(s, 0), NEW done, Safe(s, done), NEW attrs, NEW refuse, IsList(attrs),
         \A i \in 1..Len(attrs) : IsList(attrs[i][2]), AllAnnounced(attrs, done)
  PROVE  Safe(Obeyed(s, attrs, refuse), done)
<1>1. PICK n \in Nat : n = Len(attrs)
  BY ListFacts
<1>2. \E f : Run(f, s, attrs, refuse, n) /\ Obeyed(s, attrs, refuse) = f[n]
  BY <1>1, ObeyedRun
<1>3. PICK f : Run(f, s, attrs, refuse, n) /\ Obeyed(s, attrs, refuse) = f[n]
  BY <1>2, Zenon
<1>4. f[0] = s /\ \A i \in 1..n : f[i] = Obeys(f[i - 1], attrs[i], refuse)
  BY <1>3, Zenon DEF Run
<1> DEFINE S == {i \in Nat : i <= n => SensorOk(f[i], i) /\ Safe(f[i], done)}
<1> HIDE DEF S
<1>5. 0 \in S
  BY <1>4 DEF S
<1>6. \A i \in Nat : i \in S => i + 1 \in S
  <2> SUFFICES ASSUME NEW i \in Nat, i \in S, i + 1 <= n PROVE SensorOk(f[i + 1], i + 1) /\ Safe(f[i + 1], done)
    BY DEF S
  <2>1. i + 1 \in 1..n /\ (i + 1) - 1 = i /\ i <= n
    OBVIOUS
  <2>2. SensorOk(f[i], i) /\ Safe(f[i], done)
    BY <2>1 DEF S
  <2>3. f[i + 1] = Obeys(f[i], attrs[i + 1], refuse)
    BY <1>4, <2>1
  <2>4. IsList(attrs[i + 1][2]) /\ Announced(attrs[i + 1], done)
    BY <1>1, <2>1 DEF AllAnnounced
  <2>5. SensorOk(Obeys(f[i], attrs[i + 1], refuse), i + 1)
    BY <2>2, <2>4, ObeysOk
  <2>6. Safe(Obeys(f[i], attrs[i + 1], refuse), done)
    BY <2>2, <2>4, ObeysSafe
  <2> QED
    BY <2>3, <2>5, <2>6
<1>7. n \in S
  BY <1>5, <1>6, NatInduct
<1> QED
  BY <1>1, <1>3, <1>7 DEF S

\* The frame of a command whose writes have been announced.
Own(f, done) == \E attrs, id : IsCommand(attrs) /\ AllAnnounced(attrs, done) /\ f = BuildCommand(attrs, id)

\* Such a frame is parsed as attributes that have been announced.
LEMMA OwnFacts ==
  ASSUME NEW f, NEW done, Own(f, done)
  PROVE  LET attrs == ParseFrame(f).attrs IN
         IsList(attrs) /\ (\A i \in 1..Len(attrs) : IsList(attrs[i][2])) /\ AllAnnounced(attrs, done)
<1>1. PICK attrs, id : IsCommand(attrs) /\ AllAnnounced(attrs, done) /\ f = BuildCommand(attrs, id)
  BY DEF Own
<1>2. PICK all : all = Append(attrs, Trailer)
  OBVIOUS
<1>3. /\ IsList(all) /\ (\A i \in 1..Len(all) : IsList(all[i][2]))
      /\ ParseFrame(f).attrs = Got(all, Len(all))
  BY <1>1, <1>2, BuildFacts
<1>4. PICK n \in Nat : n = Len(all)
  BY <1>3, ListFacts
<1>5. PICK got : got = Got(all, n)
  OBVIOUS
<1>6. IsList(got) /\ Len(got) = n /\ \A i \in 1..n : got[i] = <<all[i][1], all[i][2]>>
  BY <1>5, GotList
<1>7. \A i \in 1..n : IsList(got[i][2])
  BY <1>3, <1>4, <1>6
<1>8. \A i \in 1..n : Announced(all[i], done)
  <2>1. IsList(attrs)
    BY <1>1, Zenon DEF IsCommand, AreAttrs
  <2>2. /\ n = Len(attrs) + 1 /\ all[n] = Trailer /\ Len(attrs) \in Nat
        /\ \A i \in 1..Len(attrs) : all[i] = attrs[i]
    BY <1>2, <1>4, <2>1, AppendList, ListFacts
  <2>3. Announced(Trailer, done)
    BY DEF Trailer, Announced
  <2>4. \A i \in 1..Len(attrs) : Announced(all[i], done)
    BY <1>1, <2>2 DEF AllAnnounced
  <2>5. \A i \in 1..n : i = n \/ i \in 1..Len(attrs)
    BY <2>2
  <2> QED
    BY <2>2, <2>3, <2>4, <2>5, Zenon
<1>9. \A i \in 1..n : Announced(got[i], done)
  <2> SUFFICES ASSUME NEW i \in 1..n PROVE Announced(got[i], done)
    OBVIOUS
  <2>1. got[i][1] = all[i][1] /\ got[i][2] = all[i][2]
    BY <1>6
  <2> QED
    BY <1>8, <2>1, Zenon DEF Announced
<1>10. AllAnnounced(got, done)
  BY <1>6, <1>9 DEF AllAnnounced
<1> QED
  BY <1>3, <1>4, <1>5, <1>6, <1>7, <1>10

\* A command that is understood.
LEMMA ObeySafe ==
  ASSUME NEW s, SensorOk(s, 9), NEW done, Safe(s, done), NEW frame, NEW refuse, IsList(frame.attrs),
         \A i \in 1..Len(frame.attrs) : IsList(frame.attrs[i][2]), AllAnnounced(frame.attrs, done),
         Len(frame.attrs) <= 9
  PROVE  Safe(Obey(s, frame, refuse), done)
<1>1. PICK fresh : fresh = [s EXCEPT !.out = <<>>, !.status = <<>>]
  OBVIOUS
<1>2. SensorOk(fresh, 0)
  BY <1>1, FreshOk
<1>3. fresh.tags = s.tags /\ fresh.due = s.due /\ fresh.learn = s.learn
  <2>1. DOMAIN s = {"tags", "learn", "due", "out", "status", "frames"}
    BY DEF SensorOk
  <2> QED
    BY <1>1, <2>1
<1>4. Safe(fresh, done)
  BY <1>3, Zenon DEF Safe
<1>5. PICK after : after = Obeyed(fresh, frame.attrs, refuse)
  OBVIOUS
<1>6. Safe(after, done)
  BY <1>2, <1>4, <1>5, ObeyedSafe
<1>7. DOMAIN after = {"tags", "learn", "due", "out", "status", "frames"}
  BY <1>2, <1>5, ObeyedOk DEF SensorOk
<1>8. PICK t : t = Obey(s, frame, refuse)
  OBVIOUS
<1>9. PICK fs : fs = Append(after.frames, BuildFrameRaw(Reply(after), frame.msgId, TriggerSrc))
  OBVIOUS
<1>10. t = [after EXCEPT !.frames = fs]
  BY <1>1, <1>5, <1>8, <1>9, Zenon DEF Obey
<1>11. t.tags = after.tags /\ t.due = after.due /\ t.learn = after.learn
  BY <1>7, <1>10
<1> QED
  BY <1>6, <1>8, <1>11, Zenon DEF Safe

\* What the sensor does with the frames of one chunk.
LEMMA HandledSafe ==
  ASSUME NEW s, SensorOk(s, 9), NEW done, Safe(s, done), NEW raws, NEW refuse,
         raws = <<>> \/ \E raw : Own(raw, done) /\ raws = <<raw>>
  PROVE  Safe(Handled(s, raws, refuse), done)
<1>1. CASE raws = <<>>
  <2>1. Handled(s, raws, refuse) = s
    BY <1>1, HandledOne
  <2> QED
    BY <2>1
<1>2. CASE raws # <<>>
  <2>1. PICK raw : Own(raw, done) /\ raws = <<raw>>
    BY <1>2, Zenon
  <2>2. raws[1] = raw
    BY <2>1
  <2>3. Handled(s, raws, refuse) = Handle(s, raw, refuse)
    <3>1. \E r : raws = <<r>>
      BY <2>1
    <3>2. Handled(s, raws, refuse) = Handle(s, raws[1], refuse)
      BY <1>2, <3>1, HandledOne
    <3> QED
      BY <2>2, <3>2, Zenon
  <2>4. PICK frame : frame = ParseFrame(raw)
    OBVIOUS
  <2>5. Handle(s, raw, refuse) \in {s, Obey(s, frame, refuse)}
    BY <2>4, Zenon DEF Handle
  <2>6. IsList(frame.attrs) /\ (\A i \in 1..Len(frame.attrs) : IsList(frame.attrs[i][2]))
        /\ AllAnnounced(frame.attrs, done)
    BY <2>1, <2>4, OwnFacts
  <2>7. Len(frame.attrs) <= 9
    <3>1. Command(raw)
      BY <2>1, Zenon DEF Own, Command
    <3> QED
      BY <2>4, <3>1, CommandFacts
  <2>8. Safe(Obey(s, frame, refuse), done)
    BY <2>6, <2>7, ObeySafe
  <2> QED
    BY <2>3, <2>5, <2>8
<1> QED
  BY <1>1, <1>2

\* The way to the sensor: commands whose writes have been announced.
UpOwn(w, done) == \A i \in 1..Len(w.air) : Own(w.air[i].frame, done)

\* What the sensor holds, is about to show and is being sent has all been announced.
Stored == TagsKept(tags, sent) /\ DueKept(due, sent) /\ LearnKept(learn, sent) /\ UpOwn(up, sent)

\* They stay announced.
LEMMA UpOwnGrows ==
  ASSUME NEW w, NEW done, UpOwn(w, done), NEW more, done \subseteq more
  PROVE  UpOwn(w, more)
<1>1. \A attr : Announced(attr, done) => Announced(attr, more)
  BY DEF Announced
<1>2. \A attrs : AllAnnounced(attrs, done) => AllAnnounced(attrs, more)
  BY <1>1, Zenon DEF AllAnnounced
<1>3. \A f : Own(f, done) => Own(f, more)
  BY <1>2, Zenon DEF Own
<1> QED
  BY <1>3, Zenon DEF UpOwn

\* One more such command.
LEMMA OwnPut ==
  ASSUME NEW w, Clean(w), NEW done, UpOwn(w, done), NEW f, Own(f, done)
  PROVE  UpOwn(Put(w, f), done)
<1>1. Command(f)
  BY Zenon DEF Own, Command
<1>2. Sound(f)
  BY <1>1, CommandFacts, Zenon
<1>3. \A i \in 1..Len(Put(w, f).air) :
        \/ Put(w, f).air[i].frame = f
        \/ i \in 1..Len(w.air) /\ Put(w, f).air[i].frame = w.air[i].frame
  BY <1>2, PutClean
<1> QED
  BY <1>3, Zenon DEF UpOwn

\* A chunk that reaches the sensor completes one such command at most.
LEMMA OwnTake ==
  ASSUME NEW w, Clean(w), NEW done, UpOwn(w, done), Len(w.air) > 0
  PROVE  /\ UpOwn(Take(w), done)
         /\ Heard(w).frames = <<>> \/ \E raw : Own(raw, done) /\ Heard(w).frames = <<raw>>
<1>1. PICK n \in Nat : n = Len(w.air)
  BY ListFacts DEF Clean, IsWay
<1>2. PICK x : x = Take(w)
  OBVIOUS
<1>3. /\ Len(x.air) = n - 1
      /\ \A i \in 1..(n - 1) : x.air[i] = w.air[i + 1]
      /\ Heard(w).frames \in {<<>>, <<w.air[1].frame>>}
  BY <1>1, <1>2, TakeClean
<1>4. \A i \in 1..(n - 1) : i + 1 \in 1..n
  BY <1>1
<1>5. \A i \in 1..n : Own(w.air[i].frame, done)
  BY <1>1 DEF UpOwn
<1>6. \A i \in 1..(n - 1) : Own(x.air[i].frame, done)
  BY <1>3, <1>4, <1>5
<1>7. Own(w.air[1].frame, done)
  BY <1>1, <1>5
<1>8. UpOwn(x, done)
  BY <1>3, <1>6, Zenon DEF UpOwn
<1> QED
  BY <1>2, <1>3, <1>7, <1>8, Zenon

\* The sensor stores what the commands it gets write,
LEMMA DeliverUpStored ==
  ASSUME LinkOk, Stored, NEW refuse, DeliverUp(refuse)
  PROVE  Stored'
<1> DEFINE raws == Heard(up).frames
           s0 == [tags |-> tags, learn |-> learn, due |-> due, out |-> <<>>, status |-> <<>>, frames |-> <<>>]
           s == Handled(s0, raws, refuse)
<1>1. /\ up.air # <<>> /\ up' = Take(up) /\ tags' = s.tags /\ due' = s.due /\ learn' = s.learn /\ sent' = sent
  BY Zenon DEF DeliverUp
<1>2. Clean(up) /\ TagsOk(tags) /\ DueOk(due)
  BY DEF LinkOk, UpOk
<1>3. TagsKept(tags, sent) /\ DueKept(due, sent) /\ LearnKept(learn, sent) /\ UpOwn(up, sent)
  BY DEF Stored
<1>4. Len(up.air) > 0
  BY <1>1, <1>2, AirLen
<1>5. UpOwn(Take(up), sent) /\ (raws = <<>> \/ \E raw : Own(raw, sent) /\ raws = <<raw>>)
  BY <1>2, <1>3, <1>4, OwnTake
<1> HIDE DEF raws
<1>6. PICK start : start = s0
  OBVIOUS
<1>7. SensorOk(start, 9)
  BY <1>2, <1>6, StartOk
<1>8. start.tags = tags /\ start.due = due /\ start.learn = learn
  BY <1>6
<1>9. Safe(start, sent)
  BY <1>3, <1>8, Zenon DEF Safe
<1>10. Safe(Handled(start, raws, refuse), sent)
  BY <1>5, <1>7, <1>9, HandledSafe
<1>11. Safe(s, sent)
  BY <1>6, <1>10, Zenon
<1> HIDE DEF s
<1> QED
  BY <1>1, <1>5, <1>11, Zenon DEF Safe, Stored

\* shows the thresholds that were written,
LEMMA LandStored ==
  ASSUME LinkOk, Stored, Land
  PROVE  Stored'
<1>1. /\ due # <<>> /\ tags' = [tags EXCEPT ![51] = Head(due)] /\ due' = Tail(due)
      /\ UNCHANGED <<up, sent, learn>>
  BY DEF Land
<1>2. IsList(due) /\ TagsKept(tags, sent) /\ DueKept(due, sent)
  BY DEF LinkOk, DueOk, Stored
<1>3. PICK n \in Nat : n = Len(due)
  BY <1>2, ListFacts
<1>4. PICK d : d = Tail(due)
  OBVIOUS
<1>5. IsList(d) /\ Len(d) = n - 1 /\ (\A i \in 1..(n - 1) : d[i] = due[i + 1]) /\ Head(due) = due[1]
  BY <1>1, <1>2, <1>3, <1>4, TailList
<1>6. n - 1 \in Nat /\ 1 \in 1..n /\ \A i \in 1..(n - 1) : i + 1 \in 1..n
  BY <1>3, <1>5, ListFacts
<1>7. \A i \in 1..n : <<51, due[i]>> \in sent
  BY <1>2, <1>3 DEF DueKept
<1>8. DueKept(d, sent)
  BY <1>5, <1>6, <1>7 DEF DueKept
<1>9. Kept(51, due[1], sent)
  BY <1>6, <1>7 DEF Kept
<1>10. PICK v : v = due[1]
  OBVIOUS
<1>11. TagsKept([tags EXCEPT ![51] = v], sent)
  BY <1>2, <1>9, <1>10, TagsKeptSet
<1>12. TagsKept(tags', sent)
  BY <1>1, <1>5, <1>10, <1>11
<1>13. TagsKept(tags', sent') /\ DueKept(due', sent') /\ LearnKept(learn', sent') /\ UpOwn(up', sent')
  BY <1>1, <1>4, <1>8, <1>12 DEF Stored
<1> QED
  BY <1>13 DEF Stored

\* what it has learned,
LEMMA LearnTickStored ==
  ASSUME Stored, LearnTick
  PROVE  Stored'
<1>1. TagsKept(tags, sent) /\ LearnKept(learn, sent)
  BY DEF Stored
<1>2. UNCHANGED <<up, due, sent>> /\ learn.on
  BY Zenon DEF LearnTick
<1>3. \/ (\E k : learn' = [learn EXCEPT !.ticks = k]) /\ UNCHANGED tags
      \/ /\ learn' = NoLearning
         /\ tags' = [tags EXCEPT ![51] = EncodeZoneThresholds(Learned), ![61] = <<4>>, ![52] = <<learn.mode>>]
  BY Zenon DEF LearnTick
<1>4. ASSUME NEW k, learn' = [learn EXCEPT !.ticks = k] PROVE LearnKept(learn', sent)
  <2>1. DOMAIN learn' = DOMAIN learn /\ learn'.on = learn.on /\ learn'.mode = learn.mode
    BY <1>1, <1>4 DEF LearnKept
  <2> QED
    BY <1>1, <2>1, Zenon DEF LearnKept
<1>5. LearnKept(NoLearning, sent)
  BY DEF LearnKept, NoLearning
<1>6. TagsKept([tags EXCEPT ![51] = EncodeZoneThresholds(Learned), ![61] = <<4>>, ![52] = <<learn.mode>>], sent)
  <2>1. PICK v : v = EncodeZoneThresholds(Learned)
    OBVIOUS
  <2>2. PICK t : t = [tags EXCEPT ![51] = v]
    OBVIOUS
  <2>3. Kept(51, v, sent) /\ Kept(61, <<4>>, sent) /\ Kept(52, <<learn.mode>>, sent)
    BY <1>1, <1>2, <2>1, Zenon DEF Kept, LearnKept
  <2>4. TagsKept(t, sent)
    <3>1. 51 # 98 /\ 51 # 52 /\ Kept(51, v, sent)
      BY <2>3
    <3>2. 51 # 98 => Kept(51, v, sent)
      BY <3>1
    <3>3. 51 = 52 => v = <<v[1]>>
      BY <3>1, Zenon
    <3>4. TagsKept([tags EXCEPT ![51] = v], sent)
      BY <1>1, <3>2, <3>3, TagsKeptSet, Zenon
    <3> QED
      BY <2>2, <3>4, Zenon
  <2>5. PICK u : u = [t EXCEPT ![61] = <<4>>]
    OBVIOUS
  <2>6. TagsKept(u, sent)
    BY <2>3, <2>4, <2>5, TagsKeptSet
  <2>7. PICK m : m = <<learn.mode>>
    OBVIOUS
  <2>8. m = <<m[1]>>
    BY <2>7
  <2>9. TagsKept([u EXCEPT ![52] = m], sent)
    BY <2>3, <2>6, <2>7, <2>8, TagsKeptSet
  <2> QED
    BY <2>1, <2>2, <2>5, <2>7, <2>9, Zenon
<1>7. TagsKept(tags', sent) /\ LearnKept(learn', sent)
  BY <1>1, <1>3, <1>4, <1>5, <1>6, Zenon
<1> QED
  BY <1>2, <1>7, Zenon DEF Stored

\* and the mode from before, when the link ends.
LEMMA LinkLostStored ==
  ASSUME Stored, LinkLost
  PROVE  Stored'
<1>1. /\ tags' = [tags EXCEPT ![54] = <<0>>, ![52] = IF learn.on THEN <<learn.mode>> ELSE @]
      /\ up' = Quiet /\ learn' = NoLearning /\ UNCHANGED <<due, sent>>
  BY DEF LinkLost
<1>2. TagsKept(tags, sent) /\ DueKept(due, sent) /\ LearnKept(learn, sent)
  BY DEF Stored
<1>3. PICK t : t = [tags EXCEPT ![54] = <<0>>]
  OBVIOUS
<1>4. TagsKept(t, sent)
  <2>1. Kept(54, <<0>>, sent)
    BY DEF Kept
  <2> QED
    BY <1>2, <1>3, <2>1, TagsKeptSet
<1>5. PICK m : m = <<learn.mode>>
  OBVIOUS
<1>6. learn.on => TagsKept([t EXCEPT ![52] = m], sent)
  <2>1. m = <<m[1]>>
    BY <1>5
  <2>2. learn.on => Kept(52, m, sent)
    BY <1>2, <1>5 DEF LearnKept
  <2> QED
    BY <1>4, <2>1, <2>2, TagsKeptSet
<1>7. tags' = t \/ (learn.on /\ tags' = [t EXCEPT ![52] = m])
  <2>1. CASE learn.on
    BY <1>1, <1>3, <1>5, <2>1, Zenon
  <2>2. CASE ~learn.on
    <3>1. tags' = [tags EXCEPT ![54] = <<0>>, ![52] = @]
      BY <1>1, <2>2, Zenon
    <3>2. tags' = [t EXCEPT ![52] = t[52]]
      BY <1>3, <3>1
    <3>3. [t EXCEPT ![52] = t[52]] = t
      BY <1>3
    <3> QED
      BY <3>2, <3>3
  <2> QED
    BY <2>1, <2>2
<1>8. TagsKept(tags', sent)
  BY <1>4, <1>6, <1>7
<1>9. LearnKept(NoLearning, sent)
  BY DEF LearnKept, NoLearning
<1>10. UpOwn(Quiet, sent)
  <2>1. Len(Quiet.air) = 0
    BY DEF Quiet
  <2> QED
    BY <2>1 DEF UpOwn
<1> QED
  BY <1>1, <1>2, <1>8, <1>9, <1>10, Zenon DEF Stored

\* A request announces what it writes.
LEMMA AskedAnnounced ==
  ASSUME NEW attrs, IsList(attrs), NEW done, NEW more, \A i \in 1..Len(attrs) : attrs[i] = <<attrs[i][1], attrs[i][2]>>,
         more = done \cup {a \in ToSet(attrs) : a[1] # 2}
  PROVE  AllAnnounced(attrs, more)
<1> SUFFICES ASSUME NEW i \in 1..Len(attrs), attrs[i][1] # 2 PROVE <<attrs[i][1], attrs[i][2]>> \in more
  BY DEF AllAnnounced, Announced
<1>1. attrs[i] \in ToSet(attrs)
  BY ListFacts DEF ToSet
<1> QED
  BY <1>1

\* So a request sends nothing that has not been announced.
LEMMA AskedStored ==
  ASSUME LinkOk, Stored, NEW attrs, IsCommand(attrs), \A i \in 1..Len(attrs) : attrs[i] = <<attrs[i][1], attrs[i][2]>>,
         Request(attrs), sent' = sent \cup {a \in ToSet(attrs) : a[1] # 2}, UNCHANGED <<tags, due, learn>>
  PROVE  Stored'
<1>1. TagsKept(tags, sent) /\ DueKept(due, sent) /\ LearnKept(learn, sent) /\ UpOwn(up, sent)
  BY DEF Stored
<1>2. sent \subseteq sent'
  OBVIOUS
<1>3. TagsKept(tags, sent') /\ DueKept(due, sent') /\ LearnKept(learn, sent')
  BY <1>1, <1>2, KeptGrows
<1>4. UpOwn(up, sent')
  BY <1>1, <1>2, UpOwnGrows
<1>5. IsList(attrs)
  BY Zenon DEF IsCommand, AreAttrs
<1>6. AllAnnounced(attrs, sent')
  BY <1>5, AskedAnnounced
<1>7. PICK f : f = BuildCommand(attrs, NextMsgId(app.id))
  OBVIOUS
<1>8. Own(f, sent')
  BY <1>6, <1>7, Zenon DEF Own
<1>9. UpOwn(Put(up, f), sent')
  BY <1>4, <1>8, OwnPut DEF LinkOk, UpOk
<1>10. UpOwn(up', sent')
  BY <1>7, <1>9, Zenon DEF Request
<1> QED
  BY <1>3, <1>10, Zenon DEF Stored

\* One attribute is a pair,
LEMMA PairList ==
  ASSUME NEW a, NEW b
  PROVE  \A i \in 1..Len(<<<<a, b>>>>) : <<<<a, b>>>>[i] = <<<<<<a, b>>>>[i][1], <<<<a, b>>>>[i][2]>>
<1>1. PICK r : r = <<<<a, b>>>>
  OBVIOUS
<1>2. PICK x : x = <<a, b>>
  OBVIOUS
<1>3. r = <<x>> /\ x = <<x[1], x[2]>>
  BY <1>1, <1>2
<1>4. \A i \in 1..Len(r) : r[i] = x
  BY <1>3
<1>5. \A i \in 1..Len(r) : r[i] = <<r[i][1], r[i][2]>>
  BY <1>3, <1>4, Zenon
<1> QED
  BY <1>1, <1>5, Zenon

\* and so is each that a read asks for.
LEMMA ReadPairs == IsList(ReadConfig) /\ \A i \in 1..Len(ReadConfig) : ReadConfig[i] = <<ReadConfig[i][1], ReadConfig[i][2]>>
<1>1. PICK r : r = ReadConfig
  OBVIOUS
<1>2. IsList(r)
  BY <1>1, ReadCommand, Zenon DEF IsCommand, AreAttrs
<1>3. DOMAIN r = 1..Len(r)
  BY <1>2, ListFacts
<1>4. \A i \in DOMAIN r : \E b : r[i] = <<2, b>>
  <2>1. r = [i \in DOMAIN ReadConfigTags |-> <<2, <<ReadConfigTags[i]>>>>]
    BY <1>1, Zenon DEF ReadConfig
  <2> QED
    BY <2>1
<1>5. ASSUME NEW i \in 1..Len(r) PROVE r[i] = <<r[i][1], r[i][2]>>
  <2>1. PICK b : r[i] = <<2, b>>
    BY <1>3, <1>4
  <2> QED
    BY <2>1
<1> QED
  BY <1>1, <1>2, <1>5, Zenon

\* Every request of the program has been announced.
LEMMA AppNextStored ==
  ASSUME LinkOk, AppOk(app), Stored, AppNext
  PROVE  Stored'
<1> DEFINE Pairs(attrs) == IsCommand(attrs) /\ \A i \in 1..Len(attrs) : attrs[i] = <<attrs[i][1], attrs[i][2]>>
<1>1. ASSUME NEW attrs, Pairs(attrs),
             (\E pc, changes : Begin(pc, changes, attrs)) \/ (\E pc, todo : Ask(pc, todo, attrs))
      PROVE  Stored'
  <2>1. /\ Request(attrs) /\ sent' = sent \cup {a \in ToSet(attrs) : a[1] # 2}
        /\ UNCHANGED <<tags, due, learn>>
    BY <1>1, Zenon DEF Begin, Ask
  <2>2. IsCommand(attrs) /\ \A i \in 1..Len(attrs) : attrs[i] = <<attrs[i][1], attrs[i][2]>>
    BY <1>1
  <2> QED
    BY <2>1, <2>2, AskedStored
<1>2. Pairs(ReadConfig)
  BY ReadCommand, ReadPairs
<1>3. Pairs(<<>>)
  BY PingCommand
<1>4. ASSUME NEW a, NEW b, IsCommand(<<<<a, b>>>>) PROVE Pairs(<<<<a, b>>>>)
  BY <1>4, PairList
<1> HIDE DEF Pairs
<1>5. ASSUME NEW changes, Preview(changes) PROVE Stored'
  BY <1>1, <1>2, <1>5, Zenon DEF Preview
<1>6. CASE Ping
  BY <1>1, <1>3, <1>6, Zenon DEF Ping
<1>7. ASSUME NEW attr \in Settings, Set(attr) PROVE Stored'
  <2>1. attr \in (0..255) \X Seq(0..255) /\ Len(attr[2]) <= 28
    BY SettingsAssumption
  <2>2. IsList(attr[2]) /\ attr = <<attr[1], attr[2]>>
    BY <2>1 DEF IsList
  <2>3. IsCommand(<<attr>>)
    BY <2>1, <2>2, OneCommand
  <2>4. Pairs(<<attr>>)
    BY <1>4, <2>2, <2>3, Zenon
  <2> QED
    BY <1>1, <1>7, <2>4, Zenon DEF Set
<1>8. CASE WriteSection
  <2>1. PICK s \in app.todo : /\ app.pc = "write"
                              /\ Ask("writing", app.todo \ {s}, <<<<TagOf[s], Encode(s, app.changes[s])>>>>)
    BY <1>8, Zenon DEF WriteSection
  <2>2. PICK v : v = Encode(s, app.changes[s])
    OBVIOUS
  <2>3. IsList(v) /\ Len(v) <= 28
    BY <2>1, <2>2 DEF AppOk, Encodable
  <2>4. PICK attr : attr = <<TagOf[s], v>>
    OBVIOUS
  <2>5. attr[2] = v
    BY <2>4
  <2>6. IsCommand(<<attr>>)
    BY <2>3, <2>5, OneCommand
  <2>7. Pairs(<<attr>>)
    BY <1>4, <2>4, <2>6, Zenon
  <2>8. Ask("writing", app.todo \ {s}, <<attr>>)
    BY <2>1, <2>2, <2>4, Zenon
  <2> QED
    BY <1>1, <2>7, <2>8, Zenon
<1>9. CASE Verify
  BY <1>1, <1>2, <1>9, Zenon DEF Verify
<1>10. CASE Apply
  BY <1>1, <1>2, <1>10, Zenon DEF Apply
<1>11. CASE TimeOut \/ Done
  <2>1. UNCHANGED <<tags, learn, due, up, sent>>
    BY <1>11, Zenon DEF TimeOut, Done
  <2> QED
    BY <2>1 DEF Stored
<1> QED
  BY <1>5, <1>6, <1>7, <1>8, <1>9, <1>10, <1>11, Zenon DEF AppNext

\* What is so in every state, of the values the sensor holds too.
StoredFlows == Flows /\ (~left.lost => Stored)

\* While nothing is lost, every step stores only what was sent, learned or there before.
LEMMA StoredStep ==
  ASSUME StoredFlows, [Next]_vars
  PROVE  StoredFlows'
<1>1. Flows /\ Flows'
  BY FlowsStep DEF StoredFlows
<1>2. ~left'.lost => ~left.lost /\ ~LoseUp /\ ~LoseDown
  BY <1>1, LeftStep DEF Flows
<1>3. ASSUME LinkOk, Stored, ~LoseUp, ~LoseDown PROVE Stored'
  <2>1. CASE AppNext
    BY <1>1, <1>3, <2>1, AppNextStored DEF Flows
  <2>2. CASE DeliverDown \/ LiveTick \/ Accept \/ UNCHANGED vars
    <3>1. UNCHANGED <<tags, learn, due, sent, up>>
      BY <2>2, Zenon DEF DeliverDown, LiveTick, Accept, vars
    <3> QED
      BY <1>3, <3>1 DEF Stored
  <2>3. CASE LinkLost
    BY <1>3, <2>3, LinkLostStored
  <2>4. ASSUME NEW refuse, DeliverUp(refuse) PROVE Stored'
    BY <1>3, <2>4, DeliverUpStored
  <2>5. CASE Land
    BY <1>3, <2>5, LandStored
  <2>6. CASE LearnTick
    BY <1>3, <2>6, LearnTickStored
  <2> QED
    BY <1>3, <2>1, <2>2, <2>3, <2>4, <2>5, <2>6, Zenon DEF Next
<1>4. ~left.lost => LinkOk /\ Stored
  BY <1>1, Zenon DEF Flows, StoredFlows
<1>5. ~left'.lost => Stored'
  BY <1>2, <1>3, <1>4, Zenon
<1> QED
  BY <1>1, <1>5, Zenon DEF StoredFlows

\* The first state.
LEMMA StoredInit ==
  ASSUME Init
  PROVE  StoredFlows
<1>1. tags = InitTags /\ due = <<>> /\ up = Quiet /\ learn = NoLearning
  BY DEF Init
<1>2. TagsKept(InitTags, sent)
  <2>1. 52 \in DOMAIN InitTags /\ Len(InitTags[52]) = 1 /\ IsList(InitTags[52])
    BY TagsAssumption DEF IsValue, IsList
  <2>2. InitTags[52] = <<InitTags[52][1]>>
    BY <2>1, OneValue
  <2> QED
    BY <2>2, Zenon DEF TagsKept, Kept
<1>3. DueKept(<<>>, sent)
  <2>1. Len(<<>>) = 0
    OBVIOUS
  <2> QED
    BY <2>1 DEF DueKept
<1>4. LearnKept(NoLearning, sent)
  BY DEF LearnKept, NoLearning
<1>5. UpOwn(Quiet, sent)
  <2>1. Len(Quiet.air) = 0
    BY DEF Quiet
  <2> QED
    BY <2>1 DEF UpOwn
<1> QED
  BY <1>1, <1>2, <1>3, <1>4, <1>5, FlowsInit, Zenon DEF Stored, StoredFlows

\* On a link that loses nothing every attribute holds a value that was written
\* as a whole, was there from the start or was learned to the end, whatever
\* writes are refused, whenever the link ends and whatever is being learned.
THEOREM StoredWithoutLoss == Spec => [](~left.lost => StoredWasSent)
<1>1. StoredFlows => (~left.lost => StoredWasSent)
  BY Zenon DEF StoredFlows, Stored, TagsKept, Kept, StoredWasSent
<1>2. Init => StoredFlows
  BY StoredInit
<1>3. StoredFlows /\ [Next]_vars => StoredFlows'
  BY StoredStep
<1> QED
  BY <1>1, <1>2, <1>3, PTL DEF Spec
=============================================================================
