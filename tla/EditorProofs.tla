---------------------------- MODULE EditorProofs ----------------------------
(***************************************************************************)
(* The editor keeps its counts, its screen and its undo ring, for every    *)
(* text, every size of the ring and of the screen, and every sequence of   *)
(* keys.                                                                   *)
(***************************************************************************)
EXTENDS EditorInvariants, SequenceTheorems, FiniteSetTheorems, TLAPS

-----------------------------------------------------------------------------

\* A set of numbers that has no least element is empty.
LEMMA NoLeast ==
    ASSUME NEW S \in SUBSET Nat, \A x \in S : \E y \in S : y < x
    PROVE  S = {}
<1> SUFFICES ASSUME S # {} PROVE FALSE
  OBVIOUS
<1>1. PICK x \in S : \A y \in S : ~(<<y, x>> \in OpToRel(<, Nat))
  BY NatLessThanWellFounded, WFMin
<1>2. PICK y \in S : y < x
  OBVIOUS
<1>3. QED BY <1>1, <1>2 DEF OpToRel

\* What holds at first and stays holds at each step; T has what may be there
\* at each step.
LEMMA Stepwise ==
    ASSUME NEW L \in Nat, NEW f, NEW T, f[0] \in T[0],
           \A n \in 1..L : f[n - 1] \in T[n - 1] => f[n] \in T[n]
    PROVE  \A n \in 0..L : f[n] \in T[n]
<1> DEFINE S == {n \in 0..L : f[n] \notin T[n]}
<1>1. ASSUME NEW n \in S PROVE \E m \in S : m < n
  <2>1. n \in 1..L
    OBVIOUS
  <2>2. n - 1 \in 0..L /\ n - 1 < n
    BY <2>1
  <2>3. f[n - 1] \notin T[n - 1]
    BY <2>1
  <2>4. QED BY <2>2, <2>3
<1>2. S \in SUBSET Nat
  OBVIOUS
<1> HIDE DEF S
<1>3. S = {}
  BY <1>1, <1>2, NoLeast
<1>4. QED BY <1>3 DEF S

\* What is built up step by step exists.
LEMMA Iterates ==
    ASSUME NEW L \in Nat, NEW X, NEW base \in X, NEW F \in [X \X Nat -> X]
    PROVE  Runs(L, X, base, F) # {}
<1> DEFINE Built(k, g) == g = [n \in 0..k |-> IF n = 0 THEN base
                                              ELSE F[<<g[n - 1], n>>]]
           S == {k \in Nat : ~\E g \in [0..k -> X] : Built(k, g)}
<1>1. ASSUME NEW k \in S PROVE \E m \in S : m < k
  <2>1. CASE k = 0
    <3>1. PICK g \in [0..0 -> X] : g = [n \in 0..0 |-> base]
      OBVIOUS
    <3>2. \A n \in 0..0 : n = 0
      OBVIOUS
    <3>3. Built(0, g)
      BY <3>1, <3>2
    <3>4. QED BY <2>1, <3>3
  <2>2. CASE k > 0
    <3>1. k - 1 \in Nat /\ k - 1 < k /\ k \in Nat
      BY <2>2
    <3>2. SUFFICES ASSUME k - 1 \notin S PROVE FALSE
      BY <3>1
    <3>3. PICK g \in [0..(k - 1) -> X] : Built(k - 1, g)
      BY <3>1, <3>2
    <3>4. \A n \in 0..(k - 1) : g[n] = IF n = 0 THEN base ELSE F[<<g[n - 1], n>>]
      BY <3>3
    <3> DEFINE h == [n \in 0..k |-> IF n = k THEN F[<<g[k - 1], k>>] ELSE g[n]]
    <3>5. k - 1 \in 0..(k - 1) /\ g[k - 1] \in X
      BY <3>1
    <3>6. F[<<g[k - 1], k>>] \in X
      BY <3>5, <3>1
    <3>7. \A n \in 0..k : n # k => n \in 0..(k - 1)
      BY <3>1
    <3>8. h \in [0..k -> X]
      BY <3>6, <3>7
    <3>9. ASSUME NEW n \in 0..k
          PROVE  h[n] = IF n = 0 THEN base ELSE F[<<h[n - 1], n>>]
      <4>1. CASE n = k
        <5>1. n # 0 /\ n - 1 \in 0..k /\ n - 1 # k
          BY <4>1, <2>2, <3>1
        <5>2. QED BY <4>1, <5>1
      <4>2. CASE n # k
        <5>1. n \in 0..(k - 1)
          BY <4>2, <3>7
        <5>2. n # 0 => n - 1 \in 0..k /\ n - 1 # k
          BY <5>1, <3>1
        <5>3. QED BY <4>2, <5>1, <5>2, <3>4
      <4>3. QED BY <4>1, <4>2
    <3>10. Built(k, h)
      <4> HIDE DEF h
      <4>1. h = [n \in 0..k |-> h[n]]
        BY <3>8
      <4>2. QED BY <4>1, <3>9
    <3>11. QED BY <3>8, <3>10, <3>1
  <2>3. QED BY <2>1, <2>2
<1>2. S \in SUBSET Nat
  OBVIOUS
<1>3. S = {}
  <2> HIDE DEF S
  <2>1. QED BY <1>1, <1>2, NoLeast
<1>4. PICK g \in [0..L -> X] : Built(L, g)
  BY <1>3
<1>5. \A n \in 0..L : g[n] = IF n = 0 THEN base ELSE F[<<g[n - 1], n>>]
  BY <1>4
<1>6. 0 \in 0..L /\ \A n \in 1..L : n \in 0..L /\ n # 0
  OBVIOUS
<1>7. QED BY <1>5, <1>6 DEF Runs

(* The ring.                                                               *)

\* Offsets beyond the ends of the ring come in again at the other end.
LEMMA Around ==
    ASSUME NEW s \in Nat, s > 0, NEW i \in Int
    PROVE  /\ i % s \in 0..s - 1
           /\ i \in 0..s - 1 => i % s = i
           /\ i \in s..2 * s - 1 => i % s = i - s
           /\ i \in -s..-1 => i % s = i + s
OBVIOUS

\* A ring that has been enlarged.
LEMMA EnlargeFormed ==
    ASSUME NEW e, Formed(e)
    PROVE  /\ Formed(Enlarge(e)) /\ Pushed(e, Enlarge(e))
           /\ Enlarge(e).stored = e.stored /\ Enlarge(e).misled = e.misled
<1> DEFINE big == [i \in 0..2 * e.stack_size - 1 |->
                       IF i < e.stack_size THEN e.undo_stack[i] ELSE NoEntry]
<1>1. e \in Edits /\ Ring(e)
  BY DEF Formed
<1>2. NoEntry \in Entries
  BY DEF NoEntry, Entry, Entries, Ops
<1>3. e.stack_size \in Nat /\ 2 * e.stack_size \in Nat
  BY <1>1 DEF Edits
<1>4. big \in [0..2 * e.stack_size - 1 -> Entries]
  BY <1>1, <1>2, <1>3 DEF Ring
<1>5. big \in Stacks
  BY <1>4, <1>3 DEF Stacks
<1> HIDE DEF big
<1>6. CASE Enlarge(e) = e
  BY <1>6, <1>1 DEF Formed, Pushed, SameText, SameScreen, SameModes
<1>7. CASE Enlarge(e) = [e EXCEPT !.stack_size = 2 * @, !.undo_stack = big]
  <2> DEFINE f == [e EXCEPT !.stack_size = 2 * @, !.undo_stack = big]
  <2>1. f \in Edits
    BY <1>1, <1>5, <1>3 DEF Edits
  <2>2. /\ f.stack_size = 2 * e.stack_size /\ f.undo_stack = big
        /\ f.stack_pointer = e.stack_pointer /\ f.stack_bottom = e.stack_bottom
        /\ f.stored = e.stored /\ f.misled = e.misled
    BY <1>1 DEF Edits
  <2>3. Pushed(e, f)
    BY <1>1 DEF Pushed, SameText, SameScreen, SameModes, Edits
  <2> HIDE DEF f
  <2>4. /\ e.stack_size >= 5 /\ e.stack_pointer \in 0..e.stack_size - 1
        /\ e.stack_bottom \in 0..e.stack_size - 1
    BY <1>1 DEF Ring
  <2>5. Ring(f)
    BY <1>4, <1>3, <2>2, <2>4 DEF Ring
  <2>6. QED BY <1>7, <2>1, <2>2, <2>3, <2>5 DEF Formed, f
<1>8. QED BY <1>6, <1>7 DEF Enlarge, big

\* What Slot gives lies in the ring.
LEMMA SlotIn ==
    ASSUME NEW e, Formed(e), NEW i \in Int
    PROVE  /\ e.stack_size \in Nat /\ e.stack_size >= 5
           /\ e.stack_pointer \in 0..e.stack_size - 1
           /\ e.stack_bottom \in 0..e.stack_size - 1
           /\ Slot(e, i) \in 0..e.stack_size - 1
<1>1. /\ e.stack_size \in Nat /\ e.stack_size >= 5
      /\ e.stack_pointer \in 0..e.stack_size - 1
      /\ e.stack_bottom \in 0..e.stack_size - 1
  BY DEF Formed, Edits, Ring
<1>2. i % e.stack_size \in 0..e.stack_size - 1
  BY <1>1, Around
<1>3. QED BY <1>1, <1>2 DEF Slot

\* One step after another.
LEMMA KinChain ==
    ASSUME NEW e, NEW f, NEW g, Kin(e, f), Kin(f, g)
    PROVE  Kin(e, g)
BY DEF Kin, Pushed, SameText, SameScreen, SameModes

\* A ring is its own kin.
LEMMA KinSelf ==
    ASSUME NEW e, Formed(e)
    PROVE  Kin(e, e)
BY DEF Kin, Pushed, SameText, SameScreen, SameModes

\* The same ring elsewhere in its memory.
LEMMA WithBottomIs ==
    ASSUME NEW e, Formed(e), NEW b \in 0..e.stack_size - 1
    PROVE  LET f == WithBottom(e, b)
           IN  /\ Kin(e, f)
               /\ f.undo_stack = e.undo_stack /\ f.stack_size = e.stack_size
               /\ f.stack_pointer = e.stack_pointer /\ f.stack_bottom = b
               /\ f.stored = e.stored /\ f.misled = e.misled
<1> DEFINE f == WithBottom(e, b)
<1>1. e \in Edits /\ Ring(e)
  BY DEF Formed
<1>2. e.stack_size \in Nat /\ b \in Nat
  BY <1>1 DEF Edits
<1>3. f \in Edits
  BY <1>1, <1>2 DEF Edits, WithBottom
<1>4. /\ f.undo_stack = e.undo_stack /\ f.stack_size = e.stack_size
      /\ f.stack_pointer = e.stack_pointer /\ f.stack_bottom = b
      /\ f.stored = e.stored /\ f.misled = e.misled
  BY <1>1 DEF Edits, WithBottom
<1>5. Pushed(e, f)
  BY <1>1 DEF Pushed, SameText, SameScreen, SameModes, Edits, WithBottom
<1> HIDE DEF f
<1>6. Ring(f)
  BY <1>1, <1>4 DEF Ring
<1>7. QED BY <1>3, <1>4, <1>5, <1>6 DEF Kin, Formed, f

\* The same for its end.
LEMMA WithPointerIs ==
    ASSUME NEW e, Formed(e), NEW p \in 0..e.stack_size - 1
    PROVE  LET f == WithPointer(e, p)
           IN  /\ Kin(e, f)
               /\ f.undo_stack = e.undo_stack /\ f.stack_size = e.stack_size
               /\ f.stack_pointer = p /\ f.stack_bottom = e.stack_bottom
               /\ f.stored = e.stored /\ f.misled = e.misled
<1> DEFINE f == WithPointer(e, p)
<1>1. e \in Edits /\ Ring(e)
  BY DEF Formed
<1>2. e.stack_size \in Nat /\ p \in Nat
  BY <1>1 DEF Edits
<1>3. f \in Edits
  BY <1>1, <1>2 DEF Edits, WithPointer
<1>4. /\ f.undo_stack = e.undo_stack /\ f.stack_size = e.stack_size
      /\ f.stack_pointer = p /\ f.stack_bottom = e.stack_bottom
      /\ f.stored = e.stored /\ f.misled = e.misled
  BY <1>1 DEF Edits, WithPointer
<1>5. Pushed(e, f)
  BY <1>1 DEF Pushed, SameText, SameScreen, SameModes, Edits, WithPointer
<1> HIDE DEF f
<1>6. Ring(f)
  BY <1>1, <1>4 DEF Ring
<1>7. QED BY <1>3, <1>4, <1>5, <1>6 DEF Kin, Formed, f

\* The same, with a note that the ring was empty.
LEMMA WithPointerMisledIs ==
    ASSUME NEW e, Formed(e), NEW p \in 0..e.stack_size - 1, NEW m \in BOOLEAN,
           e.misled => m
    PROVE  LET f == WithPointerMisled(e, p, m)
           IN  /\ Kin(e, f)
               /\ f.undo_stack = e.undo_stack /\ f.stack_size = e.stack_size
               /\ f.stack_pointer = p /\ f.stack_bottom = e.stack_bottom
               /\ f.stored = e.stored /\ f.misled = m
<1> DEFINE f == WithPointerMisled(e, p, m)
<1>1. e \in Edits /\ Ring(e)
  BY DEF Formed
<1>2. e.stack_size \in Nat /\ p \in Nat
  BY <1>1 DEF Edits
<1>3. f \in Edits
  BY <1>1, <1>2 DEF Edits, WithPointerMisled
<1>4. /\ f.undo_stack = e.undo_stack /\ f.stack_size = e.stack_size
      /\ f.stack_pointer = p /\ f.stack_bottom = e.stack_bottom
      /\ f.stored = e.stored /\ f.misled = m
  BY <1>1 DEF Edits, WithPointerMisled
<1>5. Pushed(e, f)
  BY <1>1 DEF Pushed, SameText, SameScreen, SameModes, Edits, WithPointerMisled
<1> HIDE DEF f
<1>6. Ring(f)
  BY <1>1, <1>4 DEF Ring
<1>7. QED BY <1>3, <1>4, <1>5, <1>6 DEF Kin, Formed, f

\* Another count of a repeated command.
LEMMA WithCountIs ==
    ASSUME NEW e, Formed(e), NEW i \in 0..e.stack_size - 1, NEW n \in Int,
           e.undo_stack[i].op = "times"
    PROVE  LET f == WithCount(e, i, n)
           IN  /\ Kin(e, f)
               /\ f.undo_stack = [e.undo_stack EXCEPT ![i] = Entry(e.undo_stack[i].op, n)]
               /\ f.stack_size = e.stack_size
               /\ f.stack_pointer = e.stack_pointer /\ f.stack_bottom = e.stack_bottom
               /\ f.stored = e.stored /\ f.misled = e.misled
<1> DEFINE f == WithCount(e, i, n)
           s == [e.undo_stack EXCEPT ![i] = Entry(e.undo_stack[i].op, n)]
<1>1. e \in Edits /\ Ring(e)
  BY DEF Formed
<1>2. e.stack_size \in Nat /\ e.undo_stack \in [0..e.stack_size - 1 -> Entries]
  BY <1>1 DEF Edits, Ring
<1>3. e.undo_stack[i] \in Entries
  BY <1>2
<1>4. [e.undo_stack[i] EXCEPT !.n = n] = Entry(e.undo_stack[i].op, n)
  BY <1>3 DEF Entries, Entry
<1>5. Entry(e.undo_stack[i].op, n) \in Entries
  BY <1>3 DEF Entries, Entry
<1>6. s \in [0..e.stack_size - 1 -> Entries]
  BY <1>2, <1>5
<1>7. s \in Stacks
  BY <1>2, <1>6 DEF Stacks
<1>8. f = [e EXCEPT !.undo_stack = s]
  BY <1>4 DEF WithCount
<1> HIDE DEF s
<1>9. f \in Edits
  BY <1>1, <1>7, <1>8 DEF Edits
<1>10. /\ f.undo_stack = s /\ f.stack_size = e.stack_size
       /\ f.stack_pointer = e.stack_pointer /\ f.stack_bottom = e.stack_bottom
       /\ f.stored = e.stored /\ f.misled = e.misled
  BY <1>1, <1>8 DEF Edits
<1>11. Pushed(e, f)
  BY <1>1, <1>8 DEF Pushed, SameText, SameScreen, SameModes, Edits
<1> HIDE DEF f
<1>12. Ring(f)
  BY <1>1, <1>6, <1>10 DEF Ring
<1>13. QED BY <1>9, <1>10, <1>11, <1>12 DEF Kin, Formed, f, s

\* One entry more.
LEMMA WithEntryIs ==
    ASSUME NEW e, Formed(e), NEW c \in Entries, NEW p \in 0..e.stack_size - 1
    PROVE  LET f == WithEntry(e, c, p)
           IN  /\ Kin(e, f)
               /\ f.undo_stack = [e.undo_stack EXCEPT ![e.stack_pointer] = c]
               /\ f.stack_size = e.stack_size
               /\ f.stack_pointer = p /\ f.stack_bottom = e.stack_bottom
               /\ f.stored = e.stored + 1 /\ f.misled = e.misled
<1> DEFINE f == WithEntry(e, c, p)
           s == [e.undo_stack EXCEPT ![e.stack_pointer] = c]
<1>1. e \in Edits /\ Ring(e)
  BY DEF Formed
<1>2. e.stack_size \in Nat /\ e.undo_stack \in [0..e.stack_size - 1 -> Entries]
  BY <1>1 DEF Edits, Ring
<1>3. p \in Nat /\ e.stored + 1 \in Nat
  BY <1>1, <1>2 DEF Edits
<1>6. s \in [0..e.stack_size - 1 -> Entries]
  BY <1>2
<1>7. s \in Stacks
  BY <1>2, <1>6 DEF Stacks
<1>8. f = [e EXCEPT !.undo_stack = s, !.stack_pointer = p, !.stored = e.stored + 1]
  BY DEF WithEntry
<1> HIDE DEF s
<1>9. f \in Edits
  BY <1>1, <1>3, <1>7, <1>8 DEF Edits
<1>10. /\ f.undo_stack = s /\ f.stack_size = e.stack_size
       /\ f.stack_pointer = p /\ f.stack_bottom = e.stack_bottom
       /\ f.stored = e.stored + 1 /\ f.misled = e.misled
  BY <1>1, <1>8 DEF Edits
<1>11. Pushed(e, f)
  BY <1>1, <1>8 DEF Pushed, SameText, SameScreen, SameModes, Edits
<1> HIDE DEF f
<1>12. Ring(f)
  BY <1>1, <1>6, <1>10 DEF Ring
<1>13. QED BY <1>9, <1>10, <1>11, <1>12 DEF Kin, Formed, f, s

\* The least of some numbers.
LEMMA MinIs ==
    ASSUME NEW S \in SUBSET Nat, S # {}
    PROVE  Min(S) \in S /\ \A x \in S : Min(S) <= x
<1>1. \E x \in S : \A y \in S : x <= y
  <2>1. SUFFICES ASSUME \A x \in S : \E y \in S : ~(x <= y) PROVE FALSE
    OBVIOUS
  <2>2. \A x \in S : \E y \in S : y < x
    BY <2>1
  <2>3. QED BY <2>2, NoLeast
<1>2. QED BY <1>1 DEF Min

\* How the places lie to each other.
LEMMA Places ==
    ASSUME NEW e, Formed(e)
    PROVE  /\ e.stack_size \in Nat /\ e.stack_size >= 5
           /\ Depth(e) \in 0..e.stack_size - 1
           /\ \A j \in Int : At(e, j) \in 0..e.stack_size - 1
           /\ \A i, j \in 0..e.stack_size - 1 : At(e, i) = At(e, j) => i = j
           /\ At(e, Depth(e)) = e.stack_pointer
           /\ At(e, e.stack_size) = e.stack_bottom /\ At(e, 0) = e.stack_bottom
           /\ IsEmpty(e) <=> Depth(e) = 0
           /\ Slot(e, e.stack_pointer - 1) =
                 At(e, IF Depth(e) = 0 THEN e.stack_size - 1 ELSE Depth(e) - 1)
           /\ Depth(e) >= 2 => Slot(e, e.stack_pointer - 2) = At(e, Depth(e) - 2)
           /\ Slot(e, e.stack_pointer - 2) = e.stack_bottom <=> Depth(e) = 2
           /\ Slot(e, e.stack_pointer - 1) = e.stack_bottom <=> Depth(e) = 1
<1> DEFINE s == e.stack_size  b == e.stack_bottom  p == e.stack_pointer
<1>1. s \in Nat /\ s >= 5 /\ p \in 0..s - 1 /\ b \in 0..s - 1
  BY SlotIn
<1>2. \A i \in Int : /\ Slot(e, i) \in 0..s - 1
                     /\ i \in 0..s - 1 => Slot(e, i) = i
                     /\ i \in s..2 * s - 1 => Slot(e, i) = i - s
                     /\ i \in -s..-1 => Slot(e, i) = i + s
  BY <1>1, Around DEF Slot
<1> HIDE DEF s, b, p
<1>3. Depth(e) = IF b <= p THEN p - b ELSE p - b + s
  BY <1>1, <1>2 DEF Depth, s, b, p
<1>4. \A j \in 0..s - 1 : At(e, j) = IF b + j < s THEN b + j ELSE b + j - s
  BY <1>1, <1>2 DEF At, s, b, p
<1>5. At(e, s) = b
  BY <1>1, <1>2 DEF At, s, b, p
<1>6. \A j \in Int : At(e, j) \in 0..s - 1
  BY <1>1, <1>2 DEF At, s, b, p
<1>7. Slot(e, p - 1) = IF p = 0 THEN s - 1 ELSE p - 1
  BY <1>1, <1>2
<1>8. Slot(e, p - 2) = IF p < 2 THEN p - 2 + s ELSE p - 2
  BY <1>1, <1>2
<1>9. \A i, j \in 0..s - 1 : At(e, i) = At(e, j) => i = j
  BY <1>1, <1>4
<1>10. At(e, Depth(e)) = p /\ At(e, 0) = b
  BY <1>1, <1>3, <1>4
<1>11. p = b <=> Depth(e) = 0
  BY <1>1, <1>3
<1>12. Slot(e, p - 1) = At(e, IF Depth(e) = 0 THEN s - 1 ELSE Depth(e) - 1)
  BY <1>1, <1>3, <1>4, <1>7
<1>13. Depth(e) >= 2 => Slot(e, p - 2) = At(e, Depth(e) - 2)
  BY <1>1, <1>3, <1>4, <1>8
<1>14. Slot(e, p - 2) = b <=> Depth(e) = 2
  BY <1>1, <1>3, <1>8
<1>15. Slot(e, p - 1) = b <=> Depth(e) = 1
  BY <1>1, <1>3, <1>7
<1>16. Depth(e) \in 0..s - 1
  BY <1>1, <1>3
<1>17. QED BY <1>1, <1>5, <1>6, <1>9, <1>10, <1>11, <1>12, <1>13, <1>14, <1>15, <1>16
  DEF IsEmpty, s, b, p

\* A new entry lies on top of the others.
LEMMA StoredIs ==
    ASSUME NEW e, Formed(e), NEW c \in Entries, Depth(e) <= e.stack_size - 2
    PROVE  LET f == Stored(e, c)
           IN  /\ Kin(e, f) /\ f.stack_size = e.stack_size
               /\ f.stored = e.stored + 1 /\ f.misled = e.misled
               /\ f.stack_bottom = e.stack_bottom
               /\ Depth(f) = Depth(e) + 1
               /\ \A j \in 0..Depth(e) - 1 : Item(f, j) = Item(e, j)
               /\ Item(f, Depth(e)) = c
<1> DEFINE f == Stored(e, c)
           p == Slot(e, e.stack_pointer + 1)
<1>1. /\ e.stack_size \in Nat /\ e.stack_size >= 5
      /\ e.stack_pointer \in 0..e.stack_size - 1
      /\ e.stack_bottom \in 0..e.stack_size - 1
      /\ Depth(e) \in 0..e.stack_size - 1
      /\ p \in 0..e.stack_size - 1
  BY SlotIn, Places
<1>2. f = WithEntry(e, c, p)
  BY DEF Stored, WithEntry
<1>3. /\ Kin(e, f)
      /\ f.undo_stack = [e.undo_stack EXCEPT ![e.stack_pointer] = c]
      /\ f.stack_size = e.stack_size
      /\ f.stack_pointer = p /\ f.stack_bottom = e.stack_bottom
      /\ f.stored = e.stored + 1 /\ f.misled = e.misled
  BY <1>1, <1>2, WithEntryIs
<1> HIDE DEF f
<1>4. Depth(f) = Depth(e) + 1
  <2>1. \A i \in Int : /\ i \in 0..e.stack_size - 1 => Slot(e, i) = i
                       /\ i \in e.stack_size..2 * e.stack_size - 1 => Slot(e, i) = i - e.stack_size
                       /\ i \in -e.stack_size..-1 => Slot(e, i) = i + e.stack_size
    BY <1>1, Around DEF Slot
  <2>2. Depth(f) = Slot(e, p - e.stack_bottom)
    BY <1>3 DEF Depth, Slot
  <2>3. Depth(e) = Slot(e, e.stack_pointer - e.stack_bottom)
    BY DEF Depth
  <2>4. QED BY <1>1, <2>1, <2>2, <2>3
<1>5. \A j : At(f, j) = At(e, j)
  BY <1>3 DEF At, Slot
<1>6. /\ \A i, j \in 0..e.stack_size - 1 : At(e, i) = At(e, j) => i = j
      /\ At(e, Depth(e)) = e.stack_pointer
      /\ \A j \in Int : At(e, j) \in 0..e.stack_size - 1
  BY Places
<1>7. e.undo_stack \in [0..e.stack_size - 1 -> Entries]
  BY DEF Formed, Ring
<1>8. Item(f, Depth(e)) = c
  <2>1. At(f, Depth(e)) = e.stack_pointer
    BY <1>5, <1>6
  <2>2. f.undo_stack[e.stack_pointer] = c
    BY <1>1, <1>3, <1>7
  <2>3. QED BY <2>1, <2>2 DEF Item
<1>9. ASSUME NEW j \in 0..Depth(e) - 1 PROVE Item(f, j) = Item(e, j)
  <2>1. j \in 0..e.stack_size - 1 /\ j # Depth(e)
    BY <1>1
  <2>2. At(e, j) # e.stack_pointer /\ At(e, j) \in 0..e.stack_size - 1
    BY <2>1, <1>1, <1>6
  <2>3. QED BY <2>2, <1>3, <1>5, <1>7 DEF Item
<1>10. QED BY <1>3, <1>4, <1>8, <1>9 DEF f

\* Wherever the pointer is, what is stored is stored in the ring.
LEMMA StoredKin ==
    ASSUME NEW e, Formed(e), NEW c \in Entries
    PROVE  Kin(e, Stored(e, c))
<1>1. Slot(e, e.stack_pointer + 1) \in 0..e.stack_size - 1
  <2>1. e.stack_pointer + 1 \in Int
    BY DEF Formed, Edits
  <2>2. QED BY <2>1, SlotIn
<1> DEFINE p == Slot(e, e.stack_pointer + 1)
<1>2. Stored(e, c) = WithEntry(e, c, p)
  BY DEF Stored, WithEntry
<1> HIDE DEF p
<1>3. p \in 0..e.stack_size - 1
  BY <1>1 DEF p
<1>4. Kin(e, WithEntry(e, c, p))
  BY <1>3, WithEntryIs
<1>5. QED BY <1>2, <1>4

\* The bottom moves up to a key or to the end of the ring.
LEMMA ForgetKeyIs ==
    ASSUME NEW e, Formed(e)
    PROVE  LET f == ForgetKey(e)
           IN  /\ Kin(e, f) /\ f.stack_size = e.stack_size
               /\ f.stored = e.stored /\ f.misled = e.misled
               /\ Depth(e) > 0 =>
                  \E m \in 1..Depth(e) :
                     /\ Depth(f) = Depth(e) - m
                     /\ \A j \in 0..Depth(f) - 1 : Item(f, j) = Item(e, j + m)
                     /\ m < Depth(e) => IsKey(Item(e, m))
                     /\ \A i \in 1..m - 1 : ~IsKey(Item(e, i))
<1> DEFINE f == ForgetKey(e)
           Steps == {i \in 1..e.stack_size :
                        \/ IsKey(e.undo_stack[Slot(e, e.stack_bottom + i)])
                        \/ Slot(e, e.stack_bottom + i) = e.stack_pointer}
           m == Min(Steps)
           b == Slot(e, e.stack_bottom + m)
<1>1. /\ e.stack_size \in Nat /\ e.stack_size >= 5
      /\ e.stack_pointer \in 0..e.stack_size - 1
      /\ e.stack_bottom \in 0..e.stack_size - 1
      /\ Depth(e) \in 0..e.stack_size - 1
  BY SlotIn, Places
<1>2. /\ At(e, Depth(e)) = e.stack_pointer /\ At(e, e.stack_size) = e.stack_bottom
      /\ IsEmpty(e) <=> Depth(e) = 0
      /\ \A i, j \in 0..e.stack_size - 1 : At(e, i) = At(e, j) => i = j
      /\ \A j \in Int : At(e, j) \in 0..e.stack_size - 1
  BY Places
<1>3. (IF Depth(e) = 0 THEN e.stack_size ELSE Depth(e)) \in Steps
  BY <1>1, <1>2 DEF At, IsEmpty
<1>4. Steps \in SUBSET Nat
  OBVIOUS
<1>5. m \in Steps /\ \A i \in Steps : m <= i
  <2> HIDE DEF Steps
  <2>1. QED BY <1>3, <1>4, MinIs
<1>6. m \in 1..e.stack_size /\ b \in 0..e.stack_size - 1
  <2>1. m \in 1..e.stack_size
    BY <1>5
  <2>2. e.stack_bottom + m \in Int
    BY <2>1, <1>1
  <2>3. QED BY <2>1, <2>2, SlotIn
<1>7. f = WithBottom(e, b)
  BY DEF ForgetKey, WithBottom
<1>8. /\ Kin(e, f)
      /\ f.undo_stack = e.undo_stack /\ f.stack_size = e.stack_size
      /\ f.stack_pointer = e.stack_pointer /\ f.stack_bottom = b
      /\ f.stored = e.stored /\ f.misled = e.misled
  BY <1>6, <1>7, WithBottomIs
<1>9. ASSUME Depth(e) > 0
      PROVE  \E k \in 1..Depth(e) :
                /\ Depth(f) = Depth(e) - k
                /\ \A j \in 0..Depth(f) - 1 : Item(f, j) = Item(e, j + k)
                /\ k < Depth(e) => IsKey(Item(e, k))
                /\ \A i \in 1..k - 1 : ~IsKey(Item(e, i))
  <2>1. m \in 1..Depth(e)
    BY <1>1, <1>3, <1>5, <1>9
  <2>2. m < Depth(e) => IsKey(Item(e, m))
    <3>1. SUFFICES ASSUME m < Depth(e), ~IsKey(Item(e, m)) PROVE FALSE
      OBVIOUS
    <3>2. At(e, m) = e.stack_pointer
      BY <3>1, <1>5 DEF Item, At
    <3>3. m = Depth(e)
      <4> HIDE DEF m
      <4>1. QED BY <2>1, <3>2, <1>1, <1>2
    <3>4. QED BY <3>1, <3>3, <1>1
  <2>3. ASSUME NEW i \in 1..m - 1 PROVE ~IsKey(Item(e, i))
    <3>1. i \notin Steps
      BY <1>5, <1>6, <1>4
    <3>2. i \in 1..e.stack_size
      BY <1>6, <1>1
    <3>3. QED BY <3>1, <3>2 DEF Item, At
  <2> HIDE DEF Steps, m
  <2>4. \A i \in Int : /\ i \in 0..e.stack_size - 1 => Slot(e, i) = i
                       /\ i \in e.stack_size..2 * e.stack_size - 1 => Slot(e, i) = i - e.stack_size
                       /\ i \in -e.stack_size..-1 => Slot(e, i) = i + e.stack_size
    BY SMTT(40), <1>1, Around DEF Slot
  <2>5. Depth(f) = Depth(e) - m
    <3>1. Depth(f) = Slot(e, e.stack_pointer - b)
      BY <1>8 DEF Depth, Slot
    <3>2. Depth(e) = Slot(e, e.stack_pointer - e.stack_bottom)
      BY DEF Depth
    <3>3. m \in 1..e.stack_size - 1
      BY <2>1, <1>1
    <3>4. QED BY <1>1, <2>1, <2>4, <3>1, <3>2, <3>3
  <2>6. ASSUME NEW j \in 0..Depth(f) - 1 PROVE Item(f, j) = Item(e, j + m)
    <3>1. j \in 0..e.stack_size - 1 /\ m \in 1..e.stack_size - 1 /\ j + m \in 0..e.stack_size - 1
      BY <2>1, <2>5, <1>1
    <3>2. At(f, j) = Slot(e, b + j)
      BY <1>8 DEF At, Slot
    <3>3. Slot(e, b + j) = Slot(e, e.stack_bottom + (j + m))
      BY <1>1, <2>4, <3>1
    <3>4. QED BY <3>2, <3>3, <1>8 DEF Item, At
  <2>7. QED BY <2>1, <2>2, <2>3, <2>5, <2>6
<1>10. QED BY <1>8, <1>9 DEF f

\* A ring whose first entry is no key starts anew.
LEMMA EmptyIs ==
    ASSUME NEW e, Formed(e)
    PROVE  LET f == EmptyUnlessKey(e)
           IN  /\ Kin(e, f) /\ f.stack_size = e.stack_size
               /\ f.stored = e.stored /\ f.misled = e.misled
               /\ Depth(e) = 0 \/ IsKey(Item(e, 0)) => f = e
               /\ ~(Depth(e) = 0 \/ IsKey(Item(e, 0))) =>
                  Depth(f) = 0 /\ f.stack_bottom = 0
<1> DEFINE f == EmptyUnlessKey(e)
<1>1. /\ e.stack_size \in Nat /\ e.stack_size >= 5
      /\ IsEmpty(e) <=> Depth(e) = 0
      /\ At(e, 0) = e.stack_bottom
  BY Places
<1>2. CASE Depth(e) = 0 \/ IsKey(Item(e, 0))
  <2>1. f = e
    BY <1>1, <1>2 DEF EmptyUnlessKey, Item
  <2>2. QED BY <2>1, <1>2, KinSelf
<1>3. CASE ~(Depth(e) = 0 \/ IsKey(Item(e, 0)))
  <2> DEFINE g == WithBottom(e, 0)
  <2>1. f = WithPointer(g, 0)
    BY <1>1, <1>3 DEF EmptyUnlessKey, Item, WithBottom, WithPointer
  <2>2. 0 \in 0..e.stack_size - 1
    BY <1>1
  <2>3. /\ Kin(e, g) /\ g.stack_size = e.stack_size /\ g.stack_bottom = 0
        /\ g.stored = e.stored /\ g.misled = e.misled
    BY <2>2, WithBottomIs
  <2> HIDE DEF g
  <2>4. Formed(g) /\ 0 \in 0..g.stack_size - 1
    BY <2>2, <2>3 DEF Kin
  <2>5. /\ Kin(g, f) /\ f.stack_size = g.stack_size /\ f.stack_pointer = 0
        /\ f.stack_bottom = 0 /\ f.stored = g.stored /\ f.misled = g.misled
    BY <2>1, <2>3, <2>4, WithPointerIs
  <2> HIDE DEF f
  <2>6. Kin(e, f)
    BY <2>3, <2>5, KinChain
  <2>7. Depth(f) = 0
    <3>1. 0 % f.stack_size = 0
      BY <1>1, <2>3, <2>5, Around
    <3>2. QED BY <3>1, <2>5 DEF Depth, Slot
  <2>8. QED BY <1>3, <2>3, <2>5, <2>6, <2>7 DEF f
<1>4. QED BY <1>2, <1>3

\* Storing leaves everything but the ring alone.
LEMMA StoreKin ==
    ASSUME NEW e, Formed(e), NEW c \in Entries
    PROVE  Kin(e, Store(e, c))
<1> DEFINE f == Stored(e, c)  g == MakeRoom(f)
<1>1. Kin(e, f) /\ Formed(f)
  BY StoredKin DEF Kin
<1> HIDE DEF f
<1>2. Kin(f, g)
  BY <1>1, ForgetKeyIs, KinSelf DEF MakeRoom
<1>3. Formed(g)
  BY <1>2 DEF Kin
<1> HIDE DEF g
<1>4. Kin(g, EmptyUnlessKey(g))
  BY <1>3, EmptyIs
<1>5. Kin(e, g)
  BY <1>1, <1>2, KinChain
<1>6. Kin(e, EmptyUnlessKey(g))
  BY <1>4, <1>5, KinChain
<1>7. QED BY <1>6 DEF Store, f, g

\* The entries of the ring.
LEMMA TopIs ==
    ASSUME NEW e, Formed(e)
    PROVE  /\ Slot(e, e.stack_pointer - 1) \in 0..e.stack_size - 1
           /\ Slot(e, e.stack_pointer - 2) \in 0..e.stack_size - 1
           /\ Top(e) \in Entries /\ UnderTop(e) \in Entries
           /\ Depth(e) >= 1 => Top(e) = Item(e, Depth(e) - 1)
           /\ Depth(e) >= 2 => UnderTop(e) = Item(e, Depth(e) - 2)
<1>1. e.undo_stack \in [0..e.stack_size - 1 -> Entries]
  BY DEF Formed, Ring
<1>2. e.stack_pointer - 1 \in Int /\ e.stack_pointer - 2 \in Int
  BY DEF Formed, Edits
<1>3. /\ Slot(e, e.stack_pointer - 1) \in 0..e.stack_size - 1
      /\ Slot(e, e.stack_pointer - 2) \in 0..e.stack_size - 1
  BY <1>2, SlotIn
<1>4. Top(e) \in Entries /\ UnderTop(e) \in Entries
  BY <1>1, <1>3 DEF Top, UnderTop
<1>5. Depth(e) \in Int
  BY Places
<1>6. Depth(e) >= 1 => Top(e) = Item(e, Depth(e) - 1)
  <2>1. Slot(e, e.stack_pointer - 1) =
           At(e, IF Depth(e) = 0 THEN e.stack_size - 1 ELSE Depth(e) - 1)
    BY Places
  <2>2. Depth(e) >= 1 => Depth(e) # 0
    BY <1>5
  <2>3. QED BY <2>1, <2>2 DEF Top, Item
<1>7. Depth(e) >= 2 => UnderTop(e) = Item(e, Depth(e) - 2)
  BY Places DEF UnderTop, Item
<1>8. QED BY <1>3, <1>4, <1>6, <1>7

\* A move that leaves nothing.
LEMMA AnnihilateIs ==
    ASSUME NEW e, Formed(e)
    PROVE  LET f == Annihilate(e)
               top == Slot(e, e.stack_pointer - 1)
           IN  /\ Kin(e, f) /\ f.stack_size = e.stack_size
               /\ f.stored = e.stored /\ f.stack_bottom = e.stack_bottom
               /\ Repeated(e) /\ Top(e).n > 2 =>
                     /\ f = WithCount(e, top, Top(e).n - 1)
                     /\ f.misled = e.misled
               /\ ~(Repeated(e) /\ Top(e).n > 2) =>
                     /\ f.undo_stack = e.undo_stack /\ f.stack_pointer = top
                     /\ f.misled <=> e.misled \/ Depth(e) = 0
<1> DEFINE f == Annihilate(e)
           top == Slot(e, e.stack_pointer - 1)
<1>1. top \in 0..e.stack_size - 1 /\ Top(e) \in Entries /\ Top(e) = e.undo_stack[top]
  BY TopIs DEF Top
<1>2. Top(e).n \in Int
  BY <1>1 DEF Entries
<1>3. IsEmpty(e) <=> Depth(e) = 0
  BY Places
<1>4. CASE Repeated(e) /\ Top(e).n > 2
  <2>1. f = WithCount(e, top, Top(e).n - 1)
    BY <1>4, <1>1 DEF Annihilate, WithCount
  <2>2. Top(e).n - 1 \in Int
    BY <1>2
  <2>3. /\ Kin(e, f) /\ f.stack_size = e.stack_size
        /\ f.stored = e.stored /\ f.stack_bottom = e.stack_bottom
        /\ f.misled = e.misled
    <3> DEFINE k == Top(e).n - 1
    <3>1. k \in Int /\ f = WithCount(e, top, k) /\ e.undo_stack[top].op = "times"
      BY <1>1, <1>4, <2>1, <2>2 DEF Repeated
    <3> HIDE DEF k, f, top
    <3>2. QED BY <3>1, <1>1, WithCountIs
  <2>4. QED BY <1>4, <2>1, <2>3
<1>5. CASE ~(Repeated(e) /\ Top(e).n > 2)
  <2> DEFINE m == e.misled \/ IsEmpty(e)
  <2>1. f = WithPointerMisled(e, top, m)
    BY <1>5 DEF Annihilate, WithPointerMisled
  <2>2. m \in BOOLEAN /\ (e.misled => m)
    OBVIOUS
  <2> HIDE DEF m
  <2>3. /\ Kin(e, f) /\ f.undo_stack = e.undo_stack
        /\ f.stack_size = e.stack_size
        /\ f.stack_pointer = top /\ f.stack_bottom = e.stack_bottom
        /\ f.stored = e.stored /\ f.misled = m
    <3> HIDE DEF f, top
    <3>1. QED BY <1>1, <2>1, <2>2, WithPointerMisledIs
  <2>4. f.misled <=> e.misled \/ Depth(e) = 0
    BY <2>3, <1>3 DEF m
  <2>5. QED BY <1>5, <2>3, <2>4
<1>6. QED BY <1>4, <1>5

\* Whatever a push finds in the memory, it leaves everything but the ring
\* alone.
LEMMA PushKin ==
    ASSUME NEW e, Formed(e), NEW c \in Entries
    PROVE  Kin(e, edit_push_action(e, c))
<1> DEFINE f == Enlarge(e)
           top == Slot(f, f.stack_pointer - 1)
<1>1. Kin(e, f) /\ Formed(f)
  BY EnlargeFormed DEF Kin
<1> HIDE DEF f
<1>2. top \in 0..f.stack_size - 1 /\ Top(f) \in Entries /\ Top(f) = f.undo_stack[top]
  BY <1>1, TopIs DEF Top
<1>3. Kin(f, f)
  BY <1>1, KinSelf
<1>4. Repeated(f) => Kin(f, [f EXCEPT !.undo_stack[top].n = @ + 1])
  <2> SUFFICES ASSUME Repeated(f) PROVE Kin(f, [f EXCEPT !.undo_stack[top].n = @ + 1])
    OBVIOUS
  <2> DEFINE k == Top(f).n + 1
  <2>1. k \in Int
    BY <1>2 DEF Entries
  <2>2. [f EXCEPT !.undo_stack[top].n = @ + 1] = WithCount(f, top, k)
    BY <1>2 DEF WithCount
  <2>4. f.undo_stack[top].op = "times"
    BY <1>2 DEF Repeated
  <2> HIDE DEF k, top
  <2>3. Kin(f, WithCount(f, top, k))
    BY <1>1, <1>2, <2>1, <2>4, WithCountIs
  <2>5. QED BY <2>2, <2>3 DEF top
<1>5. Kin(f, Annihilate(f))
  BY <1>1, AnnihilateIs
<1>6. Entry("times", 2) \in Entries
  BY DEF Entry, Entries, Ops
<1>7. Kin(f, Store(f, c)) /\ Kin(f, Store(f, Entry("times", 2)))
  BY <1>1, <1>6, StoreKin
<1>8. Kin(f, PushOnto(f, c))
  BY <1>3, <1>4, <1>5, <1>7 DEF PushOnto, LastEntry
<1>9. Kin(f, edit_push_action(e, c))
  BY <1>3, <1>8 DEF edit_push_action, f
<1>10. QED BY <1>1, <1>9, KinChain

-----------------------------------------------------------------------------
(* Line feeds.                                                             *)

\* One byte further.
LEMMA FeedsStep ==
    ASSUME NEW t, NEW k \in Nat
    PROVE  /\ Feeds(t, k) \in Nat /\ Feeds(t, 0) = 0
           /\ Feeds(t, k + 1) = Feeds(t, k) + OneLine(t[k + 1])
<1> DEFINE S(n) == {i \in 0..n - 1 : t[i + 1] = NL}
<1>1. \A n \in Nat : IsFiniteSet(S(n))
  <2> SUFFICES ASSUME NEW n \in Nat PROVE IsFiniteSet(S(n))
    OBVIOUS
  <2>1. IsFiniteSet(0..n - 1) /\ S(n) \in SUBSET (0..n - 1)
    BY FS_Interval
  <2>2. QED BY <2>1, FS_Subset
<1>2. S(0) = {}
  OBVIOUS
<1>3. CASE t[k + 1] = NL
  <2>1. S(k + 1) = S(k) \cup {k} /\ k \notin S(k)
    BY <1>3
  <2>2. Cardinality(S(k + 1)) = Cardinality(S(k)) + 1
    <3> HIDE DEF S
    <3>1. QED BY <1>1, <2>1, FS_AddElement
  <2>3. OneLine(t[k + 1]) = 1
    BY <1>3 DEF OneLine, One
  <2>4. QED BY <1>1, <1>2, <2>2, <2>3, FS_CardinalityType, FS_EmptySet DEF Feeds
<1>4. CASE t[k + 1] # NL
  <2>1. S(k + 1) = S(k)
    BY <1>4
  <2>2. OneLine(t[k + 1]) = 0
    BY <1>4 DEF OneLine, One
  <2>3. Cardinality(S(k)) \in Nat
    BY <1>1, FS_CardinalityType
  <2>4. QED BY <1>2, <2>1, <2>2, <2>3, FS_EmptySet DEF Feeds
<1>5. QED BY <1>3, <1>4

\* Where two texts agree, they have the same line feeds.
LEMMA FeedsAgree ==
    ASSUME NEW t, NEW u, NEW k \in Nat, \A i \in 1..k : t[i] = u[i]
    PROVE  Feeds(t, k) = Feeds(u, k)
<1>1. \A i \in 0..k - 1 : i + 1 \in 1..k
  OBVIOUS
<1>2. {i \in 0..k - 1 : t[i + 1] = NL} = {i \in 0..k - 1 : u[i + 1] = NL}
  BY <1>1
<1>3. QED BY <1>2 DEF Feeds

\* Further on there are no fewer line feeds.
LEMMA FeedsGrow ==
    ASSUME NEW t, NEW j \in Nat, NEW k \in Nat, j <= k
    PROVE  Feeds(t, j) <= Feeds(t, k)
<1>1. IsFiniteSet({i \in 0..k - 1 : t[i + 1] = NL})
  <2>1. IsFiniteSet(0..k - 1)
    BY FS_Interval
  <2>2. QED BY <2>1, FS_Subset
<1>2. {i \in 0..j - 1 : t[i + 1] = NL} \in SUBSET {i \in 0..k - 1 : t[i + 1] = NL}
  OBVIOUS
<1>3. QED BY <1>1, <1>2, FS_Subset DEF Feeds

\* A byte that is inserted moves the line feeds behind it.
LEMMA FeedsInserted ==
    ASSUME NEW t, Len(t) \in Nat, NEW u, NEW p, NEW c, Inserted(t, u, p, c)
    PROVE  /\ \A k \in 0..p : Feeds(u, k) = Feeds(t, k)
           /\ \A k \in p..Len(t) : Feeds(u, k + 1) = Feeds(t, k) + OneLine(c)
<1>1. p \in 0..Len(t) /\ p \in Nat
  BY DEF Inserted
<1>2. ASSUME NEW k \in 0..p PROVE Feeds(u, k) = Feeds(t, k)
  <2>1. k \in Nat /\ \A i \in 1..k : u[i] = t[i]
    BY <1>1 DEF Inserted
  <2>2. QED BY <2>1, FeedsAgree
<1> DEFINE S == {k \in p..Len(t) : Feeds(u, k + 1) # Feeds(t, k) + OneLine(c)}
<1>3. ASSUME NEW k \in S PROVE \E m \in S : m < k
  <2>1. k \in p..Len(t) /\ k \in Nat /\ Feeds(u, k + 1) # Feeds(t, k) + OneLine(c)
    BY <1>1
  <2>2. k # p
    <3>1. Feeds(u, p + 1) = Feeds(u, p) + OneLine(u[p + 1])
      BY <1>1, FeedsStep
    <3>2. Feeds(u, p) = Feeds(t, p) /\ u[p + 1] = c
      BY <1>1, <1>2 DEF Inserted
    <3>3. QED BY <2>1, <3>1, <3>2
  <2>3. k - 1 \in p..Len(t) /\ k - 1 < k /\ k - 1 \in Nat /\ (k - 1) + 1 = k
    BY <1>1, <2>1, <2>2
  <2>4. Feeds(u, k + 1) = Feeds(u, k) + OneLine(u[k + 1])
    BY <2>1, FeedsStep
  <2>5. Feeds(t, k) = Feeds(t, k - 1) + OneLine(t[k]) /\ Feeds(t, k - 1) \in Nat
    BY <2>3, FeedsStep
  <2>6. u[k + 1] = t[k]
    BY <2>1, <2>2, <1>1 DEF Inserted
  <2>7. OneLine(c) \in Nat /\ OneLine(t[k]) \in Nat
    BY DEF OneLine, One
  <2>8. Feeds(u, (k - 1) + 1) # Feeds(t, k - 1) + OneLine(c)
    BY <2>1, <2>3, <2>4, <2>5, <2>6, <2>7
  <2>9. QED BY <2>3, <2>8
<1>4. S \in SUBSET Nat
  BY <1>1
<1>5. S = {}
  <2> HIDE DEF S
  <2>1. QED BY <1>3, <1>4, NoLeast
<1>6. QED BY <1>2, <1>5

\* What the assumption says of the constants.
LEMMA Bounds ==
    /\ NL \in Chars /\ \A c \in Chars : c \in Int
    /\ MaxText \in Nat /\ MaxUndo \in Nat /\ MaxKeys \in Nat
    /\ Lines \in Nat /\ Lines > 0
    /\ StartStack \in Nat /\ StackMargin \in Nat
    /\ StackMargin >= 5 /\ StartStack >= StackMargin
BY EditorAssumption

-----------------------------------------------------------------------------
(* The primitives.                                                         *)

\* The text and the cursor in it.
LEMMA TextIs ==
    ASSUME NEW e, Formed(e)
    PROVE  /\ e.before \in Seq(Chars) /\ e.after \in Seq(Chars) /\ Text(e) \in Seq(Chars)
           /\ Len(e.before) \in Nat /\ Len(e.after) \in Nat
           /\ Cursor(e) = Len(e.before) /\ LastByte(e) = Len(e.before) + Len(e.after)
           /\ Len(Text(e)) = LastByte(e)
           /\ Cursor(e) \in 0..LastByte(e) /\ Cursor(e) \in Nat /\ LastByte(e) \in Nat
           /\ \A i \in 1..LastByte(e) :
                 Text(e)[i] = IF i <= Len(e.before) THEN e.before[i]
                              ELSE e.after[i - Len(e.before)]
<1>1. e.before \in Seq(Chars) /\ e.after \in Seq(Chars)
  BY DEF Formed, Edits
<1>2. Len(e.before) \in Nat /\ Len(e.after) \in Nat
  BY <1>1, LenProperties
<1>3. /\ Text(e) \in Seq(Chars)
      /\ Len(Text(e)) = LastByte(e)
      /\ \A i \in 1..LastByte(e) :
            Text(e)[i] = IF i <= Len(e.before) THEN e.before[i]
                         ELSE e.after[i - Len(e.before)]
  BY <1>1, ConcatProperties DEF Text, LastByte
<1>4. Cursor(e) = Len(e.before) /\ LastByte(e) = Len(e.before) + Len(e.after)
  BY DEF Cursor, LastByte
<1>5. Cursor(e) \in 0..LastByte(e) /\ Cursor(e) \in Nat /\ LastByte(e) \in Nat
  <2>1. PICK b \in Nat, a \in Nat : b = Len(e.before) /\ a = Len(e.after)
    BY <1>2
  <2>2. Cursor(e) = b /\ LastByte(e) = b + a
    BY <1>4, <2>1
  <2>3. QED BY <2>2
<1>6. QED BY <1>1, <1>2, <1>3, <1>4, <1>5

\* What the screen does with a byte more or less.
LEMMA ShiftIs ==
    ASSUME NEW e, Formed(e), NEW c \in Chars, NEW d \in {1, -1}
    PROVE  LET f == ShiftDisplay(e, c, d)
           IN  /\ Formed(f) /\ SameRing(e, f) /\ SameText(e, f) /\ SameModes(e, f)
               /\ f.mark1 = e.mark1 /\ f.mark2 = e.mark2
               /\ Cursor(e) < e.start_display =>
                     /\ f.start_display = e.start_display + d
                     /\ f.start_line = e.start_line + d * OneLine(c)
               /\ ~(Cursor(e) < e.start_display) =>
                     /\ f.start_display = e.start_display
                     /\ f.start_line = e.start_line
<1>1. e \in Edits /\ Ring(e)
  BY DEF Formed
<1>2. CASE Cursor(e) < e.start_display
  <2> DEFINE a == e.start_display + d  b == e.start_line + d * OneLine(c)
             f == [e EXCEPT !.start_display = a, !.start_line = b]
  <2>1. ShiftDisplay(e, c, d) = f
    BY <1>2 DEF ShiftDisplay
  <2>2. a \in Int /\ b \in Int
    BY <1>1 DEF Edits, OneLine, One
  <2> HIDE DEF a, b
  <2>3. f \in Edits
    BY <1>1, <2>2 DEF Edits
  <2>4. /\ SameRing(e, f) /\ SameText(e, f) /\ SameModes(e, f)
        /\ f.mark1 = e.mark1 /\ f.mark2 = e.mark2
        /\ f.start_display = a /\ f.start_line = b
    BY <1>1 DEF Edits, SameRing, SameText, SameModes
  <2> HIDE DEF f
  <2>5. Ring(f)
    BY <1>1, <2>4 DEF Ring, SameRing
  <2>6. Formed(f)
    BY <2>3, <2>5 DEF Formed
  <2>7. QED BY <1>2, <2>1, <2>4, <2>6 DEF a, b
<1>3. CASE ~(Cursor(e) < e.start_display)
  <2>1. ShiftDisplay(e, c, d) = e
    BY <1>3 DEF ShiftDisplay
  <2>2. QED BY <1>3, <2>1 DEF SameRing, SameText, SameModes
<1>4. QED BY <1>2, <1>3

\* They are assigned, and no others.
LEMMA SetIs ==
    ASSUME NEW e, Formed(e), NEW b \in Seq(Chars), NEW a \in Seq(Chars),
           NEW cl \in Int, NEW tl \in Int, NEW m1 \in Int, NEW m2 \in Int
    PROVE  SetTo(e, Set(e, b, a, cl, tl, m1, m2), b, a, cl, tl, m1, m2)
<1> DEFINE f == Set(e, b, a, cl, tl, m1, m2)
<1>1. e \in Edits /\ Ring(e)
  BY DEF Formed
<1>2. f \in Edits
  BY <1>1 DEF Edits, Set
<1>3. /\ SameRing(e, f) /\ SameModes(e, f)
      /\ f.before = b /\ f.after = a
      /\ f.curs_line = cl /\ f.total_lines = tl
      /\ f.mark1 = m1 /\ f.mark2 = m2
      /\ f.start_display = e.start_display /\ f.start_line = e.start_line
  BY <1>1 DEF Edits, Set, SameRing, SameModes
<1> HIDE DEF f
<1>4. Ring(f)
  BY <1>1, <1>3 DEF Ring, SameRing
<1>5. SetTo(e, f, b, a, cl, tl, m1, m2)
  BY <1>2, <1>3, <1>4 DEF Formed, SetTo
<1>6. QED BY <1>5 DEF f

\* A push and what the screen did before it.
LEMMA ShiftAndPush ==
    ASSUME NEW e, Formed(e), NEW c \in Chars, NEW d \in Entries
    PROVE  LET h == edit_push_action(ShiftDisplay(e, c, 1), d)
           IN  /\ Formed(h) /\ SameText(e, h) /\ SameModes(e, h)
               /\ e.misled => h.misled
               /\ h.push_action_disabled = e.push_action_disabled
               /\ h.mark1 = e.mark1 /\ h.mark2 = e.mark2
               /\ Cursor(e) < e.start_display =>
                     /\ h.start_display = e.start_display + 1
                     /\ h.start_line = e.start_line + OneLine(c)
               /\ ~(Cursor(e) < e.start_display) =>
                     /\ h.start_display = e.start_display
                     /\ h.start_line = e.start_line
               /\ \A f : SameRing(h, f) => Via(e, d, f)
<1> DEFINE g == ShiftDisplay(e, c, 1)
           h == edit_push_action(g, d)
<1>1. /\ Formed(g) /\ SameRing(e, g) /\ SameText(e, g) /\ SameModes(e, g)
      /\ g.mark1 = e.mark1 /\ g.mark2 = e.mark2
      /\ Cursor(e) < e.start_display =>
            /\ g.start_display = e.start_display + 1
            /\ g.start_line = e.start_line + 1 * OneLine(c)
      /\ ~(Cursor(e) < e.start_display) =>
            /\ g.start_display = e.start_display
            /\ g.start_line = e.start_line
  BY ShiftIs
<1>2. 1 * OneLine(c) = OneLine(c)
  BY DEF OneLine, One
<1> HIDE DEF g
<1>3. Kin(g, h)
  BY <1>1, PushKin
<1>4. \A f : SameRing(h, f) => Via(e, d, f)
  BY <1>1 DEF Via
<1> HIDE DEF h
<1>5. QED
  <2>1. /\ Formed(h) /\ Pushed(g, h) /\ (g.misled => h.misled)
        /\ h.push_action_disabled = g.push_action_disabled
    BY <1>3 DEF Kin, Pushed
  <2>2. SameText(e, h) /\ SameModes(e, h)
    BY <1>1, <2>1 DEF Pushed, SameText, SameModes
  <2>3. /\ h.start_display = g.start_display /\ h.start_line = g.start_line
        /\ h.mark1 = g.mark1 /\ h.mark2 = g.mark2
    BY <2>1 DEF Pushed, SameScreen
  <2>4. g.misled = e.misled /\ g.push_action_disabled = e.push_action_disabled
    BY <1>1 DEF SameRing
  <2>5. QED BY <1>1, <1>2, <1>4, <2>1, <2>2, <2>3, <2>4 DEF h, g

\* What edit_insert does: a character before the cursor and its undo action.
LEMMA InsertIs ==
    ASSUME NEW e, Formed(e), NEW c \in Chars
    PROVE  LET f == edit_insert(e, c)
           IN  /\ Primitive(e, Entry("backspace", 0), f)
               /\ f.before = Append(e.before, c) /\ f.after = e.after
               /\ f.curs_line = e.curs_line + OneLine(c)
               /\ f.total_lines = e.total_lines + OneLine(c)
               /\ f.mark1 = e.mark1 + One(e.mark1 > Cursor(e))
               /\ f.mark2 = e.mark2 + One(e.mark2 > Cursor(e))
               /\ Screen(e, f, Cursor(e) < e.start_display, c, 1)
<1> DEFINE d == Entry("backspace", 0)
           h == edit_push_action(ShiftDisplay(e, c, 1), d)
           b == Append(h.before, c)
           cl == h.curs_line + OneLine(c)
           tl == h.total_lines + OneLine(c)
           m1 == h.mark1 + One(h.mark1 > Cursor(e))
           m2 == h.mark2 + One(h.mark2 > Cursor(e))
           f == [h EXCEPT !.before = b, !.curs_line = cl, !.total_lines = tl,
                          !.mark1 = m1, !.mark2 = m2]
<1>1. d \in Entries
  BY DEF Entry, Entries, Ops
<1>2. edit_insert(e, c) = f
  BY DEF edit_insert
<1> HIDE DEF d
<1>3. /\ Formed(h) /\ SameText(e, h) /\ SameModes(e, h)
      /\ e.misled => h.misled
      /\ h.push_action_disabled = e.push_action_disabled
      /\ h.mark1 = e.mark1 /\ h.mark2 = e.mark2
      /\ Cursor(e) < e.start_display =>
            /\ h.start_display = e.start_display + 1
            /\ h.start_line = e.start_line + OneLine(c)
      /\ ~(Cursor(e) < e.start_display) =>
            /\ h.start_display = e.start_display
            /\ h.start_line = e.start_line
  BY <1>1, ShiftAndPush
<1>4. \A x : SameRing(h, x) => Via(e, d, x)
  BY <1>1, ShiftAndPush
<1> HIDE DEF h
<1>5. /\ h.before \in Seq(Chars) /\ h.after \in Seq(Chars) /\ h \in Edits
      /\ b \in Seq(Chars) /\ cl \in Int /\ tl \in Int /\ m1 \in Int /\ m2 \in Int
  <2>1. h \in Edits
    BY <1>3 DEF Formed
  <2>2. /\ h.before \in Seq(Chars) /\ h.after \in Seq(Chars)
        /\ {h.curs_line, h.total_lines, h.mark1, h.mark2} \subseteq Int
    BY <2>1 DEF Edits
  <2>3. b \in Seq(Chars)
    BY <2>2, AppendProperties
  <2>4. cl \in Int /\ tl \in Int /\ m1 \in Int /\ m2 \in Int
    BY <2>2 DEF OneLine, One
  <2>5. QED BY <2>1, <2>2, <2>3, <2>4
<1> HIDE DEF b, cl, tl, m1, m2
<1>6. f = Set(h, b, h.after, cl, tl, m1, m2)
  BY <1>5 DEF Set, Edits
<1> HIDE DEF f
<1>7. /\ Formed(f) /\ SameRing(h, f) /\ SameModes(h, f)
      /\ f.before = b /\ f.after = h.after
      /\ f.curs_line = cl /\ f.total_lines = tl
      /\ f.mark1 = m1 /\ f.mark2 = m2
      /\ f.start_display = h.start_display /\ f.start_line = h.start_line
  <2>1. SetTo(h, Set(h, b, h.after, cl, tl, m1, m2), b, h.after, cl, tl, m1, m2)
    BY <1>3, <1>5, SetIs
  <2>2. QED BY <1>6, <2>1 DEF SetTo
<1>8. SameModes(e, f) /\ (e.misled => f.misled) /\ f.push_action_disabled = e.push_action_disabled
  BY <1>3, <1>7 DEF SameModes, SameRing
<1>9. Primitive(e, d, f)
  BY <1>4, <1>7, <1>8 DEF Primitive
<1>10. 1 * OneLine(c) = OneLine(c)
  BY DEF OneLine, One
<1>11. Screen(e, f, Cursor(e) < e.start_display, c, 1)
  BY <1>3, <1>7, <1>10 DEF Screen
<1>12. QED BY <1>2, <1>3, <1>7, <1>9, <1>11 DEF SameText, b, cl, tl, m1, m2, d

\* The last element of a sequence and the others.
LEMMA FrontIs ==
    ASSUME NEW S, NEW s \in Seq(S), s # <<>>
    PROVE  /\ Front(s) \in Seq(S) /\ Last(s) \in S
           /\ Len(Front(s)) = Len(s) - 1 /\ Len(s) \in Nat \ {0}
           /\ \A i \in 1..Len(s) - 1 : Front(s)[i] = s[i]
           /\ Last(s) = s[Len(s)]
<1>1. Len(s) \in Nat \ {0}
  BY EmptySeq
<1>2. \A i \in 1..Len(s) : s[i] \in S
  BY ElementOfSeq
<1>3. \A i \in 1..Len(s) - 1 : s[i] \in S
  BY <1>1, <1>2
<1>4. PICK n \in Nat \ {0} : n = Len(s)
  BY <1>1
<1>5. /\ SubSeq(s, 1, n - 1) \in Seq(S)
      /\ Len(SubSeq(s, 1, n - 1)) = IF 1 <= n - 1 THEN (n - 1) - 1 + 1 ELSE 0
      /\ \A i \in 1..(n - 1) - 1 + 1 : SubSeq(s, 1, n - 1)[i] = s[1 + i - 1]
  BY <1>3, <1>4, SubSeqProperties
<1>6. Front(s) = SubSeq(s, 1, n - 1)
  BY <1>4 DEF Front
<1>7. \A i \in 1..n - 1 : Front(s)[i] = s[i]
  BY <1>4, <1>5, <1>6
<1>8. Len(Front(s)) = n - 1
  BY <1>4, <1>5, <1>6
<1>9. Last(s) = s[n] /\ Last(s) \in S
  BY <1>2, <1>4 DEF Last
<1>10. QED BY <1>1, <1>4, <1>5, <1>6, <1>7, <1>8, <1>9

\* Inserting behind the cursor.
LEMMA AheadIs ==
    ASSUME NEW e, Formed(e), NEW c \in Chars
    PROVE  LET f == edit_insert_ahead(e, c)
           IN  /\ Primitive(e, Entry("delete", 0), f)
               /\ f.before = e.before /\ f.after = <<c>> \o e.after
               /\ f.curs_line = e.curs_line
               /\ f.total_lines = e.total_lines + OneLine(c)
               /\ f.mark1 = e.mark1 + One(e.mark1 >= Cursor(e))
               /\ f.mark2 = e.mark2 + One(e.mark2 >= Cursor(e))
               /\ Screen(e, f, Cursor(e) < e.start_display, c, 1)
<1> DEFINE d == Entry("delete", 0)
           h == edit_push_action(ShiftDisplay(e, c, 1), d)
           a == <<c>> \o h.after
           tl == h.total_lines + OneLine(c)
           m1 == h.mark1 + One(h.mark1 >= Cursor(e))
           m2 == h.mark2 + One(h.mark2 >= Cursor(e))
           f == [h EXCEPT !.after = a, !.total_lines = tl, !.mark1 = m1, !.mark2 = m2]
<1>1. d \in Entries
  BY DEF Entry, Entries, Ops
<1>2. edit_insert_ahead(e, c) = f
  BY DEF edit_insert_ahead
<1> HIDE DEF d
<1>3. /\ Formed(h) /\ SameText(e, h) /\ SameModes(e, h)
      /\ e.misled => h.misled
      /\ h.push_action_disabled = e.push_action_disabled
      /\ h.mark1 = e.mark1 /\ h.mark2 = e.mark2
      /\ Cursor(e) < e.start_display =>
            /\ h.start_display = e.start_display + 1
            /\ h.start_line = e.start_line + OneLine(c)
      /\ ~(Cursor(e) < e.start_display) =>
            /\ h.start_display = e.start_display
            /\ h.start_line = e.start_line
  BY <1>1, ShiftAndPush
<1>4. \A x : SameRing(h, x) => Via(e, d, x)
  BY <1>1, ShiftAndPush
<1> HIDE DEF h
<1>5. /\ h.before \in Seq(Chars) /\ h.after \in Seq(Chars) /\ h \in Edits
      /\ a \in Seq(Chars) /\ h.curs_line \in Int /\ tl \in Int /\ m1 \in Int /\ m2 \in Int
  <2>1. h \in Edits
    BY <1>3 DEF Formed
  <2>2. /\ h.before \in Seq(Chars) /\ h.after \in Seq(Chars)
        /\ {h.curs_line, h.total_lines, h.mark1, h.mark2} \subseteq Int
    BY <2>1 DEF Edits
  <2>3. a \in Seq(Chars)
    BY <2>2, ConcatProperties
  <2>4. tl \in Int /\ m1 \in Int /\ m2 \in Int
    BY <2>2 DEF OneLine, One
  <2>5. QED BY <2>1, <2>2, <2>3, <2>4
<1> HIDE DEF a, tl, m1, m2
<1>6. f = Set(h, h.before, a, h.curs_line, tl, m1, m2)
  BY <1>5 DEF Set, Edits
<1> HIDE DEF f
<1>7. /\ Formed(f) /\ SameRing(h, f) /\ SameModes(h, f)
      /\ f.before = h.before /\ f.after = a
      /\ f.curs_line = h.curs_line /\ f.total_lines = tl
      /\ f.mark1 = m1 /\ f.mark2 = m2
      /\ f.start_display = h.start_display /\ f.start_line = h.start_line
  <2>1. SetTo(h, Set(h, h.before, a, h.curs_line, tl, m1, m2),
              h.before, a, h.curs_line, tl, m1, m2)
    BY <1>3, <1>5, SetIs
  <2>2. QED BY <1>6, <2>1 DEF SetTo
<1>8. SameModes(e, f) /\ (e.misled => f.misled) /\ f.push_action_disabled = e.push_action_disabled
  BY <1>3, <1>7 DEF SameModes, SameRing
<1>9. Primitive(e, d, f)
  BY <1>4, <1>7, <1>8 DEF Primitive
<1>10. 1 * OneLine(c) = OneLine(c)
  BY DEF OneLine, One
<1>11. Screen(e, f, Cursor(e) < e.start_display, c, 1)
  BY <1>3, <1>7, <1>10 DEF Screen
<1>12. QED BY <1>2, <1>3, <1>7, <1>9, <1>11 DEF SameText, a, tl, m1, m2, d

\* A push of a text from which something was taken, and what the screen does
\* then.
LEMMA PushAndShift ==
    ASSUME NEW e, Formed(e), NEW b \in Seq(Chars), NEW a \in Seq(Chars),
           NEW cl \in Int, NEW tl \in Int, NEW m1 \in Int, NEW m2 \in Int,
           NEW c \in Chars, NEW d \in Entries
    PROVE  LET f == ShiftDisplay(edit_push_action(Set(e, b, a, cl, tl, m1, m2), d), c, -1)
           IN  /\ Primitive(e, d, f)
               /\ f.before = b /\ f.after = a
               /\ f.curs_line = cl /\ f.total_lines = tl
               /\ f.mark1 = m1 /\ f.mark2 = m2
               /\ Screen(e, f, Len(b) < e.start_display, c, -1)
<1> DEFINE g == Set(e, b, a, cl, tl, m1, m2)
           h == edit_push_action(g, d)
           f == ShiftDisplay(h, c, -1)
<1>1. /\ Formed(g) /\ SameRing(e, g) /\ SameModes(e, g)
      /\ g.before = b /\ g.after = a
      /\ g.curs_line = cl /\ g.total_lines = tl
      /\ g.mark1 = m1 /\ g.mark2 = m2
      /\ g.start_display = e.start_display /\ g.start_line = e.start_line
  BY SetIs DEF SetTo
<1> HIDE DEF g
<1>2. Kin(g, h)
  BY <1>1, PushKin
<1>3. \A x : SameRing(h, x) => Via(e, d, x)
  BY <1>1 DEF Via
<1> HIDE DEF h
<1>4. /\ Formed(h) /\ (g.misled => h.misled)
      /\ SameText(g, h) /\ SameScreen(g, h) /\ SameModes(g, h)
      /\ h.push_action_disabled = g.push_action_disabled
  BY <1>2 DEF Kin, Pushed
<1>5. -1 \in {1, -1}
  OBVIOUS
<1>6. /\ Formed(f) /\ SameRing(h, f) /\ SameText(h, f) /\ SameModes(h, f)
      /\ f.mark1 = h.mark1 /\ f.mark2 = h.mark2
      /\ Cursor(h) < h.start_display =>
            /\ f.start_display = h.start_display + (-1)
            /\ f.start_line = h.start_line + (-1) * OneLine(c)
      /\ ~(Cursor(h) < h.start_display) =>
            /\ f.start_display = h.start_display
            /\ f.start_line = h.start_line
  <2> DEFINE n == -1
  <2>1. n \in {1, -1}
    OBVIOUS
  <2> HIDE DEF n
  <2>2. LET x == ShiftDisplay(h, c, n)
        IN  /\ Formed(x) /\ SameRing(h, x) /\ SameText(h, x) /\ SameModes(h, x)
            /\ x.mark1 = h.mark1 /\ x.mark2 = h.mark2
            /\ Cursor(h) < h.start_display =>
                  /\ x.start_display = h.start_display + n
                  /\ x.start_line = h.start_line + n * OneLine(c)
            /\ ~(Cursor(h) < h.start_display) =>
                  /\ x.start_display = h.start_display
                  /\ x.start_line = h.start_line
    BY <1>4, <2>1, ShiftIs
  <2>3. QED BY <2>2 DEF n
<1> HIDE DEF f
<1>7. Cursor(h) = Len(b) /\ h.start_display = e.start_display /\ h.start_line = e.start_line
  BY <1>1, <1>4 DEF Cursor, SameText, SameScreen
<1>8. Screen(e, f, Len(b) < e.start_display, c, -1)
  BY <1>6, <1>7 DEF Screen
<1>9. SameModes(e, f) /\ (e.misled => f.misled) /\ f.push_action_disabled = e.push_action_disabled
  BY <1>1, <1>4, <1>6 DEF SameModes, SameRing
<1>10. Primitive(e, d, f)
  BY <1>3, <1>6, <1>9 DEF Primitive
<1>11. /\ f.before = b /\ f.after = a
       /\ f.curs_line = cl /\ f.total_lines = tl
       /\ f.mark1 = m1 /\ f.mark2 = m2
  BY <1>1, <1>4, <1>6 DEF SameText, SameScreen
<1>12. QED BY <1>8, <1>10, <1>11 DEF f, h, g

\* Deleting.
LEMMA DeleteIs ==
    ASSUME NEW e, Formed(e), e.after # <<>>
    PROVE  LET f == edit_delete(e)
               c == Head(e.after)
           IN  /\ Primitive(e, Entry("ahead", c), f) /\ c \in Chars
               /\ f.before = e.before /\ f.after = Tail(e.after)
               /\ f.curs_line = e.curs_line
               /\ f.total_lines = e.total_lines - OneLine(c)
               /\ f.mark1 = e.mark1 - One(e.mark1 > Cursor(e))
               /\ f.mark2 = e.mark2 - One(e.mark2 > Cursor(e))
               /\ Screen(e, f, Cursor(e) < e.start_display, c, -1)
<1> DEFINE c == Head(e.after)
           d == Entry("ahead", c)
           a == Tail(e.after)
           tl == e.total_lines - OneLine(c)
           m1 == e.mark1 - One(e.mark1 > Cursor(e))
           m2 == e.mark2 - One(e.mark2 > Cursor(e))
           g == [e EXCEPT !.after = a, !.total_lines = tl, !.mark1 = m1, !.mark2 = m2]
           f == ShiftDisplay(edit_push_action(g, d), c, -1)
<1>1. edit_delete(e) = f
  BY DEF edit_delete
<1>2. e \in Edits /\ e.before \in Seq(Chars) /\ e.after \in Seq(Chars)
  BY DEF Formed, Edits
<1>3. c \in Chars /\ a \in Seq(Chars)
  BY <1>2, HeadTailProperties
<1>4. c \in Int
  BY <1>3, Bounds
<1>5. d \in Entries
  BY <1>3, <1>4 DEF Entry, Entries, Ops
<1>6. e.curs_line \in Int /\ tl \in Int /\ m1 \in Int /\ m2 \in Int
  <2>1. {e.curs_line, e.total_lines, e.mark1, e.mark2} \subseteq Int
    BY <1>2 DEF Edits
  <2>2. QED BY <2>1 DEF OneLine, One
<1>7. Cursor(e) = Len(e.before)
  BY DEF Cursor
<1> HIDE DEF c, d, a, tl, m1, m2
<1>8. g = Set(e, e.before, a, e.curs_line, tl, m1, m2)
  BY <1>2, <1>3, <1>6 DEF Set, Edits
<1> DEFINE x == ShiftDisplay(edit_push_action(Set(e, e.before, a, e.curs_line, tl, m1, m2), d), c, -1)
<1>9. f = x
  BY <1>8
<1>10. /\ Primitive(e, d, x)
       /\ x.before = e.before /\ x.after = a
       /\ x.curs_line = e.curs_line /\ x.total_lines = tl
       /\ x.mark1 = m1 /\ x.mark2 = m2
       /\ Screen(e, x, Len(e.before) < e.start_display, c, -1)
  BY <1>2, <1>3, <1>5, <1>6, PushAndShift
<1> HIDE DEF x, f
<1>11. QED BY <1>1, <1>3, <1>7, <1>9, <1>10 DEF c, d, a, tl, m1, m2

\* Deleting to the left.
LEMMA BackspaceIs ==
    ASSUME NEW e, Formed(e), e.before # <<>>
    PROVE  LET f == edit_backspace(e)
               c == Last(e.before)
           IN  /\ Primitive(e, Entry("insert", c), f) /\ c \in Chars
               /\ f.before = Front(e.before) /\ f.after = e.after
               /\ f.curs_line = e.curs_line - OneLine(c)
               /\ f.total_lines = e.total_lines - OneLine(c)
               /\ f.mark1 = e.mark1 - One(e.mark1 >= Cursor(e))
               /\ f.mark2 = e.mark2 - One(e.mark2 >= Cursor(e))
               /\ Screen(e, f, Len(Front(e.before)) < e.start_display, c, -1)
<1> DEFINE c == Last(e.before)
           d == Entry("insert", c)
           b == Front(e.before)
           cl == e.curs_line - OneLine(c)
           tl == e.total_lines - OneLine(c)
           m1 == e.mark1 - One(e.mark1 >= Cursor(e))
           m2 == e.mark2 - One(e.mark2 >= Cursor(e))
           g == [e EXCEPT !.before = b, !.curs_line = cl, !.total_lines = tl,
                          !.mark1 = m1, !.mark2 = m2]
           f == ShiftDisplay(edit_push_action(g, d), c, -1)
<1>1. edit_backspace(e) = f
  BY DEF edit_backspace
<1>2. e \in Edits /\ e.before \in Seq(Chars) /\ e.after \in Seq(Chars)
  BY DEF Formed, Edits
<1>3. c \in Chars /\ b \in Seq(Chars)
  BY <1>2, FrontIs
<1>4. c \in Int
  BY <1>3, Bounds
<1>5. d \in Entries
  BY <1>3, <1>4 DEF Entry, Entries, Ops
<1>6. cl \in Int /\ tl \in Int /\ m1 \in Int /\ m2 \in Int
  <2>1. {e.curs_line, e.total_lines, e.mark1, e.mark2} \subseteq Int
    BY <1>2 DEF Edits
  <2>2. QED BY <2>1 DEF OneLine, One
<1> HIDE DEF c, d, b, cl, tl, m1, m2
<1>8. g = Set(e, b, e.after, cl, tl, m1, m2)
  BY <1>2, <1>3, <1>6 DEF Set, Edits
<1> DEFINE x == ShiftDisplay(edit_push_action(Set(e, b, e.after, cl, tl, m1, m2), d), c, -1)
<1>9. f = x
  BY <1>8
<1>10. /\ Primitive(e, d, x)
       /\ x.before = b /\ x.after = e.after
       /\ x.curs_line = cl /\ x.total_lines = tl
       /\ x.mark1 = m1 /\ x.mark2 = m2
       /\ Screen(e, x, Len(b) < e.start_display, c, -1)
  BY <1>2, <1>3, <1>5, <1>6, PushAndShift
<1> HIDE DEF x, f
<1>11. QED BY <1>1, <1>3, <1>9, <1>10 DEF c, d, b, cl, tl, m1, m2

\* A step to the left.
LEMMA LeftIs ==
    ASSUME NEW e, Formed(e), e.before # <<>>
    PROVE  LET f == StepLeft(e)
               c == Last(e.before)
           IN  /\ Primitive(e, Entry("right", 0), f) /\ c \in Chars
               /\ f.before = Front(e.before) /\ f.after = <<c>> \o e.after
               /\ f.curs_line = e.curs_line - OneLine(c)
               /\ f.total_lines = e.total_lines
               /\ SameScreen(e, f)
<1> DEFINE c == Last(e.before)
           d == Entry("right", 0)
           h == edit_push_action(e, d)
           b == Front(h.before)
           a == <<c>> \o h.after
           cl == h.curs_line - OneLine(c)
           f == [h EXCEPT !.before = b, !.after = a, !.curs_line = cl]
<1>1. StepLeft(e) = f
  BY DEF StepLeft
<1>2. d \in Entries
  BY DEF Entry, Entries, Ops
<1>3. e \in Edits /\ e.before \in Seq(Chars) /\ e.after \in Seq(Chars)
  BY DEF Formed, Edits
<1> HIDE DEF d
<1>4. Kin(e, h)
  BY <1>2, PushKin
<1>5. \A x : SameRing(h, x) => Via(e, d, x)
  BY DEF Via, SameRing
<1> HIDE DEF h
<1>6. /\ Formed(h) /\ (e.misled => h.misled)
      /\ SameText(e, h) /\ SameScreen(e, h) /\ SameModes(e, h)
      /\ h.push_action_disabled = e.push_action_disabled
  BY <1>4 DEF Kin, Pushed
<1>7. h.before = e.before /\ h.after = e.after /\ h.curs_line = e.curs_line
      /\ h.total_lines = e.total_lines
  BY <1>6 DEF SameText
<1>8. c \in Chars /\ b \in Seq(Chars)
  BY <1>3, <1>7, FrontIs
<1>9. a \in Seq(Chars)
  BY <1>3, <1>7, <1>8, ConcatProperties
<1>10. /\ h \in Edits /\ h.curs_line \in Int /\ h.total_lines \in Int
       /\ h.mark1 \in Int /\ h.mark2 \in Int
  BY <1>6 DEF Formed, Edits
<1>11. cl \in Int
  BY <1>10 DEF OneLine, One
<1> HIDE DEF b, a, cl, c
<1>12. f = Set(h, b, a, cl, h.total_lines, h.mark1, h.mark2)
  BY <1>8, <1>9, <1>10, <1>11 DEF Set, Edits
<1> HIDE DEF f
<1>18. SetTo(h, Set(h, b, a, cl, h.total_lines, h.mark1, h.mark2),
             b, a, cl, h.total_lines, h.mark1, h.mark2)
  BY <1>6, <1>8, <1>9, <1>10, <1>11, SetIs
<1>13. /\ Formed(f) /\ SameRing(h, f) /\ SameModes(h, f)
       /\ f.before = b /\ f.after = a
       /\ f.curs_line = cl /\ f.total_lines = h.total_lines
       /\ f.mark1 = h.mark1 /\ f.mark2 = h.mark2
       /\ f.start_display = h.start_display /\ f.start_line = h.start_line
  BY <1>12, <1>18 DEF SetTo
<1>14. SameModes(e, f) /\ (e.misled => f.misled) /\ f.push_action_disabled = e.push_action_disabled
  BY <1>6, <1>13 DEF SameModes, SameRing
<1>15. Primitive(e, d, f)
  BY <1>5, <1>13, <1>14 DEF Primitive
<1>16. SameScreen(e, f)
  BY <1>6, <1>13 DEF SameScreen
<1>17. QED BY <1>1, <1>7, <1>8, <1>13, <1>15, <1>16 DEF c, d, b, a, cl

\* A step to the right.
LEMMA RightIs ==
    ASSUME NEW e, Formed(e), e.after # <<>>
    PROVE  LET f == StepRight(e)
               c == Head(e.after)
           IN  /\ Primitive(e, Entry("left", 0), f) /\ c \in Chars
               /\ f.before = Append(e.before, c) /\ f.after = Tail(e.after)
               /\ f.curs_line = e.curs_line + OneLine(c)
               /\ f.total_lines = e.total_lines
               /\ SameScreen(e, f)
<1> DEFINE c == Head(e.after)
           d == Entry("left", 0)
           h == edit_push_action(e, d)
           b == Append(h.before, c)
           a == Tail(h.after)
           cl == h.curs_line + OneLine(c)
           f == [h EXCEPT !.before = b, !.after = a, !.curs_line = cl]
<1>1. StepRight(e) = f
  BY DEF StepRight
<1>2. d \in Entries
  BY DEF Entry, Entries, Ops
<1>3. e \in Edits /\ e.before \in Seq(Chars) /\ e.after \in Seq(Chars)
  BY DEF Formed, Edits
<1> HIDE DEF d
<1>4. Kin(e, h)
  BY <1>2, PushKin
<1>5. \A x : SameRing(h, x) => Via(e, d, x)
  BY DEF Via, SameRing
<1> HIDE DEF h
<1>6. /\ Formed(h) /\ (e.misled => h.misled)
      /\ SameText(e, h) /\ SameScreen(e, h) /\ SameModes(e, h)
      /\ h.push_action_disabled = e.push_action_disabled
  BY <1>4 DEF Kin, Pushed
<1>7. h.before = e.before /\ h.after = e.after /\ h.curs_line = e.curs_line
      /\ h.total_lines = e.total_lines
  BY <1>6 DEF SameText
<1>8. c \in Chars /\ a \in Seq(Chars)
  BY <1>3, <1>7, HeadTailProperties
<1>9. b \in Seq(Chars)
  BY <1>3, <1>7, <1>8, AppendProperties
<1>10. /\ h \in Edits /\ h.curs_line \in Int /\ h.total_lines \in Int
       /\ h.mark1 \in Int /\ h.mark2 \in Int
  BY <1>6 DEF Formed, Edits
<1>11. cl \in Int
  BY <1>10 DEF OneLine, One
<1> HIDE DEF b, a, cl, c
<1>12. f = Set(h, b, a, cl, h.total_lines, h.mark1, h.mark2)
  BY <1>8, <1>9, <1>10, <1>11 DEF Set, Edits
<1> HIDE DEF f
<1>18. SetTo(h, Set(h, b, a, cl, h.total_lines, h.mark1, h.mark2),
             b, a, cl, h.total_lines, h.mark1, h.mark2)
  BY <1>6, <1>8, <1>9, <1>10, <1>11, SetIs
<1>13. /\ Formed(f) /\ SameRing(h, f) /\ SameModes(h, f)
       /\ f.before = b /\ f.after = a
       /\ f.curs_line = cl /\ f.total_lines = h.total_lines
       /\ f.mark1 = h.mark1 /\ f.mark2 = h.mark2
       /\ f.start_display = h.start_display /\ f.start_line = h.start_line
  BY <1>12, <1>18 DEF SetTo
<1>14. SameModes(e, f) /\ (e.misled => f.misled) /\ f.push_action_disabled = e.push_action_disabled
  BY <1>6, <1>13 DEF SameModes, SameRing
<1>15. Primitive(e, d, f)
  BY <1>5, <1>13, <1>14 DEF Primitive
<1>16. SameScreen(e, f)
  BY <1>6, <1>13 DEF SameScreen
<1>17. QED BY <1>1, <1>7, <1>8, <1>13, <1>15, <1>16 DEF c, d, b, a, cl

-----------------------------------------------------------------------------
(* The text around the cursor.                                             *)

\* A byte at the cursor.
LEMMA ByteBetween ==
    ASSUME NEW b \in Seq(Chars), NEW a \in Seq(Chars), NEW c \in Chars
    PROVE  /\ Append(b, c) \in Seq(Chars) /\ <<c>> \o a \in Seq(Chars)
           /\ Len(Append(b, c)) = Len(b) + 1 /\ Len(<<c>> \o a) = Len(a) + 1
           /\ Len(b) \in Nat /\ Len(a) \in Nat
           /\ Append(b, c) \o a = b \o (<<c>> \o a)
           /\ Inserted(b \o a, Append(b, c) \o a, Len(b), c)
           /\ Front(Append(b, c)) = b /\ Last(Append(b, c)) = c
           /\ Head(<<c>> \o a) = c /\ Tail(<<c>> \o a) = a
           /\ Append(b, c) # <<>> /\ <<c>> \o a # <<>>
<1>1. PICK m \in Nat, n \in Nat : m = Len(b) /\ n = Len(a)
  BY LenProperties
<1>2. <<c>> \in Seq(Chars) /\ Len(<<c>>) = 1 /\ <<c>>[1] = c
  OBVIOUS
<1> DEFINE bc == Append(b, c)  ca == <<c>> \o a  t == b \o a  u == bc \o a
<1>3. /\ bc \in Seq(Chars) /\ bc # <<>> /\ Len(bc) = m + 1
      /\ \A i \in 1..m : bc[i] = b[i]
      /\ bc[m + 1] = c
  BY <1>1, AppendProperties
<1>4. /\ ca \in Seq(Chars) /\ Len(ca) = 1 + n
      /\ \A i \in 1..1 + n : ca[i] = IF i <= 1 THEN <<c>>[i] ELSE a[i - 1]
  BY <1>1, <1>2, ConcatProperties
<1>5. bc \o a = b \o ca
  <2>1. bc = b \o <<c>>
    BY AppendIsConcat
  <2>2. (b \o <<c>>) \o a = b \o (<<c>> \o a)
    BY <1>2, ConcatAssociative
  <2>3. QED BY <2>1, <2>2
<1>6. /\ t \in Seq(Chars) /\ Len(t) = m + n
      /\ \A i \in 1..m + n : t[i] = IF i <= m THEN b[i] ELSE a[i - m]
  BY <1>1, ConcatProperties
<1> HIDE DEF bc, ca, t
<1>7. /\ u \in Seq(Chars) /\ Len(u) = (m + 1) + n
      /\ \A i \in 1..(m + 1) + n : u[i] = IF i <= m + 1 THEN bc[i] ELSE a[i - (m + 1)]
  <2>1. /\ u \in Seq(Chars) /\ Len(u) = Len(bc) + Len(a)
        /\ \A i \in 1..Len(bc) + Len(a) :
              u[i] = IF i <= Len(bc) THEN bc[i] ELSE a[i - Len(bc)]
    BY <1>3, ConcatProperties
  <2> HIDE DEF u
  <2>2. QED BY <2>1, <1>1, <1>3
<1> HIDE DEF u
<1>8. Inserted(t, u, m, c)
  <2>1. m \in 0..Len(t) /\ Len(u) = Len(t) + 1
    BY <1>6, <1>7
  <2>2. ASSUME NEW i \in 1..m PROVE u[i] = t[i]
    <3>1. i \in 1..m + n /\ i <= m /\ i \in 1..(m + 1) + n /\ i <= m + 1
      OBVIOUS
    <3>2. t[i] = b[i]
      BY <3>1, <1>6
    <3>3. u[i] = bc[i]
      BY <3>1, <1>7
    <3>4. QED BY <3>2, <3>3, <1>3
  <2>3. u[m + 1] = c
    BY <1>3, <1>7
  <2>4. ASSUME NEW i \in m + 1..Len(t) PROVE u[i + 1] = t[i]
    <3>1. i \in 1..m + n /\ ~(i <= m) /\ i + 1 \in 1..(m + 1) + n /\ ~(i + 1 <= m + 1)
          /\ (i + 1) - (m + 1) = i - m
      BY <1>6
    <3>2. QED BY <3>1, <1>6, <1>7
  <2>5. QED BY <2>1, <2>2, <2>3, <2>4 DEF Inserted
<1>9. Last(bc) = c
  BY <1>3 DEF Last
<1>10. Front(bc) = b
  <2>1. /\ Front(bc) \in Seq(Chars) /\ Len(Front(bc)) = Len(bc) - 1
        /\ \A i \in 1..Len(bc) - 1 : Front(bc)[i] = bc[i]
    BY <1>3, FrontIs
  <2>2. Len(Front(bc)) = m /\ \A i \in 1..m : Front(bc)[i] = b[i]
    BY <2>1, <1>3
  <2>3. QED BY <2>1, <2>2, <1>1, SeqEqual
<1>11. ca # <<>>
  BY <1>4
<1>12. Head(ca) = c
  BY <1>2, <1>4, <1>11
<1>13. Tail(ca) = a
  <2>1. /\ Tail(ca) \in Seq(Chars) /\ Len(Tail(ca)) = Len(ca) - 1
        /\ \A i \in 1..Len(Tail(ca)) : Tail(ca)[i] = ca[i + 1]
    BY <1>4, <1>11, HeadTailProperties
  <2>2. Len(Tail(ca)) = n
    BY <2>1, <1>4
  <2>3. ASSUME NEW i \in 1..n PROVE Tail(ca)[i] = a[i]
    <3>1. i + 1 \in 1..1 + n /\ ~(i + 1 <= 1) /\ (i + 1) - 1 = i
      OBVIOUS
    <3>2. ca[i + 1] = a[i]
      BY <3>1, <1>4
    <3>3. QED BY <2>1, <2>2, <3>2
  <2>4. QED BY <2>1, <2>2, <2>3, <1>1, SeqEqual
<1>14. QED
  BY <1>1, <1>3, <1>4, <1>5, <1>8, <1>9, <1>10, <1>11, <1>12, <1>13 DEF bc, ca, t, u

\* A text that is not empty is what is left of it and the byte taken.
LEMMA Taken ==
    ASSUME NEW s \in Seq(Chars), s # <<>>
    PROVE  /\ Front(s) \in Seq(Chars) /\ Last(s) \in Chars
           /\ s = Append(Front(s), Last(s))
           /\ Tail(s) \in Seq(Chars) /\ Head(s) \in Chars
           /\ s = <<Head(s)>> \o Tail(s)
<1>1. PICK t \in Seq(Chars), c \in Chars : s = Append(t, c)
  BY SequenceEmptyOrAppend
<1>2. Front(s) = t /\ Last(s) = c
  <2>1. <<>> \in Seq(Chars)
    OBVIOUS
  <2>2. QED BY <1>1, <2>1, ByteBetween
<1>3. Tail(s) \in Seq(Chars) /\ Head(s) \in Chars /\ Len(Tail(s)) = Len(s) - 1
      /\ \A i \in 1..Len(Tail(s)) : Tail(s)[i] = s[i + 1]
  BY HeadTailProperties
<1>4. PICK n \in Nat \ {0} : n = Len(s)
  BY EmptySeq
<1> DEFINE u == <<Head(s)>> \o Tail(s)
<1>5. <<Head(s)>> \in Seq(Chars) /\ Len(<<Head(s)>>) = 1 /\ <<Head(s)>>[1] = Head(s)
  BY <1>3
<1>6. /\ u \in Seq(Chars) /\ Len(u) = 1 + (n - 1)
      /\ \A i \in 1..1 + (n - 1) : u[i] = IF i <= 1 THEN <<Head(s)>>[i] ELSE Tail(s)[i - 1]
  BY <1>3, <1>4, <1>5, ConcatProperties
<1>7. Head(s) = s[1]
  OBVIOUS
<1> HIDE DEF u
<1>8. ASSUME NEW i \in 1..n PROVE u[i] = s[i]
  <2>1. CASE i = 1
    BY <2>1, <1>5, <1>6, <1>7
  <2>2. CASE i # 1
    <3>1. i \in 1..1 + (n - 1) /\ ~(i <= 1) /\ i - 1 \in 1..n - 1 /\ (i - 1) + 1 = i
      BY <2>2
    <3>2. Tail(s)[i - 1] = s[i]
      BY <3>1, <1>3, <1>4
    <3>3. QED BY <3>1, <3>2, <1>6
  <2>3. QED BY <2>1, <2>2
<1>9. u = s
  BY <1>4, <1>6, <1>8, SeqEqual
<1>10. QED BY <1>1, <1>2, <1>3, <1>9 DEF u

\* A byte more at the cursor.
LEMMA Grown ==
    ASSUME NEW e, NEW f, Formed(e), Formed(f), NEW c \in Chars,
           Inserted(Text(e), Text(f), Cursor(e), c),
           f.total_lines = e.total_lines + OneLine(c),
           Screen(e, f, Cursor(e) < e.start_display, c, 1),
           \/ Cursor(f) = Cursor(e) /\ f.curs_line = e.curs_line
           \/ Cursor(f) = Cursor(e) + 1 /\ f.curs_line = e.curs_line + OneLine(c),
           f.mark1 \in {e.mark1, e.mark1 + 1}, f.mark2 \in {e.mark2, e.mark2 + 1}
    PROVE  Keeps(e, f)
<1> DEFINE t == Text(e)  u == Text(f)
<1>1. PICK n \in Nat, p \in Nat : p <= n /\ n = LastByte(e) /\ p = Cursor(e) /\ n = Len(t)
  <2>1. /\ LastByte(e) \in Nat /\ Cursor(e) \in 0..LastByte(e)
        /\ Len(t) = LastByte(e)
    BY TextIs
  <2> HIDE DEF t
  <2>2. QED BY <2>1
<1>2. LastByte(f) = n + 1
  BY <1>1, TextIs DEF Inserted
<1>3. /\ \A k \in 0..p : Feeds(u, k) = Feeds(t, k)
      /\ \A k \in p..n : Feeds(u, k + 1) = Feeds(t, k) + OneLine(c)
  BY <1>1, FeedsInserted
<1>4. OneLine(c) \in Nat /\ \A k \in Nat : Feeds(t, k) \in Nat
  BY FeedsStep DEF OneLine, One
<1>5. Cursor(f) = p \/ Cursor(f) = p + 1
  BY <1>1
<1>6. /\ Right(e) => e.curs_line = Feeds(t, p) /\ e.total_lines = Feeds(t, n)
      /\ Right(f) <=> f.curs_line = Feeds(u, Cursor(f)) /\ f.total_lines = Feeds(u, n + 1)
  BY <1>1, <1>2 DEF Right
<1>7. /\ Placed(e) <=> /\ e.start_display \in 0..n
                       /\ e.start_line = Feeds(t, e.start_display)
                       /\ e.mark1 \in 0..n /\ e.mark2 \in -1..n
      /\ Placed(f) <=> /\ f.start_display \in 0..n + 1
                       /\ f.start_line = Feeds(u, f.start_display)
                       /\ f.mark1 \in 0..n + 1 /\ f.mark2 \in -1..n + 1
  BY <1>1, <1>2 DEF Placed, Following
<1> HIDE DEF t, u
<1>8. ASSUME Right(e) PROVE Right(f)
  <2>1. Feeds(u, n + 1) = Feeds(t, n) + OneLine(c)
    BY <1>1, <1>3
  <2>2. Feeds(u, p) = Feeds(t, p) /\ Feeds(u, p + 1) = Feeds(t, p) + OneLine(c)
    BY <1>1, <1>3
  <2>3. f.total_lines = Feeds(u, n + 1)
    BY <1>6, <1>8, <2>1
  <2>4. f.curs_line = Feeds(u, Cursor(f))
    BY <1>1, <1>6, <1>8, <2>2
  <2>5. QED BY <1>6, <2>3, <2>4
<1>9. ASSUME Placed(e) PROVE Placed(f)
  <2>1. PICK d \in 0..n : d = e.start_display
    BY <1>7, <1>9
  <2>2. f.start_display \in 0..n + 1 /\ f.start_line = Feeds(u, f.start_display)
    <3>1. CASE p < d
      <4>1. f.start_display = d + 1 /\ f.start_line = e.start_line + 1 * OneLine(c)
        BY <1>1, <2>1, <3>1 DEF Screen
      <4>2. Feeds(u, d + 1) = Feeds(t, d) + OneLine(c)
        BY <1>3, <3>1, <1>1, <2>1
      <4>3. QED BY <4>1, <4>2, <1>4, <1>7, <1>9, <2>1
    <3>2. CASE ~(p < d)
      <4>1. f.start_display = d /\ f.start_line = e.start_line
        BY <1>1, <2>1, <3>2 DEF Screen
      <4>2. Feeds(u, d) = Feeds(t, d)
        BY <1>3, <3>2, <1>1, <2>1
      <4>3. QED BY <4>1, <4>2, <1>7, <1>9, <2>1
    <3>3. QED BY <3>1, <3>2
  <2>3. f.mark1 \in 0..n + 1 /\ f.mark2 \in -1..n + 1
    BY <1>7, <1>9
  <2>4. QED BY <1>7, <2>2, <2>3
<1>10. QED BY <1>8, <1>9 DEF Keeps

\* A byte less at the cursor.
LEMMA Shrunk ==
    ASSUME NEW e, NEW f, Formed(e), Formed(f), NEW c \in Chars,
           Inserted(Text(f), Text(e), Cursor(f), c),
           f.total_lines = e.total_lines - OneLine(c),
           Screen(e, f, Cursor(f) < e.start_display, c, -1),
           \/ Cursor(e) = Cursor(f) /\ f.curs_line = e.curs_line
           \/ Cursor(e) = Cursor(f) + 1 /\ f.curs_line = e.curs_line - OneLine(c),
           f.mark1 = e.mark1 - One(e.mark1 > Cursor(f)),
           f.mark2 = e.mark2 - One(e.mark2 > Cursor(f))
    PROVE  Keeps(e, f)
<1> DEFINE t == Text(f)  u == Text(e)
<1>1. PICK n \in Nat, p \in Nat : p <= n /\ n = LastByte(f) /\ p = Cursor(f) /\ n = Len(t)
  <2>1. /\ LastByte(f) \in Nat /\ Cursor(f) \in 0..LastByte(f)
        /\ Len(t) = LastByte(f)
    BY TextIs
  <2> HIDE DEF t
  <2>2. QED BY <2>1
<1>2. LastByte(e) = n + 1
  BY <1>1, TextIs DEF Inserted
<1>3. /\ \A k \in 0..p : Feeds(u, k) = Feeds(t, k)
      /\ \A k \in p..n : Feeds(u, k + 1) = Feeds(t, k) + OneLine(c)
  BY <1>1, FeedsInserted
<1>4. OneLine(c) \in Nat /\ \A k \in Nat : Feeds(t, k) \in Nat
  BY FeedsStep DEF OneLine, One
<1>5. Cursor(e) = p \/ Cursor(e) = p + 1
  BY <1>1
<1>6. /\ Right(e) => e.curs_line = Feeds(u, Cursor(e)) /\ e.total_lines = Feeds(u, n + 1)
      /\ Right(f) <=> f.curs_line = Feeds(t, p) /\ f.total_lines = Feeds(t, n)
  BY <1>1, <1>2 DEF Right
<1>7. /\ Placed(f) <=> /\ f.start_display \in 0..n
                       /\ f.start_line = Feeds(t, f.start_display)
                       /\ f.mark1 \in 0..n /\ f.mark2 \in -1..n
      /\ Placed(e) <=> /\ e.start_display \in 0..n + 1
                       /\ e.start_line = Feeds(u, e.start_display)
                       /\ e.mark1 \in 0..n + 1 /\ e.mark2 \in -1..n + 1
  BY <1>1, <1>2 DEF Placed, Following
<1> HIDE DEF t, u
<1>8. ASSUME Right(e) PROVE Right(f)
  <2>1. Feeds(u, n + 1) = Feeds(t, n) + OneLine(c) /\ Feeds(t, n) \in Nat
    BY <1>1, <1>3, <1>4
  <2>2. /\ Feeds(u, p) = Feeds(t, p) /\ Feeds(u, p + 1) = Feeds(t, p) + OneLine(c)
        /\ Feeds(t, p) \in Nat
    <3>1. p \in 0..p /\ p \in p..n /\ p \in Nat
      BY <1>1
    <3>2. QED BY <3>1, <1>3, <1>4
  <2>3. f.total_lines = Feeds(t, n)
    BY <1>4, <1>6, <1>8, <2>1
  <2>4. f.curs_line = Feeds(t, p)
    <3>1. CASE Cursor(e) = p
      <4>1. f.curs_line = e.curs_line
        BY <1>1, <3>1
      <4>2. QED BY <4>1, <3>1, <1>6, <1>8, <2>2
    <3>2. CASE Cursor(e) = p + 1
      <4>1. f.curs_line = e.curs_line - OneLine(c)
        BY <1>1, <3>2
      <4>2. QED BY <4>1, <3>2, <1>4, <1>6, <1>8, <2>2
    <3>3. QED BY <1>5, <3>1, <3>2
  <2>5. QED BY <1>6, <2>3, <2>4
<1>9. ASSUME Placed(e) PROVE Placed(f)
  <2>1. PICK d \in 0..n + 1 : d = e.start_display
    BY <1>7, <1>9
  <2>2. f.start_display \in 0..n /\ f.start_line = Feeds(t, f.start_display)
    <3>1. CASE p < d
      <4>1. f.start_display = d + (-1) /\ f.start_line = e.start_line + (-1) * OneLine(c)
        BY <1>1, <2>1, <3>1 DEF Screen
      <4>2. d - 1 \in p..n /\ (d - 1) + 1 = d /\ d - 1 \in Nat
        BY <3>1, <1>1, <2>1
      <4>3. Feeds(u, d) = Feeds(t, d - 1) + OneLine(c)
        BY <1>3, <4>2
      <4>4. f.start_display = d - 1 /\ f.start_line = Feeds(t, d - 1)
        BY <4>1, <4>2, <4>3, <1>4, <1>7, <1>9, <2>1
      <4>5. QED BY <4>2, <4>4, <1>1
    <3>2. CASE ~(p < d)
      <4>1. f.start_display = d /\ f.start_line = e.start_line
        BY <1>1, <2>1, <3>2 DEF Screen
      <4>2. Feeds(u, d) = Feeds(t, d) /\ d \in 0..n
        BY <1>3, <3>2, <1>1, <2>1
      <4>3. QED BY <4>1, <4>2, <1>7, <1>9, <2>1
    <3>3. QED BY <3>1, <3>2
  <2>3. f.mark1 \in 0..n
    BY <1>1, <1>7, <1>9 DEF One
  <2>4. f.mark2 \in -1..n
    BY <1>1, <1>7, <1>9 DEF One
  <2>5. QED BY <1>7, <2>2, <2>3, <2>4
<1>10. QED BY <1>8, <1>9 DEF Keeps

\* The cursor elsewhere in the same text.
LEMMA Passed ==
    ASSUME NEW e, NEW f, Formed(e), Formed(f), NEW c \in Chars,
           Text(f) = Text(e), SameScreen(e, f), f.total_lines = e.total_lines,
           \/ /\ Cursor(f) = Cursor(e) + 1 /\ c = Text(e)[Cursor(e) + 1]
              /\ f.curs_line = e.curs_line + OneLine(c)
           \/ /\ Cursor(e) = Cursor(f) + 1 /\ c = Text(e)[Cursor(f) + 1]
              /\ f.curs_line = e.curs_line - OneLine(c)
    PROVE  Keeps(e, f)
<1>1. Cursor(e) \in Nat /\ Cursor(f) \in Nat /\ LastByte(f) = LastByte(e)
  BY TextIs
<1>2. \A k \in Nat : /\ Feeds(Text(e), k) \in Nat
                     /\ Feeds(Text(e), k + 1) = Feeds(Text(e), k) + OneLine(Text(e)[k + 1])
  BY FeedsStep
<1>3. OneLine(c) \in Nat
  BY DEF OneLine, One
<1>4. Right(e) => Right(f)
  BY <1>1, <1>2, <1>3 DEF Right
<1>5. Placed(e) => Placed(f)
  BY <1>1 DEF Placed, SameScreen
<1>6. QED BY <1>4, <1>5 DEF Keeps

-----------------------------------------------------------------------------
(* Commands and what they undo.                                            *)

\* A text in front of which something was put.
LEMMA PrependIs ==
    ASSUME NEW s \in Seq(Chars), NEW x \in Chars, NEW p, p = <<x>> \o s
    PROVE  p \in Seq(Chars) /\ p # <<>> /\ Head(p) = x /\ Tail(p) = s
BY ByteBetween

\* It is found again.
LEMMA PrependInjective ==
    ASSUME NEW s \in Seq(Chars), NEW t \in Seq(Chars), NEW x \in Chars, NEW y \in Chars,
           <<x>> \o s = <<y>> \o t
    PROVE  s = t /\ x = y
<1>1. PICK p : p = <<x>> \o s
  OBVIOUS
<1>2. p = <<y>> \o t
  BY <1>1
<1>3. Head(p) = x /\ Tail(p) = s
  BY <1>1, PrependIs
<1>4. Head(p) = y /\ Tail(p) = t
  BY <1>2, PrependIs
<1>5. QED BY <1>3, <1>4

\* A command turns a text into one other.
LEMMA TurnsOnce ==
    ASSUME NEW c,
           NEW b \in Seq(Chars), NEW a \in Seq(Chars), NEW b2 \in Seq(Chars),
           NEW a2 \in Seq(Chars), NEW b3 \in Seq(Chars), NEW a3 \in Seq(Chars),
           Turns(c, b, a, b2, a2), Turns(c, b, a, b3, a3)
    PROVE  b2 = b3 /\ a2 = a3
<1>1. \A s, t \in Seq(Chars) : \A x, y \in Chars : Append(s, x) = Append(t, y) => s = t /\ x = y
  BY AppendInjective
<1>2. \A s, t \in Seq(Chars) : \A x, y \in Chars : <<x>> \o s = <<y>> \o t => s = t /\ x = y
  BY PrependInjective
<1>3. CASE c.op = "right"
  <2>1. PICK x \in Chars : a = <<x>> \o a2 /\ b2 = Append(b, x)
    BY <1>3 DEF Turns
  <2>2. PICK y \in Chars : a = <<y>> \o a3 /\ b3 = Append(b, y)
    BY <1>3 DEF Turns
  <2>3. a2 = a3 /\ x = y
    BY <1>2, <2>1, <2>2
  <2>4. QED BY <2>1, <2>2, <2>3
<1>4. CASE c.op = "left"
  <2>1. PICK x \in Chars : b = Append(b2, x) /\ a2 = <<x>> \o a
    BY <1>4 DEF Turns
  <2>2. PICK y \in Chars : b = Append(b3, y) /\ a3 = <<y>> \o a
    BY <1>4 DEF Turns
  <2>3. b2 = b3 /\ x = y
    <3>1. Append(b2, x) = Append(b3, y)
      BY <2>1, <2>2
    <3>2. b2 = b3
      BY <3>1, <2>1, <2>2, AppendInjective
    <3>3. x = y
      BY <3>1, <2>1, <2>2, AppendInjective
    <3>4. QED BY <3>2, <3>3
  <2>4. QED BY <2>1, <2>2, <2>3
<1>5. CASE c.op = "backspace"
  <2>1. PICK x \in Chars : b = Append(b2, x) /\ a2 = a
    BY <1>5 DEF Turns
  <2>2. PICK y \in Chars : b = Append(b3, y) /\ a3 = a
    BY <1>5 DEF Turns
  <2>3. QED BY <1>1, <2>1, <2>2
<1>6. CASE c.op = "delete"
  <2>1. PICK x \in Chars : a = <<x>> \o a2 /\ b2 = b
    BY <1>6 DEF Turns
  <2>2. PICK y \in Chars : a = <<y>> \o a3 /\ b3 = b
    BY <1>6 DEF Turns
  <2>3. QED BY <1>2, <2>1, <2>2
<1>7. CASE c.op \in {"ahead", "insert"}
  BY <1>7 DEF Turns
<1>8. QED BY <1>3, <1>4, <1>5, <1>6, <1>7 DEF Turns

\* Inserting is undone by a backspace.
LEMMA InsertDone ==
    ASSUME NEW e, Formed(e), NEW c, c.op = "insert", c.n \in Chars
    PROVE  Done(e, c, Entry("backspace", 0), edit_insert(e, c.n))
<1> DEFINE f == edit_insert(e, c.n)  d == Entry("backspace", 0)
<1>1. PICK x \in Chars : x = c.n
  OBVIOUS
<1>2. /\ Primitive(e, d, f) /\ Formed(f)
      /\ f.before = Append(e.before, x) /\ f.after = e.after
      /\ f.curs_line = e.curs_line + OneLine(x)
      /\ f.total_lines = e.total_lines + OneLine(x)
      /\ f.mark1 = e.mark1 + One(e.mark1 > Cursor(e))
      /\ f.mark2 = e.mark2 + One(e.mark2 > Cursor(e))
      /\ Screen(e, f, Cursor(e) < e.start_display, x, 1)
  BY <1>1, InsertIs DEF Primitive
<1>3. d \in Moves /\ d.op = "backspace"
  BY DEF Moves, Entry, Entries, Ops, MoveOps
<1> HIDE DEF f, d
<1>4. e.before \in Seq(Chars) /\ e.after \in Seq(Chars)
  BY DEF Formed, Edits
<1>5. Inserted(e.before \o e.after, Append(e.before, x) \o e.after, Len(e.before), x)
      /\ Len(Append(e.before, x)) = Len(e.before) + 1
  BY <1>4, ByteBetween
<1>6. Inserted(Text(e), Text(f), Cursor(e), x) /\ Cursor(f) = Cursor(e) + 1
  BY <1>2, <1>5 DEF Text, Cursor
<1>7. f.mark1 \in {e.mark1, e.mark1 + 1} /\ f.mark2 \in {e.mark2, e.mark2 + 1}
  <2>1. e.mark1 \in Int /\ e.mark2 \in Int
    BY DEF Formed, Edits
  <2>2. QED BY <1>2, <2>1 DEF One
<1>8. Keeps(e, f)
  BY <1>2, <1>6, <1>7, Grown
<1>9. Turns(c, e.before, e.after, f.before, f.after)
  BY <1>1, <1>2 DEF Turns
<1>10. Turns(d, f.before, f.after, e.before, e.after)
  BY <1>2, <1>3 DEF Turns
<1>11. QED BY <1>2, <1>3, <1>8, <1>9, <1>10 DEF Done, f, d

\* Inserting behind the cursor is undone by a delete.
LEMMA AheadDone ==
    ASSUME NEW e, Formed(e), NEW c, c.op = "ahead", c.n \in Chars
    PROVE  Done(e, c, Entry("delete", 0), edit_insert_ahead(e, c.n))
<1> DEFINE f == edit_insert_ahead(e, c.n)  d == Entry("delete", 0)
<1>1. PICK x \in Chars : x = c.n
  OBVIOUS
<1>2. /\ Primitive(e, d, f) /\ Formed(f)
      /\ f.before = e.before /\ f.after = <<x>> \o e.after
      /\ f.curs_line = e.curs_line
      /\ f.total_lines = e.total_lines + OneLine(x)
      /\ f.mark1 = e.mark1 + One(e.mark1 >= Cursor(e))
      /\ f.mark2 = e.mark2 + One(e.mark2 >= Cursor(e))
      /\ Screen(e, f, Cursor(e) < e.start_display, x, 1)
  BY <1>1, AheadIs DEF Primitive
<1>3. d \in Moves /\ d.op = "delete"
  BY DEF Moves, Entry, Entries, Ops, MoveOps
<1> HIDE DEF f, d
<1>4. e.before \in Seq(Chars) /\ e.after \in Seq(Chars)
  BY DEF Formed, Edits
<1>5. /\ Inserted(e.before \o e.after, Append(e.before, x) \o e.after, Len(e.before), x)
      /\ Append(e.before, x) \o e.after = e.before \o (<<x>> \o e.after)
  BY <1>4, ByteBetween
<1>6. Inserted(Text(e), Text(f), Cursor(e), x) /\ Cursor(f) = Cursor(e)
  BY <1>2, <1>5 DEF Text, Cursor
<1>7. f.mark1 \in {e.mark1, e.mark1 + 1} /\ f.mark2 \in {e.mark2, e.mark2 + 1}
  <2>1. e.mark1 \in Int /\ e.mark2 \in Int
    BY DEF Formed, Edits
  <2>2. QED BY <1>2, <2>1 DEF One
<1>8. Keeps(e, f)
  BY <1>2, <1>6, <1>7, Grown
<1>9. Turns(c, e.before, e.after, f.before, f.after)
  BY <1>1, <1>2 DEF Turns
<1>10. Turns(d, f.before, f.after, e.before, e.after)
  BY <1>2, <1>3 DEF Turns
<1>11. QED BY <1>2, <1>3, <1>8, <1>9, <1>10 DEF Done, f, d

\* Deleting is undone by an insertion behind the cursor.
LEMMA DeleteDone ==
    ASSUME NEW e, Formed(e), NEW c, c.op = "delete", e.after # <<>>
    PROVE  Done(e, c, Entry("ahead", Head(e.after)), edit_delete(e))
<1> DEFINE f == edit_delete(e)  x == Head(e.after)  d == Entry("ahead", x)
<1>1. /\ Primitive(e, d, f) /\ Formed(f) /\ x \in Chars
      /\ f.before = e.before /\ f.after = Tail(e.after)
      /\ f.curs_line = e.curs_line
      /\ f.total_lines = e.total_lines - OneLine(x)
      /\ f.mark1 = e.mark1 - One(e.mark1 > Cursor(e))
      /\ f.mark2 = e.mark2 - One(e.mark2 > Cursor(e))
      /\ Screen(e, f, Cursor(e) < e.start_display, x, -1)
  BY DeleteIs DEF Primitive
<1>2. e.before \in Seq(Chars) /\ e.after \in Seq(Chars)
  BY DEF Formed, Edits
<1>3. e.after = <<x>> \o f.after /\ f.after \in Seq(Chars)
  BY <1>1, <1>2, Taken
<1> HIDE DEF f, x
<1>4. d \in Moves /\ d.op = "ahead" /\ d.n = x
  BY <1>1, Bounds DEF Moves, Entry, Entries, Ops, MoveOps
<1> HIDE DEF d
<1>5. /\ Inserted(e.before \o f.after, Append(e.before, x) \o f.after, Len(e.before), x)
      /\ Append(e.before, x) \o f.after = e.before \o (<<x>> \o f.after)
  BY <1>1, <1>2, <1>3, ByteBetween
<1>6. Inserted(Text(f), Text(e), Cursor(f), x) /\ Cursor(f) = Cursor(e)
  BY <1>1, <1>3, <1>5 DEF Text, Cursor
<1>8. Keeps(e, f)
  BY <1>1, <1>6, Shrunk
<1>9. Turns(c, e.before, e.after, f.before, f.after)
  BY <1>1, <1>3 DEF Turns
<1>10. Turns(d, f.before, f.after, e.before, e.after)
  BY <1>1, <1>3, <1>4 DEF Turns
<1>11. QED BY <1>1, <1>4, <1>8, <1>9, <1>10 DEF Done, f, d, x

\* A backspace is undone by an insertion.
LEMMA BackspaceDone ==
    ASSUME NEW e, Formed(e), NEW c, c.op = "backspace", e.before # <<>>
    PROVE  Done(e, c, Entry("insert", Last(e.before)), edit_backspace(e))
<1> DEFINE f == edit_backspace(e)  x == Last(e.before)  d == Entry("insert", x)
<1>1. /\ Primitive(e, d, f) /\ Formed(f) /\ x \in Chars
      /\ f.before = Front(e.before) /\ f.after = e.after
      /\ f.curs_line = e.curs_line - OneLine(x)
      /\ f.total_lines = e.total_lines - OneLine(x)
      /\ f.mark1 = e.mark1 - One(e.mark1 >= Cursor(e))
      /\ f.mark2 = e.mark2 - One(e.mark2 >= Cursor(e))
      /\ Screen(e, f, Len(Front(e.before)) < e.start_display, x, -1)
  BY BackspaceIs DEF Primitive
<1>2. e.before \in Seq(Chars) /\ e.after \in Seq(Chars)
  BY DEF Formed, Edits
<1>3. e.before = Append(f.before, x) /\ f.before \in Seq(Chars)
  BY <1>1, <1>2, Taken
<1>4. Screen(e, f, Cursor(f) < e.start_display, x, -1)
  BY <1>1 DEF Cursor
<1> HIDE DEF f, x
<1>5. d \in Moves /\ d.op = "insert" /\ d.n = x
  BY <1>1, Bounds DEF Moves, Entry, Entries, Ops, MoveOps
<1> HIDE DEF d
<1>6. /\ Inserted(f.before \o f.after, Append(f.before, x) \o f.after, Len(f.before), x)
      /\ Len(Append(f.before, x)) = Len(f.before) + 1 /\ Len(f.before) \in Nat
  BY <1>1, <1>2, <1>3, ByteBetween
<1>7. /\ Inserted(Text(f), Text(e), Cursor(f), x)
      /\ Cursor(e) = Cursor(f) + 1 /\ Cursor(f) \in Nat
  BY <1>1, <1>3, <1>6 DEF Text, Cursor
<1>8. f.mark1 = e.mark1 - One(e.mark1 > Cursor(f)) /\ f.mark2 = e.mark2 - One(e.mark2 > Cursor(f))
  <2>1. e.mark1 \in Int /\ e.mark2 \in Int
    BY DEF Formed, Edits
  <2>2. (e.mark1 >= Cursor(e)) = (e.mark1 > Cursor(f)) /\ (e.mark2 >= Cursor(e)) = (e.mark2 > Cursor(f))
    BY <1>7, <2>1
  <2>3. QED BY <1>1, <2>2
<1>9. Keeps(e, f)
  BY <1>1, <1>4, <1>7, <1>8, Shrunk
<1>10. Turns(c, e.before, e.after, f.before, f.after)
  BY <1>1, <1>3 DEF Turns
<1>11. Turns(d, f.before, f.after, e.before, e.after)
  BY <1>1, <1>3, <1>5 DEF Turns
<1>12. QED BY <1>1, <1>5, <1>9, <1>10, <1>11 DEF Done, f, d, x

\* A step to the left is undone by one to the right.
LEMMA LeftDone ==
    ASSUME NEW e, Formed(e), NEW c, c.op = "left", e.before # <<>>
    PROVE  Done(e, c, Entry("right", 0), StepLeft(e))
<1> DEFINE f == StepLeft(e)  x == Last(e.before)  d == Entry("right", 0)
<1>1. /\ Primitive(e, d, f) /\ Formed(f) /\ x \in Chars
      /\ f.before = Front(e.before) /\ f.after = <<x>> \o e.after
      /\ f.curs_line = e.curs_line - OneLine(x)
      /\ f.total_lines = e.total_lines
      /\ SameScreen(e, f)
  BY LeftIs DEF Primitive
<1>2. e.before \in Seq(Chars) /\ e.after \in Seq(Chars)
  BY DEF Formed, Edits
<1>3. e.before = Append(f.before, x) /\ f.before \in Seq(Chars)
  BY <1>1, <1>2, Taken
<1> HIDE DEF f, x
<1>4. d \in Moves /\ d.op = "right"
  BY DEF Moves, Entry, Entries, Ops, MoveOps
<1> HIDE DEF d
<1>5. /\ Append(f.before, x) \o e.after = f.before \o (<<x>> \o e.after)
      /\ Inserted(f.before \o e.after, Append(f.before, x) \o e.after, Len(f.before), x)
      /\ Len(Append(f.before, x)) = Len(f.before) + 1
  BY ZenonT(60), <1>1, <1>2, <1>3, ByteBetween
<1>6. Text(f) = Text(e) /\ Cursor(e) = Cursor(f) + 1 /\ x = Text(e)[Cursor(f) + 1]
  BY <1>1, <1>3, <1>5 DEF Text, Cursor, Inserted
<1>7. Keeps(e, f)
  BY <1>1, <1>6, Passed
<1>8. Turns(c, e.before, e.after, f.before, f.after)
  BY <1>1, <1>3 DEF Turns
<1>9. Turns(d, f.before, f.after, e.before, e.after)
  BY <1>1, <1>3, <1>4 DEF Turns
<1>10. QED BY <1>1, <1>4, <1>7, <1>8, <1>9 DEF Done, f, d, x

\* A step to the right is undone by one to the left.
LEMMA RightDone ==
    ASSUME NEW e, Formed(e), NEW c, c.op = "right", e.after # <<>>
    PROVE  Done(e, c, Entry("left", 0), StepRight(e))
<1> DEFINE f == StepRight(e)  x == Head(e.after)  d == Entry("left", 0)
<1>1. /\ Primitive(e, d, f) /\ Formed(f) /\ x \in Chars
      /\ f.before = Append(e.before, x) /\ f.after = Tail(e.after)
      /\ f.curs_line = e.curs_line + OneLine(x)
      /\ f.total_lines = e.total_lines
      /\ SameScreen(e, f)
  BY RightIs DEF Primitive
<1>2. e.before \in Seq(Chars) /\ e.after \in Seq(Chars)
  BY DEF Formed, Edits
<1>3. e.after = <<x>> \o f.after /\ f.after \in Seq(Chars)
  BY <1>1, <1>2, Taken
<1> HIDE DEF f, x
<1>4. d \in Moves /\ d.op = "left"
  BY DEF Moves, Entry, Entries, Ops, MoveOps
<1> HIDE DEF d
<1>5. /\ Append(e.before, x) \o f.after = e.before \o (<<x>> \o f.after)
      /\ Inserted(e.before \o f.after, Append(e.before, x) \o f.after, Len(e.before), x)
      /\ Len(Append(e.before, x)) = Len(e.before) + 1
  BY ZenonT(60), <1>1, <1>2, <1>3, ByteBetween
<1>6. Text(f) = Text(e) /\ Cursor(f) = Cursor(e) + 1 /\ x = Text(e)[Cursor(e) + 1]
  BY <1>1, <1>3, <1>5 DEF Text, Cursor, Inserted
<1>7. Keeps(e, f)
  BY <1>1, <1>6, Passed
<1>8. Turns(c, e.before, e.after, f.before, f.after)
  BY <1>1, <1>3 DEF Turns
<1>9. Turns(d, f.before, f.after, e.before, e.after)
  BY <1>1, <1>3, <1>4 DEF Turns
<1>10. QED BY <1>1, <1>4, <1>7, <1>8, <1>9 DEF Done, f, d, x

\* A command of the ring is done, unless there is nothing to do it with.
LEMMA DoIs ==
    ASSUME NEW e, Formed(e), NEW c \in Moves
    PROVE  /\ Do(e, c) = e \/ \E d \in Moves : Done(e, c, d, Do(e, c))
           /\ \A b, a \in Seq(Chars) : Turns(c, e.before, e.after, b, a) =>
                 \E d \in Moves : Done(e, c, d, Do(e, c))
<1>1. c \in Entries /\ c.op \in MoveOps /\ (c.op \in {"ahead", "insert"} => c.n \in Chars)
  BY DEF Moves, Entries
<1>2. e.before \in Seq(Chars) /\ e.after \in Seq(Chars)
  BY DEF Formed, Edits
<1>3. \A s \in Seq(Chars), x \in Chars : Append(s, x) # <<>>
  BY ByteBetween, EmptySeq
<1>4. \A s \in Seq(Chars), x \in Chars : <<x>> \o s # <<>>
  BY ByteBetween, EmptySeq
<1>5. CASE c.op = "right"
  <2>1. Do(e, c) = StepRight(e)
    BY <1>5 DEF Do
  <2>2. CASE e.after = <<>>
    <3>1. StepRight(e) = e
      BY <2>2 DEF StepRight
    <3>2. \A b, a \in Seq(Chars) : ~Turns(c, e.before, e.after, b, a)
      BY <1>3, <1>4, <1>5, <2>2 DEF Turns
    <3>3. QED BY <2>1, <3>1, <3>2
  <2>3. CASE e.after # <<>>
    BY <1>5, <2>1, <2>3, RightDone DEF Done
  <2>4. QED BY <2>2, <2>3
<1>6. CASE c.op = "left"
  <2>1. Do(e, c) = StepLeft(e)
    BY <1>6 DEF Do
  <2>2. CASE e.before = <<>>
    <3>1. StepLeft(e) = e
      BY <2>2 DEF StepLeft
    <3>2. \A b, a \in Seq(Chars) : ~Turns(c, e.before, e.after, b, a)
      BY <1>3, <1>4, <1>6, <2>2 DEF Turns
    <3>3. QED BY <2>1, <3>1, <3>2
  <2>3. CASE e.before # <<>>
    BY <1>6, <2>1, <2>3, LeftDone DEF Done
  <2>4. QED BY <2>2, <2>3
<1>7. CASE c.op = "backspace"
  <2>1. Do(e, c) = edit_backspace(e)
    BY <1>7 DEF Do
  <2>2. CASE e.before = <<>>
    <3>1. edit_backspace(e) = e
      BY <2>2 DEF edit_backspace
    <3>2. \A b, a \in Seq(Chars) : ~Turns(c, e.before, e.after, b, a)
      BY <1>3, <1>4, <1>7, <2>2 DEF Turns
    <3>3. QED BY <2>1, <3>1, <3>2
  <2>3. CASE e.before # <<>>
    BY <1>7, <2>1, <2>3, BackspaceDone DEF Done
  <2>4. QED BY <2>2, <2>3
<1>8. CASE c.op = "delete"
  <2>1. Do(e, c) = edit_delete(e)
    BY <1>8 DEF Do
  <2>2. CASE e.after = <<>>
    <3>1. edit_delete(e) = e
      BY <2>2 DEF edit_delete
    <3>2. \A b, a \in Seq(Chars) : ~Turns(c, e.before, e.after, b, a)
      BY <1>3, <1>4, <1>8, <2>2 DEF Turns
    <3>3. QED BY <2>1, <3>1, <3>2
  <2>3. CASE e.after # <<>>
    BY <1>8, <2>1, <2>3, DeleteDone DEF Done
  <2>4. QED BY <2>2, <2>3
<1>9. CASE c.op = "ahead"
  <2>1. Do(e, c) = edit_insert_ahead(e, c.n)
    BY <1>9 DEF Do
  <2>2. QED BY <1>1, <1>9, <2>1, AheadDone DEF Done
<1>10. CASE c.op = "insert"
  <2>1. Do(e, c) = edit_insert(e, c.n)
    BY <1>10 DEF Do
  <2>2. QED BY <1>1, <1>10, <2>1, InsertDone DEF Done
<1>11. QED BY <1>1, <1>5, <1>6, <1>7, <1>8, <1>9, <1>10 DEF MoveOps

-----------------------------------------------------------------------------
(* What the ring holds.  A view is a text, the cursor in it, and a log of  *)
(* what was seen before each key.                                          *)

\* The fields of a view.
LEMMA ViewIs ==
    ASSUME NEW v \in Views
    PROVE  /\ v.before \in Seq(Chars) /\ v.after \in Seq(Chars) /\ v.past \in Seq(AllSeen)
           /\ Len(v.past) \in Nat /\ Len(v.before) \in Nat /\ Len(v.after) \in Nat
           /\ Length(v) \in Nat /\ v.before \o v.after \in Seq(Chars)
           /\ \A n \in Nat : Shot(v, n) \in AllSeen
           /\ \A w \in Views : w.before = v.before /\ w.after = v.after /\ w.past = v.past
                                  => w = v
<1>1. v.before \in Seq(Chars) /\ v.after \in Seq(Chars) /\ v.past \in Seq(AllSeen)
  BY DEF Views
<1>2. Len(v.past) \in Nat /\ Len(v.before) \in Nat /\ Len(v.after) \in Nat
  BY <1>1, LenProperties
<1>3. Length(v) \in Nat
  <2>1. PICK b, a \in Nat : b = Len(v.before) /\ a = Len(v.after)
    BY <1>2
  <2>2. b + a \in Nat
    OBVIOUS
  <2>3. QED BY <2>1, <2>2 DEF Length
<1>4. v.before \o v.after \in Seq(Chars)
  BY <1>1, ConcatProperties
<1>5. \A n \in Nat : Shot(v, n) \in AllSeen
  BY <1>2, <1>4 DEF Shot, AllSeen
<1>6. \A w \in Views : w.before = v.before /\ w.after = v.after /\ w.past = v.past => w = v
  BY DEF Views
<1>7. QED BY <1>1, <1>2, <1>3, <1>4, <1>5, <1>6

\* What undoing does to the log.
LEMMA UndoesPast ==
    ASSUME NEW c, NEW v \in Views, NEW w \in Views, Undoes(c, v, w)
    PROVE  /\ c.op # "times" /\ c.op # "none"
           /\ c.op # "key" => w.past = v.past
           /\ Len(w.past) <= Len(v.past)
<1>1. Len(w.past) \in Nat /\ w.past \in Seq(AllSeen)
  BY ViewIs
<1>2. CASE c.op = "key" /\ c.n \in 0..Length(w) /\ v.past = Append(w.past, Shot(w, c.n))
  <2>1. c.n \in Nat
    BY <1>2, ViewIs
  <2>2. Shot(w, c.n) \in AllSeen
    BY <2>1, ViewIs
  <2>3. Len(v.past) = Len(w.past) + 1
    BY <1>1, <1>2, <2>2, AppendProperties
  <2>4. QED BY <1>1, <1>2, <2>3
<1>3. CASE c \in Moves /\ w.past = v.past
  BY <1>1, <1>3 DEF Moves, MoveOps
<1>4. CASE c.op \in {"mark1", "mark2"} /\ w = v
  BY <1>1, <1>4
<1>5. QED BY <1>2, <1>3, <1>4 DEF Undoes

\* A command undoes to one view.
LEMMA UndoesBack ==
    ASSUME NEW c, NEW d, NEW v \in Views, NEW w \in Views, NEW x \in Views,
           {c.op, d.op} = {"left", "right"}, Undoes(c, x, v), Undoes(d, v, w)
    PROVE  w = x
<1>1. \/ c.op = "left" /\ d.op = "right"
      \/ c.op = "right" /\ d.op = "left"
  OBVIOUS
<1>2. /\ Turns(c, x.before, x.after, v.before, v.after) /\ v.past = x.past
      /\ Turns(d, v.before, v.after, w.before, w.after) /\ w.past = v.past
  BY <1>1 DEF Undoes
<1>3. Turns(d, v.before, v.after, x.before, x.after)
  BY <1>1, <1>2 DEF Turns
<1>4. w.before = x.before /\ w.after = x.after
  <2>1. /\ v.before \in Seq(Chars) /\ v.after \in Seq(Chars)
        /\ w.before \in Seq(Chars) /\ w.after \in Seq(Chars)
        /\ x.before \in Seq(Chars) /\ x.after \in Seq(Chars)
    BY DEF Views
  <2>2. QED BY <1>2, <1>3, <2>1, TurnsOnce
<1>5. QED BY <1>2, <1>4, ViewIs

\* One step in front of others.
LEMMA ChainLonger ==
    ASSUME NEW c, NEW k \in Nat, NEW x \in Views, NEW v \in Views, NEW w \in Views,
           Undoes(c, x, v), Chain(c, k, v, w)
    PROVE  Chain(c, k + 1, x, w)
<1>1. PICK h \in [0..k -> Views] :
          h[0] = v /\ h[k] = w /\ \A i \in 0..k - 1 : Undoes(c, h[i], h[i + 1])
  BY DEF Chain
<1> DEFINE g == [i \in 0..k + 1 |-> IF i = 0 THEN x ELSE h[i - 1]]
<1>2. \A i \in 0..k + 1 : i # 0 => i - 1 \in 0..k
  OBVIOUS
<1>3. g \in [0..k + 1 -> Views]
  BY <1>1, <1>2
<1>4. g[0] = x /\ g[k + 1] = w /\ g[1] = v
  <2>1. 0 \in 0..k + 1 /\ k + 1 \in 0..k + 1 /\ 1 \in 0..k + 1 /\ k + 1 # 0 /\ (k + 1) - 1 = k
        /\ 1 - 1 = 0
    OBVIOUS
  <2>2. QED BY <1>1, <2>1
<1>5. ASSUME NEW i \in 0..(k + 1) - 1 PROVE Undoes(c, g[i], g[i + 1])
  <2>1. CASE i = 0
    BY <2>1, <1>4
  <2>2. CASE i # 0
    <3>1. /\ i - 1 \in 0..k - 1 /\ (i - 1) + 1 = i /\ i \in 0..k + 1
          /\ i + 1 \in 0..k + 1 /\ i + 1 # 0 /\ (i + 1) - 1 = i
      BY <2>2
    <3>2. g[i] = h[i - 1] /\ g[i + 1] = h[i]
      BY <2>2, <3>1
    <3>3. Undoes(c, h[i - 1], h[(i - 1) + 1])
      BY <1>1, <3>1
    <3>4. QED BY <3>1, <3>2, <3>3
  <2>3. QED BY <2>1, <2>2
<1> HIDE DEF g
<1>6. QED BY <1>3, <1>4, <1>5 DEF Chain

\* The first step of several.
LEMMA ChainFirst ==
    ASSUME NEW c, NEW k \in Nat, k > 0, NEW v \in Views, NEW w \in Views, Chain(c, k, v, w)
    PROVE  \E x \in Views : Undoes(c, v, x) /\ Chain(c, k - 1, x, w)
<1>1. PICK h \in [0..k -> Views] :
          h[0] = v /\ h[k] = w /\ \A i \in 0..k - 1 : Undoes(c, h[i], h[i + 1])
  BY DEF Chain
<1>2. k - 1 \in Nat /\ 1 \in 0..k /\ 0 \in 0..k - 1 /\ 0 + 1 = 1
  OBVIOUS
<1>3. Undoes(c, v, h[1]) /\ h[1] \in Views
  BY <1>1, <1>2
<1> DEFINE g == [i \in 0..k - 1 |-> h[i + 1]]
<1>4. \A i \in 0..k - 1 : i + 1 \in 0..k
  OBVIOUS
<1>5. g \in [0..k - 1 -> Views]
  BY <1>1, <1>4
<1>6. g[0] = h[1] /\ g[k - 1] = w
  BY <1>1, <1>2
<1>7. ASSUME NEW i \in 0..(k - 1) - 1 PROVE Undoes(c, g[i], g[i + 1])
  <2>1. i \in 0..k - 1 /\ i + 1 \in 0..k - 1 /\ i + 1 \in Nat
    OBVIOUS
  <2>2. g[i] = h[i + 1] /\ g[i + 1] = h[(i + 1) + 1]
    BY <2>1
  <2>3. Undoes(c, h[i + 1], h[(i + 1) + 1])
    BY <1>1, <2>1
  <2>4. QED BY <2>2, <2>3
<1> HIDE DEF g
<1>8. Chain(c, k - 1, h[1], w)
  BY <1>5, <1>6, <1>7 DEF Chain
<1>9. QED BY <1>3, <1>8

\* No step at all, and a single one.
LEMMA ChainShort ==
    ASSUME NEW c, NEW v \in Views, NEW w \in Views
    PROVE  /\ Chain(c, 0, v, w) => v = w
           /\ Undoes(c, v, w) => Chain(c, 1, v, w)
<1>1. ASSUME Chain(c, 0, v, w) PROVE v = w
  BY <1>1 DEF Chain
<1>2. ASSUME Undoes(c, v, w) PROVE Chain(c, 1, v, w)
  <2> DEFINE h == [i \in 0..1 |-> IF i = 0 THEN v ELSE w]
  <2>1. h \in [0..1 -> Views] /\ h[0] = v /\ h[1] = w
    OBVIOUS
  <2>2. \A i \in 0..1 - 1 : i = 0 /\ i + 1 = 1
    OBVIOUS
  <2>3. \A i \in 0..1 - 1 : Undoes(c, h[i], h[i + 1])
    BY <1>2, <2>1, <2>2
  <2> HIDE DEF h
  <2>4. QED BY <2>1, <2>3 DEF Chain
<1>3. QED BY <1>1, <1>2

\* The entries of the ring as they are counted from its bottom say all.
LEMMA FitSame ==
    ASSUME NEW d \in Nat, NEW r, NEW s, \A j \in 0..d - 1 : s[j] = r[j],
           NEW v, NEW m, Fit(d, r, v, m)
    PROVE  Fit(d, s, v, m)
<1>1. PICK at \in [0..d -> Views] : FitAt(d, r, at) /\ at[d] = v /\ Len(at[0].past) = m
  BY DEF Fit
<1>2. ASSUME NEW j \in 0..d - 1 PROVE Link(s, at, j)
  <2>1. Link(r, at, j) /\ s[j] = r[j]
    BY <1>1 DEF FitAt
  <2>2. j > 0 => j - 1 \in 0..d - 1
    OBVIOUS
  <2>3. j > 0 => s[j - 1] = r[j - 1]
    BY <2>2
  <2>4. QED BY <2>1, <2>3 DEF Link
<1>3. d > 0 => 0 \in 0..d - 1
  OBVIOUS
<1>4. d > 0 => IsKey(s[0])
  BY <1>1, <1>3 DEF FitAt
<1>5. FitAt(d, s, at)
  BY <1>1, <1>2, <1>4 DEF FitAt
<1>6. QED BY <1>1, <1>5 DEF Fit

\* An empty ring fits every view.
LEMMA FitEmpty ==
    ASSUME NEW r, NEW v \in Views
    PROVE  Fit(0, r, v, Len(v.past))
<1> DEFINE at == [j \in 0..0 |-> v]
<1>1. at \in [0..0 -> Views] /\ at[0] = v
  OBVIOUS
<1>2. \A i, j \in 0..0 : i = 0 /\ j = 0
  OBVIOUS
<1>3. Len(v.past) \in Nat
  BY ViewIs
<1>4. FitAt(0, r, at)
  BY <1>1, <1>2, <1>3 DEF FitAt
<1> HIDE DEF at
<1>5. QED BY <1>1, <1>4 DEF Fit

\* What a ring that fits is like.
LEMMA FitIs ==
    ASSUME NEW d \in Nat, NEW r, NEW v, NEW m, Fit(d, r, v, m)
    PROVE  /\ v \in Views /\ m \in Nat /\ m <= Len(v.past)
           /\ d = 0 => m = Len(v.past)
           /\ d > 0 => IsKey(r[0]) /\ m < Len(v.past)
           /\ \A j \in 0..d - 1 :
                 r[j].op = "times" => j > 0 /\ r[j].n >= 2 /\ r[j - 1].op \notin {"times", "key"}
<1>1. PICK at \in [0..d -> Views] : FitAt(d, r, at) /\ at[d] = v /\ Len(at[0].past) = m
  BY DEF Fit
<1>2. 0 \in 0..d /\ d \in 0..d /\ 0 <= d
  OBVIOUS
<1>3. v \in Views /\ m \in Nat /\ Len(v.past) \in Nat /\ at[0] \in Views
  BY <1>1, <1>2, ViewIs
<1>4. m <= Len(v.past) /\ (d = 0 => m = Len(v.past))
  BY <1>1, <1>2 DEF FitAt
<1>5. \A j \in 0..d - 1 :
          r[j].op = "times" => j > 0 /\ r[j].n >= 2 /\ r[j - 1].op \notin {"times", "key"}
  BY <1>1 DEF FitAt, Link
<1>6. ASSUME d > 0 PROVE IsKey(r[0]) /\ m < Len(v.past)
  <2>1. IsKey(r[0]) /\ r[0].op = "key"
    BY <1>1, <1>6 DEF FitAt, IsKey
  <2>2. 0 \in 0..d - 1 /\ 1 \in 0..d /\ 1 <= d /\ 0 + 1 = 1
    BY <1>6
  <2>3. Link(r, at, 0) /\ at[1] \in Views
    BY <1>1, <2>2 DEF FitAt
  <2>4. Undoes(r[0], at[1], at[0])
    BY <2>1, <2>2, <2>3 DEF Link
  <2>5. at[1].past = Append(at[0].past, Shot(at[0], r[0].n)) /\ r[0].n \in 0..Length(at[0])
    BY <2>1, <2>4 DEF Undoes, Moves, MoveOps
  <2>6. Len(at[1].past) = Len(at[0].past) + 1
    <3>1. r[0].n \in Nat
      BY <1>3, <2>5, ViewIs
    <3>2. Shot(at[0], r[0].n) \in AllSeen /\ at[0].past \in Seq(AllSeen)
      BY <1>3, <3>1, ViewIs
    <3>3. QED BY <2>5, <3>2, AppendProperties
  <2>7. Len(at[1].past) <= Len(v.past)
    BY <1>1, <1>2, <2>2 DEF FitAt
  <2>8. QED BY <1>1, <1>3, <2>1, <2>6, <2>7
<1>7. QED BY <1>3, <1>4, <1>5, <1>6

\* One entry more.
LEMMA FitPush ==
    ASSUME NEW d \in Nat, NEW r, NEW s, \A j \in 0..d - 1 : s[j] = r[j],
           NEW v, NEW x \in Views, NEW m, Fit(d, r, v, m),
           IF s[d].op = "times"
           THEN /\ d > 0 /\ s[d].n = 2 /\ r[d - 1].op \notin {"times", "key"}
                /\ Undoes(r[d - 1], x, v)
           ELSE Undoes(s[d], x, v) /\ (d = 0 => IsKey(s[d]))
    PROVE  Fit(d + 1, s, x, m)
<1>1. Fit(d, s, v, m)
  BY FitSame
<1>2. PICK at \in [0..d -> Views] : FitAt(d, s, at) /\ at[d] = v /\ Len(at[0].past) = m
  BY <1>1 DEF Fit
<1> DEFINE new == [j \in 0..d + 1 |-> IF j = d + 1 THEN x ELSE at[j]]
<1>3. \A j \in 0..d + 1 : j # d + 1 => j \in 0..d
  OBVIOUS
<1>4. new \in [0..d + 1 -> Views]
  BY <1>2, <1>3
<1>5. /\ new[d + 1] = x /\ new[d] = v
      /\ \A j \in 0..d : new[j] = at[j]
  <2>1. d + 1 \in 0..d + 1 /\ d \in 0..d + 1 /\ d # d + 1
        /\ \A j \in 0..d : j \in 0..d + 1 /\ j # d + 1
    OBVIOUS
  <2>2. QED BY <1>2, <2>1
<1> HIDE DEF new
<1>6. v \in Views /\ Len(v.past) \in Nat /\ Len(x.past) \in Nat
  <2>1. v \in Views
    BY <1>2
  <2>2. QED BY <2>1, ViewIs
<1>7. d > 0 => s[d - 1] = r[d - 1]
  BY DEF Fit
<1>8. Len(v.past) <= Len(x.past)
  BY <1>6, UndoesPast
<1>9. Link(s, new, d)
  <2>1. CASE s[d].op = "times"
    <3>1. /\ d > 0 /\ s[d].n = 2 /\ s[d - 1].op \notin {"times", "key"}
          /\ Undoes(s[d - 1], x, v)
      BY <1>7, <2>1
    <3>2. Chain(s[d - 1], 1, x, v)
      BY <1>6, <3>1, ChainShort
    <3>3. s[d].n - 1 = 1 /\ s[d].n >= 2
      BY <3>1
    <3>4. QED BY <1>5, <2>1, <3>1, <3>2, <3>3 DEF Link
  <2>2. CASE s[d].op # "times"
    BY <1>5, <2>2 DEF Link
  <2>3. QED BY <2>1, <2>2
<1>10. ASSUME NEW j \in 0..(d + 1) - 1 PROVE Link(s, new, j)
  <2>1. CASE j = d
    BY <1>9, <2>1
  <2>2. CASE j # d
    <3>1. j \in 0..d - 1 /\ j \in 0..d /\ j + 1 \in 0..d
      BY <2>2
    <3>2. Link(s, at, j) /\ new[j] = at[j] /\ new[j + 1] = at[j + 1]
      BY <1>2, <1>5, <3>1 DEF FitAt
    <3>3. QED BY <3>2 DEF Link
  <2>3. QED BY <2>1, <2>2
<1>11. ASSUME NEW i \in 0..d + 1, NEW j \in 0..d + 1, i <= j
       PROVE  Len(new[i].past) <= Len(new[j].past)
  <2>1. CASE j \in 0..d
    <3>1. i \in 0..d
      BY <1>11, <2>1
    <3>2. QED BY <1>2, <1>5, <1>11, <2>1, <3>1 DEF FitAt
  <2>2. CASE j = d + 1 /\ i \in 0..d
    <3>1. i <= d /\ d \in 0..d
      BY <2>2
    <3>2. Len(at[i].past) <= Len(v.past)
      BY <1>2, <2>2, <3>1 DEF FitAt
    <3>3. Len(at[i].past) \in Nat
      BY <1>2, <2>2, ViewIs
    <3>4. Len(at[i].past) <= Len(x.past)
      BY <1>6, <1>8, <3>2, <3>3
    <3>5. QED BY <1>5, <2>2, <3>4
  <2>3. CASE j = d + 1 /\ i = d + 1
    BY <1>5, <1>6, <2>3
  <2>4. QED BY <2>1, <2>2, <2>3
<1>12. d > 0 => IsKey(s[0])
  BY <1>2 DEF FitAt
<1>13. d = 0 => IsKey(s[0])
  BY DEF IsKey
<1>14. FitAt(d + 1, s, new)
  BY <1>10, <1>11, <1>12, <1>13 DEF FitAt
<1>15. Len(new[0].past) = m
  BY <1>2, <1>5
<1>16. QED BY <1>4, <1>5, <1>14, <1>15 DEF Fit

\* The oldest entries gone.
LEMMA FitDrop ==
    ASSUME NEW d \in Nat, NEW k \in 0..d, NEW r, NEW s,
           \A j \in 0..d - k - 1 : s[j] = r[j + k],
           k < d => IsKey(r[k]),
           NEW v, NEW m, Fit(d, r, v, m)
    PROVE  \E n \in Nat : m <= n /\ Fit(d - k, s, v, n)
<1>1. PICK at \in [0..d -> Views] : FitAt(d, r, at) /\ at[d] = v /\ Len(at[0].past) = m
  BY DEF Fit
<1> DEFINE new == [j \in 0..d - k |-> at[j + k]]
<1>2. /\ \A j \in 0..d - k : j + k \in 0..d
      /\ \A j \in 0..d - k - 1 : j \in 0..d - k /\ j + 1 \in 0..d - k /\ j + k \in 0..d - 1
                                 /\ (j + 1) + k = (j + k) + 1
      /\ d - k \in 0..d - k /\ 0 \in 0..d - k /\ (d - k) + k = d /\ 0 + k = k
      /\ k \in 0..d /\ 0 \in 0..d /\ 0 <= k
  OBVIOUS
<1>3. new \in [0..d - k -> Views]
  BY <1>1, <1>2
<1>4. \A j \in 0..d - k : new[j] = at[j + k]
  OBVIOUS
<1> HIDE DEF new
<1>5. new[d - k] = v /\ new[0] = at[k]
  BY <1>1, <1>2, <1>4
<1>6. ASSUME NEW i \in 0..d - k, NEW j \in 0..d - k, i <= j
      PROVE  Len(new[i].past) <= Len(new[j].past)
  <2>1. i + k \in 0..d /\ j + k \in 0..d /\ i + k <= j + k
    BY <1>6
  <2>2. Len(at[i + k].past) <= Len(at[j + k].past)
    BY <1>1, <2>1 DEF FitAt
  <2>3. QED BY <1>4, <2>2
<1>7. ASSUME NEW j \in 0..d - k - 1 PROVE Link(s, new, j)
  <2>1. Link(r, at, j + k)
    BY <1>1, <1>2 DEF FitAt
  <2>2. s[j] = r[j + k] /\ new[j] = at[j + k] /\ new[j + 1] = at[(j + k) + 1]
    <3>1. new[j + 1] = at[(j + 1) + k]
      BY <1>2, <1>4
    <3>2. QED BY <1>2, <1>4, <3>1
  <2>3. CASE r[j + k].op = "times"
    <3>1. /\ j + k > 0 /\ r[j + k].n >= 2 /\ r[j + k - 1].op \notin {"times", "key"}
          /\ Chain(r[j + k - 1], r[j + k].n - 1, at[(j + k) + 1], at[j + k])
      BY <2>1, <2>3 DEF Link
    <3>2. j # 0
      <4>1. SUFFICES ASSUME j = 0 PROVE FALSE
        OBVIOUS
      <4>2. k < d /\ j + k = k
        BY <4>1
      <4>3. QED BY <2>3, <4>2 DEF IsKey
    <3>3. j > 0 /\ j - 1 \in 0..d - k - 1 /\ (j - 1) + k = j + k - 1
      BY <3>2
    <3>4. s[j - 1] = r[j + k - 1]
      BY <3>3
    <3>5. QED BY <2>2, <2>3, <3>1, <3>3, <3>4 DEF Link
  <2>4. CASE r[j + k].op # "times"
    BY <2>1, <2>2, <2>4 DEF Link
  <2>5. QED BY <2>3, <2>4
<1>8. ASSUME d - k > 0 PROVE IsKey(s[0])
  <2>1. 0 \in 0..d - k - 1 /\ 0 + k = k /\ k < d
    BY <1>8
  <2>2. s[0] = r[k]
    BY <2>1
  <2>3. QED BY <2>1, <2>2
<1>9. FitAt(d - k, s, new)
  BY <1>6, <1>7, <1>8 DEF FitAt
<1>10. Len(at[k].past) \in Nat /\ m <= Len(at[k].past)
  <2>1. at[k] \in Views
    BY <1>1, <1>2
  <2>2. Len(at[k].past) \in Nat
    BY <2>1, ViewIs
  <2>3. QED BY <1>1, <1>2, <2>2 DEF FitAt
<1>11. Fit(d - k, s, v, Len(at[k].past))
  BY <1>3, <1>5, <1>9 DEF Fit
<1>12. QED BY <1>10, <1>11

\* What is below the top of a ring that fits.
LEMMA FitBelow ==
    ASSUME NEW d \in Nat, d > 0, NEW r, NEW at \in [0..d -> Views], FitAt(d, r, at)
    PROVE  Fit(d - 1, r, at[d - 1], Len(at[0].past))
<1> DEFINE new == [j \in 0..d - 1 |-> at[j]]
<1>1. \A j \in 0..d - 1 : j \in 0..d
  OBVIOUS
<1>2. new \in [0..d - 1 -> Views]
  BY <1>1
<1>3. \A j \in 0..d - 1 : new[j] = at[j]
  OBVIOUS
<1>4. d - 1 \in 0..d - 1 /\ 0 \in 0..d - 1
  OBVIOUS
<1> HIDE DEF new
<1>5. ASSUME NEW j \in 0..(d - 1) - 1 PROVE Link(r, new, j)
  <2>1. j \in 0..d - 1 /\ j + 1 \in 0..d - 1
    OBVIOUS
  <2>2. Link(r, at, j) /\ new[j] = at[j] /\ new[j + 1] = at[j + 1]
    BY <1>3, <2>1 DEF FitAt
  <2>3. QED BY <2>2 DEF Link
<1>6. ASSUME NEW i \in 0..d - 1, NEW j \in 0..d - 1, i <= j
      PROVE  Len(new[i].past) <= Len(new[j].past)
  BY <1>1, <1>3, <1>6 DEF FitAt
<1>7. FitAt(d - 1, r, new)
  BY <1>5, <1>6 DEF FitAt
<1>8. QED BY <1>2, <1>3, <1>4, <1>7 DEF Fit

\* A command on top that is not repeated is popped.
LEMMA FitTop ==
    ASSUME NEW d \in Nat, d > 0, NEW r, NEW v, NEW m, Fit(d, r, v, m), r[d - 1].op # "times"
    PROVE  \E w \in Views : Undoes(r[d - 1], v, w) /\ Fit(d - 1, r, w, m)
<1>1. PICK at \in [0..d -> Views] : FitAt(d, r, at) /\ at[d] = v /\ Len(at[0].past) = m
  BY DEF Fit
<1>2. d - 1 \in 0..d - 1 /\ d - 1 \in 0..d /\ (d - 1) + 1 = d
  OBVIOUS
<1>3. Link(r, at, d - 1) /\ at[d - 1] \in Views
  BY <1>1, <1>2 DEF FitAt
<1>4. Undoes(r[d - 1], v, at[d - 1])
  BY <1>1, <1>2, <1>3 DEF Link
<1>5. Fit(d - 1, r, at[d - 1], m)
  BY <1>1, FitBelow
<1>6. QED BY <1>3, <1>4, <1>5

\* Another count on top.
LEMMA FitCount ==
    ASSUME NEW d \in Nat, d > 0, NEW r, NEW s, \A j \in 0..d - 2 : s[j] = r[j],
           NEW at \in [0..d -> Views], FitAt(d, r, at), r[d - 1].op = "times",
           NEW n \in Nat, n >= 2, s[d - 1].op = "times", s[d - 1].n = n,
           NEW x \in Views, x.past = at[d].past, Chain(r[d - 2], n - 1, x, at[d - 1])
    PROVE  Fit(d, s, x, Len(at[0].past))
<1>1. /\ d - 1 \in 0..d - 1 /\ (d - 1) + 1 = d /\ d \in 0..d /\ d - 1 \in 0..d
      /\ (d - 1) - 1 = d - 2
  OBVIOUS
<1>2. Link(r, at, d - 1)
  BY <1>1 DEF FitAt
<1>3. d - 1 > 0 /\ r[d - 2].op \notin {"times", "key"}
  BY <1>1, <1>2 DEF Link
<1> DEFINE new == [j \in 0..d |-> IF j = d THEN x ELSE at[j]]
<1>4. new \in [0..d -> Views]
  OBVIOUS
<1>5. new[d] = x /\ \A j \in 0..d - 1 : new[j] = at[j]
  BY <1>1
<1> HIDE DEF new
<1>6. s[d - 2] = r[d - 2] /\ s[0] = r[0]
  <2>1. d - 2 \in 0..d - 2 /\ 0 \in 0..d - 2
    BY <1>3
  <2>2. QED BY <2>1
<1>7. Link(s, new, d - 1)
  <2>1. new[(d - 1) + 1] = x /\ new[d - 1] = at[d - 1] /\ s[(d - 1) - 1] = r[d - 2]
    BY <1>1, <1>5, <1>6
  <2>2. QED BY <1>3, <2>1 DEF Link
<1>8. ASSUME NEW j \in 0..d - 1 PROVE Link(s, new, j)
  <2>1. CASE j = d - 1
    BY <1>7, <2>1
  <2>2. CASE j # d - 1
    <3>1. j \in 0..d - 2 /\ j + 1 \in 0..d - 1
      BY <2>2
    <3>2. Link(r, at, j) /\ new[j] = at[j] /\ new[j + 1] = at[j + 1] /\ s[j] = r[j]
      BY <1>5, <3>1 DEF FitAt
    <3>3. ASSUME j > 0 PROVE s[j - 1] = r[j - 1]
      <4>1. j - 1 \in 0..d - 2
        BY <3>1, <3>3
      <4>2. QED BY <4>1
    <3>4. QED BY <3>2, <3>3 DEF Link
  <2>3. QED BY <2>1, <2>2
<1>9. ASSUME NEW i \in 0..d, NEW j \in 0..d, i <= j
      PROVE  Len(new[i].past) <= Len(new[j].past)
  <2>1. \A k \in 0..d : new[k].past = at[k].past
    <3>1. ASSUME NEW k \in 0..d PROVE new[k].past = at[k].past
      <4>1. k = d \/ k \in 0..d - 1
        OBVIOUS
      <4>2. QED BY <1>5, <4>1
    <3>2. QED BY <3>1
  <2>2. QED BY <1>9, <2>1 DEF FitAt
<1>10. IsKey(s[0])
  BY <1>6 DEF FitAt
<1>11. FitAt(d, s, new)
  BY <1>8, <1>9, <1>10 DEF FitAt
<1>12. new[0] = at[0]
  BY <1>3, <1>5
<1>13. QED BY <1>4, <1>5, <1>11, <1>12 DEF Fit

\* A repeated command on top is popped once.
LEMMA FitTimes ==
    ASSUME NEW d \in Nat, d > 0, NEW r, NEW v, NEW m, Fit(d, r, v, m),
           r[d - 1].op = "times", r[d - 1].n \in Int
    PROVE  /\ d > 1 /\ r[d - 1].n >= 2 /\ r[d - 2].op \notin {"times", "key"}
           /\ \E w \in Views :
                 /\ Undoes(r[d - 2], v, w)
                 /\ r[d - 1].n = 2 => Fit(d - 1, r, w, m)
                 /\ r[d - 1].n > 2 =>
                       \A s : /\ \A j \in 0..d - 2 : s[j] = r[j]
                              /\ s[d - 1].op = "times" /\ s[d - 1].n = r[d - 1].n - 1
                              => Fit(d, s, w, m)
<1>1. PICK at \in [0..d -> Views] : FitAt(d, r, at) /\ at[d] = v /\ Len(at[0].past) = m
  BY DEF Fit
<1>2. d - 1 \in 0..d - 1 /\ (d - 1) + 1 = d /\ d - 1 \in 0..d /\ (d - 1) - 1 = d - 2 /\ d \in 0..d
  OBVIOUS
<1>3. Link(r, at, d - 1) /\ at[d - 1] \in Views /\ v \in Views
  BY <1>1, <1>2 DEF FitAt
<1>4. /\ d - 1 > 0 /\ r[d - 1].n >= 2 /\ r[d - 2].op \notin {"times", "key"}
      /\ Chain(r[d - 2], r[d - 1].n - 1, v, at[d - 1])
  BY <1>1, <1>2, <1>3 DEF Link
<1> DEFINE k == r[d - 1].n - 1
<1>5. k \in Nat /\ k > 0
  BY <1>4
<1>6. PICK w \in Views : Undoes(r[d - 2], v, w) /\ Chain(r[d - 2], k - 1, w, at[d - 1])
  <2> HIDE DEF k
  <2>1. Chain(r[d - 2], k, v, at[d - 1])
    BY <1>4 DEF k
  <2>2. QED BY <1>3, <1>5, <2>1, ChainFirst
<1>7. w.past = at[d].past
  BY <1>1, <1>3, <1>4, <1>6, UndoesPast
<1>8. ASSUME r[d - 1].n = 2 PROVE Fit(d - 1, r, w, m)
  <2>1. k - 1 = 0
    BY <1>8
  <2>2. w = at[d - 1]
    BY <1>3, <1>6, <2>1, ChainShort
  <2>3. QED BY <1>1, <2>2, FitBelow
<1>9. ASSUME r[d - 1].n > 2, NEW s, \A j \in 0..d - 2 : s[j] = r[j],
             s[d - 1].op = "times", s[d - 1].n = r[d - 1].n - 1
      PROVE  Fit(d, s, w, m)
  <2>1. k >= 2 /\ s[d - 1].n = k
    BY <1>9
  <2> HIDE DEF k
  <2>2. QED BY <1>1, <1>5, <1>6, <1>7, <1>9, <2>1, FitCount
<1>10. d > 1
  BY <1>4
<1>11. QED BY <1>4, <1>6, <1>8, <1>9, <1>10

\* A command on top is repeated once more.
LEMMA FitMore ==
    ASSUME NEW d \in Nat, d > 0, NEW r, NEW s, \A j \in 0..d - 2 : s[j] = r[j],
           NEW v, NEW m, Fit(d, r, v, m), r[d - 1].op = "times", r[d - 1].n \in Int,
           s[d - 1].op = "times", s[d - 1].n = r[d - 1].n + 1,
           NEW x \in Views, Undoes(r[d - 2], x, v)
    PROVE  Fit(d, s, x, m)
<1>1. PICK at \in [0..d -> Views] : FitAt(d, r, at) /\ at[d] = v /\ Len(at[0].past) = m
  BY DEF Fit
<1>2. d - 1 \in 0..d - 1 /\ (d - 1) + 1 = d /\ d - 1 \in 0..d /\ (d - 1) - 1 = d - 2 /\ d \in 0..d
  OBVIOUS
<1>3. Link(r, at, d - 1) /\ at[d - 1] \in Views /\ v \in Views
  BY <1>1, <1>2 DEF FitAt
<1>4. /\ d - 1 > 0 /\ r[d - 1].n >= 2 /\ r[d - 2].op \notin {"times", "key"}
      /\ Chain(r[d - 2], r[d - 1].n - 1, v, at[d - 1])
  BY <1>1, <1>2, <1>3 DEF Link
<1> DEFINE k == r[d - 1].n - 1
           n == r[d - 1].n + 1
<1>5. k \in Nat /\ n \in Nat /\ n >= 2 /\ n - 1 = k + 1
  BY SMTT(40), <1>4
<1>6. Chain(r[d - 2], k, v, at[d - 1]) /\ s[d - 1].n = n
  BY <1>4
<1> HIDE DEF k, n
<1>7. Chain(r[d - 2], n - 1, x, at[d - 1])
  BY <1>3, <1>5, <1>6, ChainLonger
<1>8. x.past = at[d].past
  BY <1>1, <1>3, <1>4, UndoesPast
<1>9. QED BY <1>1, <1>5, <1>6, <1>7, <1>8, FitCount

\* It is the entries that matter, wherever they lie.
LEMMA FitsIs ==
    ASSUME NEW e, Formed(e), NEW d, d = Depth(e), NEW r,
           \A j \in 0..d - 1 : r[j] = Item(e, j), NEW v, NEW m
    PROVE  /\ Fits(e, v, m) => Fit(d, r, v, m)
           /\ Fit(d, r, v, m) => Fits(e, v, m)
<1> DEFINE s == [j \in 0..d - 1 |-> Item(e, j)]
<1>1. d \in Nat
  BY Places
<1>2. \A j \in 0..d - 1 : s[j] = r[j] /\ r[j] = s[j]
  OBVIOUS
<1>3. Fits(e, v, m) <=> Fit(d, s, v, m)
  BY DEF Fits
<1> HIDE DEF s
<1>4. Fit(d, s, v, m) => Fit(d, r, v, m)
  BY <1>1, <1>2, FitSame
<1>5. Fit(d, r, v, m) => Fit(d, s, v, m)
  BY <1>1, <1>2, FitSame
<1>6. QED BY <1>3, <1>4, <1>5

\* The same ring in two editors.
LEMMA SameFits ==
    ASSUME NEW e, NEW f, SameRing(e, f)
    PROVE  /\ Depth(f) = Depth(e) /\ (Shape(e) => Shape(f)) /\ (Shape(f) => Shape(e))
           /\ \A j : Item(f, j) = Item(e, j)
           /\ \A v, m : Fits(f, v, m) <=> Fits(e, v, m)
<1>1. Depth(f) = Depth(e) /\ f.stack_size = e.stack_size /\ f.stack_bottom = e.stack_bottom
  BY DEF SameRing, Depth, Slot
<1>2. \A j : Item(f, j) = Item(e, j)
  BY DEF SameRing, Item, At, Slot
<1>3. [j \in 0..Depth(f) - 1 |-> Item(f, j)] = [j \in 0..Depth(e) - 1 |-> Item(e, j)]
  BY <1>1, <1>2
<1>4. \A v, m : Fits(f, v, m) <=> Fits(e, v, m)
  BY <1>1, <1>3 DEF Fits
<1>5. (Shape(e) => Shape(f)) /\ (Shape(f) => Shape(e))
  BY <1>1 DEF Shape
<1>6. QED BY <1>1, <1>2, <1>4, <1>5

\* A larger ring holds the same.
LEMMA EnlargeFits ==
    ASSUME NEW e, Formed(e), Shape(e)
    PROVE  LET f == Enlarge(e)
           IN  /\ Kin(e, f) /\ Shape(f) /\ Roomy(f) /\ Depth(f) = Depth(e)
               /\ f.misled = e.misled
               /\ \A j \in 0..Depth(e) - 1 : Item(f, j) = Item(e, j)
               /\ \A v, m : Fits(e, v, m) => Fits(f, v, m)
<1> DEFINE f == Enlarge(e)
           big == [i \in 0..2 * e.stack_size - 1 |->
                       IF i < e.stack_size THEN e.undo_stack[i] ELSE NoEntry]
<1>1. Kin(e, f) /\ f.misled = e.misled
  BY EnlargeFormed DEF Kin
<1>2. /\ e.stack_size \in Nat /\ e.stack_size >= 5
      /\ e.stack_pointer \in 0..e.stack_size - 1
      /\ e.stack_bottom \in 0..e.stack_size - 1
      /\ Depth(e) \in 0..e.stack_size - 1
  BY SlotIn, Places
<1>3. /\ Shape(f) /\ Roomy(f) /\ Depth(f) = Depth(e)
      /\ \A j \in 0..Depth(e) - 1 : Item(f, j) = Item(e, j)
  <2>1. CASE e.stack_pointer > e.stack_size - StackMargin /\ e.stack_size < MaxUndo
    <3>1. f = [e EXCEPT !.stack_size = 2 * @, !.undo_stack = big]
      BY <2>1 DEF Enlarge
    <3>2. PICK s \in Nat : s = 2 * e.stack_size
      BY <1>2
    <3>3. /\ f.stack_size = s /\ f.undo_stack = big
          /\ f.stack_pointer = e.stack_pointer /\ f.stack_bottom = 0 /\ e.stack_bottom = 0
      BY <3>1, <3>2, <2>1 DEF Formed, Edits, Shape
    <3> HIDE DEF f
    <3>4. /\ \A i \in 0..e.stack_size - 1 : i % e.stack_size = i
          /\ \A i \in 0..s - 1 : i % s = i
          /\ s > 0 /\ e.stack_pointer \in 0..s - 1
      BY <1>2, <3>2, Around
    <3>5. Depth(e) = e.stack_pointer
      BY <1>2, <3>3, <3>4 DEF Depth, Slot
    <3>6. Depth(f) = e.stack_pointer
      <4>1. f.stack_pointer - f.stack_bottom = e.stack_pointer
        BY <1>2, <3>3
      <4>2. e.stack_pointer % s = e.stack_pointer
        BY <3>4
      <4>3. QED BY <3>3, <4>1, <4>2 DEF Depth, Slot
    <3>7. ASSUME NEW j \in 0..Depth(e) - 1 PROVE Item(f, j) = Item(e, j)
      <4>1. j \in 0..e.stack_size - 1 /\ j \in 0..s - 1 /\ j < e.stack_size /\ 0 + j = j
        BY <1>2, <3>2
      <4>2. At(e, j) = j /\ At(f, j) = j
        BY <3>3, <3>4, <4>1 DEF At, Slot
      <4>3. big[j] = e.undo_stack[j]
        BY <3>2, <4>1
      <4> HIDE DEF big
      <4>4. QED BY <3>3, <4>2, <4>3 DEF Item
    <3>8. Shape(f)
      <4>1. Depth(e) <= e.stack_size - 4 /\ e.stack_size >= StartStack /\ StartStack \in Nat
        BY Bounds DEF Shape
      <4>2. Depth(f) <= s - 4 /\ s >= StartStack
        BY <1>2, <3>2, <3>5, <3>6, <4>1
      <4>3. QED BY <3>3, <4>2 DEF Shape
    <3>9. Roomy(f)
      <4>1. StackMargin \in Nat /\ StackMargin <= e.stack_size
        BY <1>2, Bounds DEF Shape
      <4>2. e.stack_pointer <= e.stack_size - 4
        BY <3>5 DEF Shape
      <4>3. e.stack_pointer <= s - StackMargin
        BY <1>2, <3>2, <4>1, <4>2
      <4>4. QED BY <3>3, <4>3 DEF Roomy
    <3>10. QED BY <3>5, <3>6, <3>7, <3>8, <3>9
  <2>2. CASE ~(e.stack_pointer > e.stack_size - StackMargin /\ e.stack_size < MaxUndo)
    <3>1. f = e
      BY <2>2 DEF Enlarge
    <3>2. Roomy(e)
      BY <1>2, <2>2, Bounds DEF Roomy
    <3> HIDE DEF f
    <3>3. QED BY <3>1, <3>2
  <2>3. QED BY <2>1, <2>2
<1> HIDE DEF f
<1>4. ASSUME NEW v, NEW m, Fits(e, v, m) PROVE Fits(f, v, m)
  <2> DEFINE r == [j \in 0..Depth(e) - 1 |-> Item(e, j)]
  <2>1. \A j \in 0..Depth(e) - 1 : r[j] = Item(f, j)
    BY <1>3
  <2>2. Fit(Depth(e), r, v, m)
    BY <1>4 DEF Fits
  <2> HIDE DEF r
  <2>3. Formed(f)
    BY <1>1 DEF Kin
  <2>4. QED BY <1>3, <2>1, <2>2, <2>3, FitsIs
<1>5. QED BY <1>1, <1>3, <1>4 DEF f

\* A full ring forgets its oldest entries, as many as k.
LEMMA RoomIs ==
    ASSUME NEW e, Formed(e)
    PROVE  LET f == MakeRoom(e)
           IN  /\ Kin(e, f) /\ f.stack_size = e.stack_size
               /\ f.stored = e.stored /\ f.misled = e.misled
               /\ Depth(e) \notin {e.stack_size - 2, e.stack_size - 3} => f = e
               /\ Depth(e) \in {e.stack_size - 2, e.stack_size - 3} =>
                  f = ForgetKey(e)
<1>1. /\ e.stack_size \in Nat /\ e.stack_size >= 5
      /\ e.stack_pointer \in 0..e.stack_size - 1
      /\ e.stack_bottom \in 0..e.stack_size - 1
  BY SlotIn
<1>2. \A i \in Int : /\ i \in 0..e.stack_size - 1 => Slot(e, i) = i
                     /\ i \in e.stack_size..2 * e.stack_size - 1 => Slot(e, i) = i - e.stack_size
                     /\ i \in -e.stack_size..-1 => Slot(e, i) = i + e.stack_size
  BY <1>1, Around DEF Slot
<1>3. Depth(e) = Slot(e, e.stack_pointer - e.stack_bottom)
  BY DEF Depth
<1>4. Slot(e, e.stack_pointer + 2) = e.stack_bottom <=> Depth(e) = e.stack_size - 2
  BY <1>1, <1>2, <1>3
<1>5. Slot(e, e.stack_pointer + 3) = e.stack_bottom <=> Depth(e) = e.stack_size - 3
  BY <1>1, <1>2, <1>3
<1>6. (\E i \in {2, 3} : Slot(e, e.stack_pointer + i) = e.stack_bottom)
          <=> Depth(e) \in {e.stack_size - 2, e.stack_size - 3}
  BY <1>4, <1>5
<1>7. Kin(e, e)
  BY KinSelf
<1>8. /\ Kin(e, ForgetKey(e)) /\ ForgetKey(e).stack_size = e.stack_size
      /\ ForgetKey(e).stored = e.stored /\ ForgetKey(e).misled = e.misled
  BY ForgetKeyIs
<1>9. QED BY <1>6, <1>7, <1>8 DEF MakeRoom

\* What is forgotten is the oldest.
LEMMA ForgetFits ==
    ASSUME NEW e, Formed(e), Depth(e) > 0, NEW v, NEW m, Fits(e, v, m)
    PROVE  LET f == ForgetKey(e)
           IN  /\ Kin(e, f) /\ f.stack_size = e.stack_size /\ f.misled = e.misled
               /\ Depth(f) \in Nat /\ Depth(f) < Depth(e)
               /\ Depth(f) > 0 => IsKey(Item(f, 0))
               /\ \E n \in Nat : m <= n /\ Fits(f, v, n)
<1> DEFINE f == ForgetKey(e)
           r == [j \in 0..Depth(e) - 1 |-> Item(e, j)]
           s == [j \in 0..Depth(f) - 1 |-> Item(f, j)]
<1>1. Kin(e, f) /\ f.stack_size = e.stack_size /\ f.misled = e.misled
  BY ForgetKeyIs
<1>2. PICK k \in 1..Depth(e) :
          /\ Depth(f) = Depth(e) - k
          /\ \A j \in 0..Depth(f) - 1 : Item(f, j) = Item(e, j + k)
          /\ k < Depth(e) => IsKey(Item(e, k))
  BY ForgetKeyIs
<1> HIDE DEF f
<1>3. Depth(e) \in Nat /\ Depth(f) \in Nat /\ Formed(f)
  BY <1>1, Places DEF Kin
<1>4. Depth(f) > 0 => IsKey(Item(f, 0))
  <2>1. ASSUME Depth(f) > 0 PROVE IsKey(Item(f, 0))
    <3>1. 0 \in 0..Depth(f) - 1 /\ 0 + k = k /\ k < Depth(e)
      BY <1>2, <1>3, <2>1
    <3>2. Item(f, 0) = Item(e, k)
      BY <1>2, <3>1
    <3>3. QED BY <1>2, <3>1, <3>2
  <2>2. QED BY <2>1
<1>5. k \in 0..Depth(e) /\ Fit(Depth(e), r, v, m)
  BY <1>3 DEF Fits
<1>6. \A j \in 0..Depth(e) - k - 1 : s[j] = r[j + k]
  <2>1. \A j \in 0..Depth(e) - k - 1 : j \in 0..Depth(f) - 1 /\ j + k \in 0..Depth(e) - 1
    BY <1>2, <1>3
  <2>2. QED BY <1>2, <2>1
<1>7. k < Depth(e) => IsKey(r[k])
  BY <1>2, <1>3
<1> HIDE DEF r, s
<1>8. \E n \in Nat : m <= n /\ Fit(Depth(e) - k, s, v, n)
  BY <1>3, <1>5, <1>6, <1>7, FitDrop
<1>9. \E n \in Nat : m <= n /\ Fits(f, v, n)
  BY <1>2, <1>8 DEF Fits, s
<1>10. QED BY <1>1, <1>2, <1>3, <1>4, <1>9 DEF f

\* What is stored is found again.
LEMMA StoreFits ==
    ASSUME NEW e, Formed(e), Shape(e), Roomy(e), NEW c \in Entries,
           NEW v, NEW x \in Views, NEW m, Fits(e, v, m), Leads(e, c, x, v),
           Len(v.past) <= Len(x.past)
    PROVE  LET f == Store(e, c)
           IN  Shape(f) /\ \E n \in Nat : m <= n /\ Fits(f, x, n)
<1> DEFINE g == Stored(e, c)
           h == MakeRoom(g)
           f == EmptyUnlessKey(h)
           r == [j \in 0..Depth(e) - 1 |-> Item(e, j)]
           s == [j \in 0..Depth(g) - 1 |-> Item(g, j)]
<1>1. /\ e.stack_size \in Nat /\ e.stack_size >= 5 /\ Depth(e) \in Nat
      /\ Depth(e) <= e.stack_size - 4 /\ e.stack_pointer \in Nat
  BY SlotIn, Places DEF Shape
<1>2. /\ Kin(e, g) /\ g.stack_size = e.stack_size /\ g.stack_bottom = e.stack_bottom
      /\ Depth(g) = Depth(e) + 1
      /\ \A j \in 0..Depth(e) - 1 : Item(g, j) = Item(e, j)
      /\ Item(g, Depth(e)) = c
  BY <1>1, StoredIs
<1> HIDE DEF g
<1>3. Formed(g) /\ Depth(g) <= g.stack_size - 3 /\ Depth(g) > 0
  BY <1>1, <1>2 DEF Kin
<1>4. v \in Views /\ m \in Nat /\ m <= Len(v.past) /\ (Depth(e) > 0 => IsKey(Item(e, 0)))
  <2>1. Fit(Depth(e), r, v, m)
    BY DEF Fits
  <2>2. Depth(e) > 0 => r[0] = Item(e, 0)
    BY <1>1
  <2> HIDE DEF r
  <2>3. QED BY <1>1, <2>1, <2>2, FitIs
<1>5. Len(x.past) \in Nat /\ Len(v.past) \in Nat
  BY <1>4, ViewIs
<1>6. /\ Formed(h) /\ h.stack_size = e.stack_size
      /\ Depth(g) # g.stack_size - 3 => h = g
      /\ Depth(g) = g.stack_size - 3 => h = ForgetKey(g)
  <2>1. Depth(g) # g.stack_size - 2
    BY <1>1, <1>2
  <2>2. QED BY <1>2, <1>3, <2>1, RoomIs DEF Kin
<1> HIDE DEF h
<1>7. /\ Formed(f) /\ f.stack_size = e.stack_size
      /\ Depth(h) = 0 \/ IsKey(Item(h, 0)) => f = h
      /\ ~(Depth(h) = 0 \/ IsKey(Item(h, 0))) => Depth(f) = 0 /\ f.stack_bottom = 0
  BY <1>6, EmptyIs DEF Kin
<1> HIDE DEF f
<1>8. CASE Depth(e) = 0 /\ ~IsKey(c)
  <2>1. h = g /\ Depth(g) = 1
    BY <1>1, <1>2, <1>6, <1>8
  <2>2. ~IsKey(Item(h, 0))
    BY <1>2, <1>8, <2>1
  <2>3. Depth(f) = 0 /\ f.stack_bottom = 0
    BY <1>7, <2>1, <2>2
  <2>4. Shape(f)
    BY <1>1, <1>7, <2>3 DEF Shape
  <2>5. Fits(f, x, Len(x.past))
    BY <2>3, FitEmpty DEF Fits
  <2>6. m <= Len(x.past)
    BY <1>4, <1>5
  <2>7. QED BY <1>5, <2>4, <2>5, <2>6 DEF Store, f, h, g
<1>9. CASE Depth(e) > 0 \/ IsKey(c)
  <2>1. Fits(g, x, m)
    <3>1. Fit(Depth(e), r, v, m)
      BY DEF Fits
    <3>2. \A j \in 0..Depth(e) - 1 : s[j] = r[j]
      BY <1>1, <1>2
    <3>3. s[Depth(e)] = c
      BY <1>1, <1>2
    <3>4. Depth(e) > 0 => r[Depth(e) - 1] = Item(e, Depth(e) - 1)
      BY <1>1
    <3> HIDE DEF r, s
    <3>5. IF s[Depth(e)].op = "times"
          THEN /\ Depth(e) > 0 /\ s[Depth(e)].n = 2
               /\ r[Depth(e) - 1].op \notin {"times", "key"}
               /\ Undoes(r[Depth(e) - 1], x, v)
          ELSE Undoes(s[Depth(e)], x, v) /\ (Depth(e) = 0 => IsKey(s[Depth(e)]))
      BY <1>1, <1>9, <3>3, <3>4 DEF Leads, IsKey
    <3>6. Fit(Depth(e) + 1, s, x, m)
      BY <1>1, <3>1, <3>2, <3>5, FitPush
    <3>7. QED BY <1>2, <3>6 DEF Fits, s
  <2>2. IsKey(Item(g, 0))
    <3>1. CASE Depth(e) = 0
      BY <1>2, <1>9, <3>1
    <3>2. CASE Depth(e) > 0
      <4>1. 0 \in 0..Depth(e) - 1
        BY <1>1, <3>2
      <4>2. QED BY <1>2, <1>4, <3>2, <4>1
    <3>3. QED BY <1>1, <3>1, <3>2
  <2>3. CASE Depth(g) # g.stack_size - 3
    <3>1. h = g /\ f = g
      BY <1>6, <1>7, <2>2, <2>3
    <3>2. Shape(g)
      BY <1>1, <1>2, <1>3, <2>3 DEF Shape
    <3>3. QED BY <1>4, <2>1, <3>1, <3>2 DEF Store, f, h, g
  <2>4. CASE Depth(g) = g.stack_size - 3
    <3>1. /\ h = ForgetKey(g) /\ Depth(h) \in Nat /\ Depth(h) < Depth(g)
          /\ Depth(h) > 0 => IsKey(Item(h, 0))
          /\ \E n \in Nat : m <= n /\ Fits(h, x, n)
      BY <1>3, <1>6, <2>1, <2>4, ForgetFits
    <3>2. f = h
      BY <1>7, <3>1
    <3>3. ~(e.stack_size < MaxUndo)
      <4>1. SUFFICES ASSUME e.stack_size < MaxUndo PROVE FALSE
        OBVIOUS
      <4>2. e.stack_bottom = 0 /\ e.stack_pointer <= e.stack_size - 5
        BY <1>1, <4>1, Bounds DEF Shape, Roomy
      <4>3. Depth(e) = e.stack_pointer
        BY SMTT(40), <1>1, <4>2, Around DEF Depth, Slot
      <4>4. QED BY <1>1, <1>2, <2>4, <4>2, <4>3
    <3>4. Shape(h)
      BY <1>1, <1>2, <1>6, <2>4, <3>1, <3>3 DEF Shape
    <3>5. QED BY <3>1, <3>2, <3>4 DEF Store, f, h, g
  <2>5. QED BY <2>3, <2>4
<1>10. QED BY <1>1, <1>8, <1>9

\* Another count in the top of the ring.
LEMMA CountItems ==
    ASSUME NEW e, Formed(e), Repeated(e), NEW n \in Int
    PROVE  LET f == WithCount(e, Slot(e, e.stack_pointer - 1), n)
           IN  /\ Formed(f) /\ Depth(f) = Depth(e) /\ (Shape(e) => Shape(f))
               /\ Depth(e) > 0 =>
                  /\ \A j \in 0..Depth(e) - 2 : Item(f, j) = Item(e, j)
                  /\ Item(f, Depth(e) - 1) = Entry(Item(e, Depth(e) - 1).op, n)
<1> DEFINE top == Slot(e, e.stack_pointer - 1)
           f == WithCount(e, top, n)
<1>1. top \in 0..e.stack_size - 1 /\ e.undo_stack[top].op = "times"
  BY TopIs DEF Repeated, Top
<1>2. /\ Kin(e, f)
      /\ f.undo_stack = [e.undo_stack EXCEPT ![top] = Entry(e.undo_stack[top].op, n)]
      /\ f.stack_size = e.stack_size
      /\ f.stack_pointer = e.stack_pointer /\ f.stack_bottom = e.stack_bottom
  BY <1>1, WithCountIs
<1> HIDE DEF f
<1>3. /\ Depth(f) = Depth(e) /\ \A j : At(f, j) = At(e, j)
      /\ Shape(e) => Shape(f)
  BY <1>2 DEF Depth, At, Slot, Shape
<1>4. ASSUME Depth(e) > 0
      PROVE  /\ \A j \in 0..Depth(e) - 2 : Item(f, j) = Item(e, j)
             /\ Item(f, Depth(e) - 1) = Entry(Item(e, Depth(e) - 1).op, n)
  <2>1. /\ Depth(e) \in 0..e.stack_size - 1 /\ e.stack_size \in Nat
        /\ top = At(e, Depth(e) - 1)
        /\ \A i, j \in 0..e.stack_size - 1 : At(e, i) = At(e, j) => i = j
        /\ \A j \in Int : At(e, j) \in 0..e.stack_size - 1
    BY <1>4, Places
  <2>2. e.undo_stack \in [0..e.stack_size - 1 -> Entries]
    BY DEF Formed, Ring
  <2>3. Item(f, Depth(e) - 1) = Entry(Item(e, Depth(e) - 1).op, n)
    <3>1. f.undo_stack[top] = Entry(e.undo_stack[top].op, n)
      BY <1>1, <1>2, <2>2
    <3>2. At(f, Depth(e) - 1) = top
      BY <1>3, <2>1
    <3>3. QED BY <2>1, <3>1, <3>2 DEF Item
  <2>4. ASSUME NEW j \in 0..Depth(e) - 2 PROVE Item(f, j) = Item(e, j)
    <3>1. j \in 0..e.stack_size - 1 /\ Depth(e) - 1 \in 0..e.stack_size - 1 /\ j # Depth(e) - 1
          /\ j \in Int
      BY <1>4, <2>1
    <3>2. At(e, j) # top /\ At(e, j) \in 0..e.stack_size - 1
      BY <2>1, <3>1
    <3>3. f.undo_stack[At(e, j)] = e.undo_stack[At(e, j)]
      BY <1>1, <1>2, <2>2, <3>2
    <3>4. QED BY <1>3, <3>3 DEF Item
  <2>5. QED BY <2>3, <2>4
<1>5. QED BY <1>2, <1>3, <1>4 DEF Kin, f

\* The ring without its top.
LEMMA PopItems ==
    ASSUME NEW e, Formed(e), Depth(e) > 0, NEW f,
           f.undo_stack = e.undo_stack, f.stack_size = e.stack_size,
           f.stack_bottom = e.stack_bottom,
           f.stack_pointer = Slot(e, e.stack_pointer - 1)
    PROVE  /\ Depth(f) = Depth(e) - 1 /\ (Shape(e) => Shape(f))
           /\ \A j : Item(f, j) = Item(e, j)
<1>1. /\ e.stack_size \in Nat /\ e.stack_size >= 5
      /\ e.stack_pointer \in 0..e.stack_size - 1
      /\ e.stack_bottom \in 0..e.stack_size - 1
  BY SlotIn
<1>2. \A i \in Int : /\ Slot(e, i) \in 0..e.stack_size - 1
                     /\ i \in 0..e.stack_size - 1 => Slot(e, i) = i
                     /\ i \in -e.stack_size..-1 => Slot(e, i) = i + e.stack_size
  BY <1>1, Around DEF Slot
<1>3. Depth(e) = Slot(e, e.stack_pointer - e.stack_bottom)
  BY DEF Depth
<1>4. Depth(f) = Slot(e, Slot(e, e.stack_pointer - 1) - e.stack_bottom)
  BY DEF Depth, Slot
<1>5. Depth(f) = Depth(e) - 1
  BY SMTT(40), <1>1, <1>2, <1>3, <1>4
<1>6. \A j : Item(f, j) = Item(e, j)
  BY DEF Item, At, Slot
<1>7. ASSUME Shape(e) PROVE Shape(f)
  <2>1. Depth(e) \in Nat
    BY Places
  <2>2. QED BY <1>1, <1>5, <1>7, <2>1 DEF Shape
<1>8. QED BY <1>5, <1>6, <1>7

\* A push on the ring keeps what the ring leads back from.
LEMMA OntoFits ==
    ASSUME NEW e, Formed(e), Shape(e), Roomy(e),
           NEW c \in Entries, c.op \notin {"times", "none"},
           NEW v, NEW x \in Views, NEW m, Fits(e, v, m), Undoes(c, x, v),
           ~PushOnto(e, c).misled
    PROVE  LET f == PushOnto(e, c)
           IN  /\ Shape(f)
               /\ \/ \E n \in Nat : m <= n /\ Fits(f, x, n)
                  \/ /\ IsKey(c) /\ Depth(f) > 0 /\ Fits(f, v, m)
                     /\ \E w \in Views : Undoes(c, v, w)
<1> DEFINE top == Slot(e, e.stack_pointer - 1)
           compared == e.stack_bottom \notin {top, Slot(e, e.stack_pointer - 2)}
           last == IF Repeated(e) THEN UnderTop(e) ELSE Top(e)
           same == compared /\ last = c
           d == Depth(e)
           r == [j \in 0..d - 1 |-> Item(e, j)]
           f == PushOnto(e, c)
<1>1. /\ f = IF same /\ IsKey(c) THEN e
             ELSE IF same /\ Repeated(e) THEN [e EXCEPT !.undo_stack[top].n = @ + 1]
             ELSE IF compared /\ Opposite(c, last) THEN Annihilate(e)
             ELSE Store(e, IF same THEN Entry("times", 2) ELSE c)
      /\ ~f.misled
  BY DEF PushOnto, LastEntry
<1>2. d \in Nat /\ (compared => d = 0 \/ d >= 3)
  BY Places
<1>3. /\ top \in 0..e.stack_size - 1 /\ Top(e) \in Entries /\ UnderTop(e) \in Entries
      /\ Top(e) = e.undo_stack[top]
      /\ d >= 1 => Top(e) = Item(e, d - 1)
      /\ d >= 2 => UnderTop(e) = Item(e, d - 2)
  BY TopIs DEF Top
<1>4. Fit(d, r, v, m) /\ v \in Views /\ m \in Nat /\ m <= Len(v.past)
  <2>1. Fit(d, r, v, m)
    BY DEF Fits
  <2> HIDE DEF r, d
  <2>2. QED BY <1>2, <2>1, FitIs
<1>5. /\ Len(v.past) <= Len(x.past) /\ Len(x.past) \in Nat /\ Len(v.past) \in Nat
      /\ m <= Len(x.past)
  <2>1. Len(v.past) <= Len(x.past)
    BY <1>4, UndoesPast
  <2>2. QED BY <1>4, <2>1, ViewIs
<1>6. \A g : Depth(g) = 0 => Fits(g, x, Len(x.past))
  <2>1. ASSUME NEW g, Depth(g) = 0 PROVE Fits(g, x, Len(x.past))
    BY <2>1, FitEmpty DEF Fits
  <2>2. QED BY <2>1
<1>7. /\ d >= 1 => r[d - 1] = Top(e) /\ r[d - 1] = Item(e, d - 1)
      /\ d >= 2 => r[d - 2] = UnderTop(e) /\ r[d - 2] = Item(e, d - 2)
  BY <1>2, <1>3
<1>8. \A j \in 0..d - 1 : r[j] = Item(e, j)
  OBVIOUS
<1> HIDE DEF f, r, d, top, compared, last
<1>9. CASE same /\ IsKey(c)
  <2>1. f = e
    BY <1>1, <1>9
  <2>2. CASE d = 0
    <3>1. Fits(f, x, Len(x.past))
      BY <1>6, <2>1, <2>2 DEF d
    <3>2. QED BY <1>5, <2>1, <3>1 DEF f
  <2>3. CASE d >= 3
    <3>1. ~Repeated(e)
      <4>1. SUFFICES ASSUME Repeated(e) PROVE FALSE
        OBVIOUS
      <4>2. r[d - 1].op = "times" /\ r[d - 1].n \in Int
        BY <1>2, <1>3, <1>7, <2>3, <4>1 DEF Repeated, Entries
      <4>3. r[d - 2].op # "key"
        BY <1>2, <1>4, <2>3, <4>2, FitTimes
      <4>4. r[d - 2] = c
        BY <1>2, <1>7, <1>9, <2>3, <4>1 DEF last
      <4>5. QED BY <1>9, <4>3, <4>4 DEF IsKey
    <3>2. r[d - 1] = c
      BY <1>2, <1>7, <1>9, <2>3, <3>1 DEF last
    <3>3. \E w \in Views : Undoes(c, v, w)
      <4>1. d > 0 /\ r[d - 1].op # "times"
        BY <1>2, <2>3, <3>2
      <4>2. QED BY <1>2, <1>4, <3>2, <4>1, FitTop
    <3>4. Depth(f) > 0 /\ Fits(f, v, m) /\ Shape(f)
      BY <1>2, <2>1, <2>3 DEF d
    <3>5. QED BY <1>9, <3>3, <3>4 DEF f
  <2>4. QED BY <1>2, <1>9, <2>2, <2>3
<1>10. CASE same /\ ~IsKey(c) /\ Repeated(e)
  <2> DEFINE n == Top(e).n + 1
  <2>1. n \in Int /\ n = Top(e).n + 1
    BY <1>3 DEF Entries
  <2>2. f = WithCount(e, top, n)
    BY <1>1, <1>3, <1>10 DEF WithCount
  <2> HIDE DEF n
  <2>3. /\ Formed(f) /\ Depth(f) = d /\ Shape(f)
        /\ d > 0 => /\ \A j \in 0..d - 2 : Item(f, j) = Item(e, j)
                    /\ Item(f, d - 1) = Entry(Item(e, d - 1).op, n)
    BY <1>10, <2>1, <2>2, CountItems DEF top, d
  <2>4. CASE d = 0
    <3>1. Fits(f, x, Len(x.past))
      BY <1>6, <2>3, <2>4
    <3>2. QED BY <1>5, <2>3, <3>1 DEF f
  <2>5. CASE d >= 3
    <3> DEFINE s == [j \in 0..d - 1 |-> Item(f, j)]
    <3>1. \A j \in 0..d - 2 : s[j] = r[j]
      BY <1>2, <1>8, <2>3, <2>5
    <3>2. s[d - 1] = Entry("times", n) /\ r[d - 1].op = "times" /\ r[d - 1].n \in Int
          /\ n = r[d - 1].n + 1
      <4>1. d - 1 \in 0..d - 1
        BY <1>2, <2>5
      <4>2. Item(e, d - 1) = Top(e)
        BY <1>2, <1>3, <2>5
      <4>3. QED
        BY <1>2, <1>3, <1>7, <1>10, <2>1, <2>3, <2>5, <4>1, <4>2 DEF Repeated, Entries
    <3>3. s[d - 1].op = "times" /\ s[d - 1].n = r[d - 1].n + 1
      BY <3>2 DEF Entry
    <3>4. r[d - 2] = c
      BY <1>2, <1>7, <1>10, <2>5 DEF last
    <3> HIDE DEF s
    <3>5. Fit(d, s, x, m)
      <4>1. d > 0 /\ Undoes(r[d - 2], x, v)
        BY <1>2, <2>5, <3>4
      <4>2. QED BY <1>2, <1>4, <3>1, <3>2, <3>3, <4>1, FitMore
    <3>6. Fits(f, x, m)
      BY <2>3, <3>5 DEF Fits, s
    <3>7. QED BY <1>4, <2>3, <3>6 DEF f
  <2>6. QED BY <1>2, <1>10, <2>4, <2>5
<1>11. CASE ~same /\ compared /\ Opposite(c, last)
  <2>1. f = Annihilate(e)
    BY <1>1, <1>11
  <2>2. /\ Formed(f) /\ f.stack_size = e.stack_size /\ f.stack_bottom = e.stack_bottom
        /\ Repeated(e) /\ Top(e).n > 2 => f = WithCount(e, top, Top(e).n - 1)
        /\ ~(Repeated(e) /\ Top(e).n > 2) =>
              /\ f.undo_stack = e.undo_stack /\ f.stack_pointer = top
              /\ f.misled <=> e.misled \/ d = 0
    BY <2>1, AnnihilateIs DEF Kin, top, d
  <2>3. {c.op, last.op} = {"left", "right"}
    BY <1>11 DEF Opposite
  <2>4. ASSUME NEW w \in Views, Undoes(last, v, w) PROVE w = x
    BY <1>4, <2>3, <2>4, UndoesBack
  <2>5. CASE Repeated(e) /\ Top(e).n > 2
    <3> DEFINE n == Top(e).n - 1
    <3>1. n \in Int /\ n = Top(e).n - 1
      BY <1>3 DEF Entries
    <3>2. f = WithCount(e, top, n)
      BY <2>2, <2>5
    <3> HIDE DEF n
    <3>3. /\ Formed(f) /\ Depth(f) = d /\ Shape(f)
          /\ d > 0 => /\ \A j \in 0..d - 2 : Item(f, j) = Item(e, j)
                      /\ Item(f, d - 1) = Entry(Item(e, d - 1).op, n)
      BY <2>5, <3>1, <3>2, CountItems DEF top, d
    <3>4. CASE d = 0
      <4>1. Fits(f, x, Len(x.past))
        BY <1>6, <3>3, <3>4
      <4>2. QED BY <1>5, <3>3, <4>1 DEF f
    <3>5. CASE d >= 3
      <4> DEFINE s == [j \in 0..d - 1 |-> Item(f, j)]
      <4>1. \A j \in 0..d - 2 : s[j] = r[j]
        BY <1>2, <1>8, <3>3, <3>5
      <4>2. s[d - 1] = Entry("times", n) /\ r[d - 1].op = "times" /\ r[d - 1].n \in Int
            /\ n = r[d - 1].n - 1 /\ r[d - 1].n > 2
        <5>1. d - 1 \in 0..d - 1
          BY <1>2, <3>5
        <5>2. Item(e, d - 1) = Top(e)
          BY <1>2, <1>3, <3>5
        <5>3. QED
          BY <1>2, <1>3, <1>7, <2>5, <3>1, <3>3, <3>5, <5>1, <5>2 DEF Repeated, Entries
      <4>3. s[d - 1].op = "times" /\ s[d - 1].n = r[d - 1].n - 1
        BY <4>2 DEF Entry
      <4>4. r[d - 2] = last
        BY <1>2, <1>7, <2>5, <3>5 DEF last
      <4> HIDE DEF s
      <4>5. PICK w \in Views : Undoes(r[d - 2], v, w) /\ Fit(d, s, w, m)
        BY SMTT(40), <1>2, <1>4, <3>5, <4>1, <4>2, <4>3, FitTimes
      <4>6. Fits(f, x, m)
        BY <2>4, <3>3, <4>4, <4>5 DEF Fits, s
      <4>7. QED BY <1>4, <3>3, <4>6 DEF f
    <3>6. QED BY <1>2, <1>11, <3>4, <3>5
  <2>6. CASE ~(Repeated(e) /\ Top(e).n > 2)
    <3>1. d >= 3
      BY <1>1, <1>2, <1>11, <2>2, <2>6
    <3>2. Depth(f) = d - 1 /\ Shape(f) /\ \A j : Item(f, j) = Item(e, j)
      <4>1. Depth(e) > 0
        BY <1>2, <3>1 DEF d
      <4>2. f.stack_pointer = Slot(e, e.stack_pointer - 1)
        BY <2>2, <2>6 DEF top
      <4>3. Depth(f) = Depth(e) - 1 /\ Shape(f) /\ \A j : Item(f, j) = Item(e, j)
        BY <2>2, <2>6, <4>1, <4>2, PopItems
      <4>4. QED BY <4>3 DEF d
    <3>3. Fit(d - 1, r, x, m)
      <4>1. CASE Repeated(e)
        <5>1. r[d - 1].op = "times" /\ r[d - 1].n \in Int
          BY <1>2, <1>3, <1>7, <3>1, <4>1 DEF Repeated, Entries
        <5>2. r[d - 1].n <= 2
          BY <1>2, <1>7, <2>6, <3>1, <4>1, <5>1
        <5>3. /\ r[d - 1].n >= 2
              /\ \E w \in Views : /\ Undoes(r[d - 2], v, w)
                                  /\ r[d - 1].n = 2 => Fit(d - 1, r, w, m)
          <6>1. d \in Nat /\ d > 0 /\ Fit(d, r, v, m)
            BY <1>2, <1>4, <3>1
          <6> HIDE DEF d, r
          <6>2. QED BY <5>1, <6>1, FitTimes
        <5>4. r[d - 1].n = 2
          BY <5>1, <5>2, <5>3
        <5>5. r[d - 2] = last
          BY <1>2, <1>7, <3>1, <4>1 DEF last
        <5>6. QED BY <2>4, <5>3, <5>4, <5>5
      <4>2. CASE ~Repeated(e)
        <5>1. r[d - 1].op # "times" /\ r[d - 1] = last
          BY <1>2, <1>7, <3>1, <4>2 DEF Repeated, last
        <5>2. PICK w \in Views : Undoes(r[d - 1], v, w) /\ Fit(d - 1, r, w, m)
          BY <1>2, <1>4, <3>1, <5>1, FitTop
        <5>3. QED BY <2>4, <5>1, <5>2
      <4>3. QED BY <4>1, <4>2
    <3>4. \A j \in 0..d - 1 - 1 : r[j] = Item(f, j)
      BY <1>2, <1>8, <3>2
    <3>5. Fits(f, x, m)
      BY <2>2, <3>2, <3>3, <3>4, FitsIs
    <3>6. QED BY <1>4, <3>2, <3>5 DEF f
  <2>7. QED BY <2>5, <2>6
<1>12. CASE ~(same /\ IsKey(c)) /\ ~(same /\ Repeated(e)) /\ ~(compared /\ Opposite(c, last))
  <2> DEFINE k == IF same THEN Entry("times", 2) ELSE c
  <2>1. f = Store(e, k)
    BY <1>1, <1>12
  <2>2. k \in Entries
    BY DEF Entry, Entries, Ops
  <2>3. Leads(e, k, x, v)
    <3>1. CASE ~same
      <4>1. k = c
        BY <3>1
      <4> HIDE DEF k
      <4>2. QED BY <4>1 DEF Leads
    <3>2. CASE same
      <4>1. k = Entry("times", 2) /\ ~Repeated(e) /\ ~IsKey(c)
        BY <1>12, <3>2
      <4>2. d > 0 => Item(e, d - 1) = c
        BY <1>2, <1>3, <3>2, <4>1 DEF last
      <4> HIDE DEF k
      <4>3. QED BY <4>1, <4>2 DEF Leads, d, Entry, IsKey
    <3>3. QED BY <3>1, <3>2
  <2> HIDE DEF k
  <2>4. Shape(f) /\ \E n \in Nat : m <= n /\ Fits(f, x, n)
    BY <1>5, <2>1, <2>2, <2>3, StoreFits
  <2>5. QED BY <2>4 DEF f
<1>13. same => compared
  BY DEF same
<1>14. Opposite(c, c) => FALSE
  BY DEF Opposite
<1>15. QED BY <1>9, <1>10, <1>11, <1>12, <1>13, <1>14

\* What a push leaves in the ring.
LEMMA PushFits ==
    ASSUME NEW e, Formed(e), Shape(e), ~e.push_action_disabled,
           NEW c \in Entries, c.op \notin {"times", "none"},
           NEW v, NEW x \in Views, NEW m, Fits(e, v, m), Undoes(c, x, v),
           ~edit_push_action(e, c).misled
    PROVE  LET f == edit_push_action(e, c)
           IN  /\ Shape(f)
               /\ \/ \E n \in Nat : m <= n /\ Fits(f, x, n)
                  \/ /\ IsKey(c) /\ Depth(f) > 0 /\ Fits(f, v, m)
                     /\ \E w \in Views : Undoes(c, v, w)
<1> DEFINE g == Enlarge(e)
<1>1. /\ Kin(e, g) /\ Shape(g) /\ Roomy(g) /\ Fits(g, v, m)
  BY EnlargeFits
<1> HIDE DEF g
<1>2. edit_push_action(e, c) = PushOnto(g, c)
  BY DEF edit_push_action, g
<1>3. Formed(g)
  BY <1>1 DEF Kin
<1>4. QED BY <1>1, <1>2, <1>3, OntoFits

\* The ring after a primitive.
LEMMA ViaFits ==
    ASSUME NEW e, NEW f, NEW c \in Moves, Via(e, c, f),
           Formed(e), Shape(e), ~e.push_action_disabled, ~f.misled,
           NEW v, NEW x \in Views, NEW m, Fits(e, v, m), Undoes(c, x, v)
    PROVE  Shape(f) /\ \E n \in Nat : m <= n /\ Fits(f, x, n)
<1>1. PICK g : Formed(g) /\ SameRing(e, g) /\ SameRing(edit_push_action(g, c), f)
  BY DEF Via
<1> DEFINE h == edit_push_action(g, c)
<1>2. /\ Shape(g) /\ Fits(g, v, m) /\ ~g.push_action_disabled
  BY <1>1, SameFits DEF SameRing
<1>3. ~h.misled
  BY <1>1 DEF SameRing
<1>4. c \in Entries /\ c.op \notin {"times", "none", "key"}
  BY DEF Moves, MoveOps
<1>5. Shape(h) /\ \E n \in Nat : m <= n /\ Fits(h, x, n)
  BY <1>1, <1>2, <1>3, <1>4, PushFits DEF IsKey
<1> HIDE DEF h
<1>6. SameRing(h, f)
  BY <1>1 DEF h
<1>7. QED BY <1>5, <1>6, SameFits

\* While undoing, nothing is pushed.
LEMMA ViaUndo ==
    ASSUME NEW e, NEW f, NEW c, Via(e, c, f), Formed(e), Formed(f), e.push_action_disabled
    PROVE  /\ f.misled = e.misled /\ f.push_action_disabled
           /\ Shape(e) => /\ Shape(f) /\ Depth(f) = Depth(e)
                          /\ \A v, m : Fits(e, v, m) => Fits(f, v, m)
<1>1. PICK g : Formed(g) /\ SameRing(e, g) /\ SameRing(edit_push_action(g, c), f)
  BY DEF Via
<1> DEFINE h == Enlarge(g)
<1>2. g.push_action_disabled /\ g.misled = e.misled
  BY <1>1 DEF SameRing
<1>3. SameRing(h, f)
  BY <1>1, <1>2 DEF edit_push_action
<1>4. h.misled = g.misled /\ Pushed(g, h)
  BY <1>1, EnlargeFormed
<1>5. ASSUME Shape(e)
      PROVE  /\ Shape(f) /\ Depth(f) = Depth(e)
             /\ \A v, m : Fits(e, v, m) => Fits(f, v, m)
  <2>1. Shape(g) /\ Depth(g) = Depth(e) /\ \A v, m : Fits(g, v, m) <=> Fits(e, v, m)
    BY <1>1, <1>5, SameFits
  <2>2. Shape(h) /\ Depth(h) = Depth(g) /\ \A v, m : Fits(g, v, m) => Fits(h, v, m)
    BY <1>1, <2>1, EnlargeFits
  <2> HIDE DEF h
  <2>3. /\ Depth(f) = Depth(h) /\ (Shape(h) => Shape(f))
        /\ \A v, m : Fits(f, v, m) <=> Fits(h, v, m)
    BY <1>3, SameFits
  <2>4. QED BY <2>1, <2>2, <2>3
<1> HIDE DEF h
<1>6. f.misled = e.misled /\ f.push_action_disabled
  BY <1>1, <1>2, <1>3, <1>4 DEF SameRing, Pushed
<1>7. QED BY <1>5, <1>6

-----------------------------------------------------------------------------
(* What every operation keeps.                                             *)

\* What is seen of an editor.
LEMMA ViewOf ==
    ASSUME NEW e, Formed(e), NEW log \in Seq(AllSeen)
    PROVE  /\ View(e, log) \in Views
           /\ View(e, log).before = e.before /\ View(e, log).after = e.after
           /\ View(e, log).past = log
BY DEF View, Views, Formed, Edits

\* Nothing follows on itself.
LEMMA FollowsSelf ==
    ASSUME NEW e, Sound(e)
    PROVE  Follows(e, e)
BY DEF Follows

\* One thing after another.
LEMMA FollowsChain ==
    ASSUME NEW e, NEW f, NEW g, Follows(e, f), Follows(f, g)
    PROVE  Follows(e, g)
BY DEF Follows

\* A primitive follows.
LEMMA DoneFollows ==
    ASSUME NEW e, Sound(e), NEW c, NEW d, NEW f, Done(e, c, d, f)
    PROVE  Follows(e, f)
<1>1. /\ Formed(f) /\ Right(f) /\ (e.misled => f.misled) /\ ~f.push_action_disabled
      /\ Via(e, d, f) /\ d \in Moves /\ (Placed(e) => Placed(f))
      /\ Turns(d, f.before, f.after, e.before, e.after)
      /\ Formed(e) /\ ~e.push_action_disabled
  BY DEF Sound, Done, Primitive, Keeps
<1>2. ASSUME NEW log \in Seq(AllSeen), NEW n \in Nat, Good(e, log, n), ~f.misled
      PROVE  Good(f, log, n)
  <2> DEFINE v == View(e, log)
             x == View(f, log)
  <2>1. PICK m \in Nat : n <= m /\ Fits(e, v, m)
    BY <1>2 DEF Good
  <2>2. /\ v \in Views /\ x \in Views
        /\ v.before = e.before /\ v.after = e.after /\ v.past = log
        /\ x.before = f.before /\ x.after = f.after /\ x.past = log
    BY <1>1, ViewOf
  <2> HIDE DEF v, x
  <2>3. Undoes(d, x, v)
    BY <1>1, <2>2 DEF Undoes
  <2>4. Shape(f) /\ \E k \in Nat : m <= k /\ Fits(f, x, k)
    BY <1>1, <1>2, <2>1, <2>2, <2>3, ViaFits DEF Good
  <2>5. \E k \in Nat : n <= k /\ Fits(f, x, k)
    BY <2>1, <2>4
  <2>6. QED BY <1>1, <1>2, <2>4, <2>5 DEF Good, x
<1>3. QED BY <1>1, <1>2 DEF Follows, Sound

\* A command follows.
LEMMA DoFollows ==
    ASSUME NEW e, Sound(e), NEW c \in Moves
    PROVE  Follows(e, Do(e, c))
BY DoIs, DoneFollows, FollowsSelf DEF Sound

\* A screen elsewhere in the text follows.
LEMMA ScreenFollows ==
    ASSUME NEW e, Sound(e), NEW f, Formed(f), SameRing(e, f), SameText(e, f),
           Right(e) /\ Placed(e) => Placed(f)
    PROVE  Follows(e, f)
<1>1. f.misled = e.misled /\ f.push_action_disabled = e.push_action_disabled
  BY DEF SameRing
<1>2. Right(f)
  BY DEF Sound, Right, SameText, Text, Cursor, LastByte
<1>3. \A log : View(f, log) = View(e, log)
  BY DEF SameText, View
<1>4. /\ Shape(e) => Shape(f)
      /\ \A v, m : Fits(f, v, m) <=> Fits(e, v, m)
  BY SameFits
<1>5. \A log, n : Good(e, log, n) => Good(f, log, n)
  BY <1>3, <1>4 DEF Good, Sound
<1>6. QED BY <1>1, <1>2, <1>5 DEF Follows, Sound

\* Commands one after another.
LEMMA DoAllIs ==
    ASSUME NEW e, Formed(e), NEW cs \in Seq(Moves)
    PROVE  \E g \in [0..Len(cs) -> {x \in Edits : Ring(x)}] :
              /\ g[0] = e /\ DoAll(e, cs) = g[Len(cs)]
              /\ \A n \in 1..Len(cs) : g[n] = Do(g[n - 1], cs[n])
<1> DEFINE L == Len(cs)
           X == {x \in Edits : Ring(x)}
           F == [p \in X \X Nat |-> IF p[2] \in 1..L THEN Do(p[1], cs[p[2]]) ELSE p[1]]
           Done1(g) == g = [i \in 0..L |-> IF i = 0 THEN e ELSE Do(g[i - 1], cs[i])]
<1>1. L \in Nat /\ \A n \in 1..L : cs[n] \in Moves
  BY ElementOfSeq, LenProperties
<1>2. \A x \in X, c \in Moves : Do(x, c) \in X
  <2>1. ASSUME NEW x \in X, NEW c \in Moves PROVE Do(x, c) \in X
    <3>1. Formed(x)
      BY DEF Formed
    <3>2. Formed(Do(x, c))
      BY <3>1, DoIs DEF Done, Primitive
    <3>3. QED BY <3>2 DEF Formed
  <2>2. QED BY <2>1
<1>3. F \in [X \X Nat -> X]
  <2> HIDE DEF X, L
  <2>1. \A p \in X \X Nat : p[1] \in X /\ p[2] \in Nat
    OBVIOUS
  <2>2. QED BY <1>1, <1>2, <2>1
<1>4. e \in X
  BY DEF Formed
<1>5. \A x \in X, n \in 1..L : F[<<x, n>>] = Do(x, cs[n])
  <2> HIDE DEF X
  <2>1. \A n \in 1..L : n \in Nat
    BY <1>1
  <2>2. QED BY <2>1
<1> HIDE DEF F, X
<1>6. PICK g \in [0..L -> X] : g[0] = e /\ \A n \in 1..L : g[n] = F[<<g[n - 1], n>>]
  <2>1. Runs(L, X, e, F) # {}
    BY <1>1, <1>3, <1>4, Iterates
  <2>2. QED BY <2>1 DEF Runs
<1>7. \A n \in 1..L : g[n] = Do(g[n - 1], cs[n])
  <2>1. \A n \in 1..L : n - 1 \in 0..L
    BY <1>1
  <2>2. QED BY <1>5, <1>6, <2>1
<1>8. Done1(g)
  <2>1. \A i \in 0..L : i # 0 => i \in 1..L
    BY <1>1
  <2>2. QED BY <1>6, <1>7, <2>1
<1>9. ASSUME NEW h, Done1(h) PROVE h = g
  <2>1. 0 \in 0..L /\ L \in 0..L
    BY <1>1
  <2>2. h[0] = e
    BY <1>9, <2>1
  <2>3. \A n \in 1..L : h[n] = Do(h[n - 1], cs[n])
    <3>1. \A n \in 1..L : n \in 0..L /\ n # 0
      BY <1>1
    <3>2. QED BY <1>9, <3>1
  <2> DEFINE T == [n \in 0..L |-> {g[n]}]
  <2>4. \A n \in 0..L : h[n] \in T[n]
    <3>1. h[0] \in T[0]
      BY <1>6, <2>1, <2>2
    <3>2. ASSUME NEW n \in 1..L, h[n - 1] \in T[n - 1] PROVE h[n] \in T[n]
      <4>1. n \in 0..L /\ n - 1 \in 0..L
        BY <1>1
      <4>2. h[n - 1] = g[n - 1]
        BY <3>2, <4>1
      <4>3. QED BY <1>7, <2>3, <4>1, <4>2
    <3> HIDE DEF T
    <3>3. QED BY <1>1, <3>1, <3>2, Stepwise
  <2>5. \A n \in 0..L : h[n] = g[n]
    BY <2>4
  <2>6. h = [i \in 0..L |-> h[i]]
    BY <1>9
  <2>7. g = [i \in 0..L |-> g[i]]
    BY <1>6
  <2>8. QED BY <2>5, <2>6, <2>7
<1>10. DoAll(e, cs) = g[L]
  <2>1. (CHOOSE h : Done1(h)) = g
    BY <1>8, <1>9
  <2>2. DoAll(e, cs) = (CHOOSE h : Done1(h))[L]
    BY DEF DoAll
  <2>3. QED BY <2>1, <2>2
<1>11. QED BY <1>6, <1>7, <1>10 DEF X

\* They follow.
LEMMA DoAllFollows ==
    ASSUME NEW e, Sound(e), NEW cs \in Seq(Moves)
    PROVE  Follows(e, DoAll(e, cs))
<1>1. PICK g \in [0..Len(cs) -> {x \in Edits : Ring(x)}] :
              /\ g[0] = e /\ DoAll(e, cs) = g[Len(cs)]
              /\ \A n \in 1..Len(cs) : g[n] = Do(g[n - 1], cs[n])
  BY DoAllIs DEF Sound
<1>2. Len(cs) \in Nat /\ \A n \in 1..Len(cs) : cs[n] \in Moves
  BY ElementOfSeq, LenProperties
<1> DEFINE X == {x \in Edits : Follows(e, x)}
           T == [n \in 0..Len(cs) |-> X]
<1>3. g[0] \in T[0]
  BY <1>1, <1>2, FollowsSelf DEF Sound, Formed
<1>4. ASSUME NEW n \in 1..Len(cs), g[n - 1] \in T[n - 1] PROVE g[n] \in T[n]
  <2>1. n \in 0..Len(cs) /\ n - 1 \in 0..Len(cs)
    BY <1>2
  <2>2. Follows(e, g[n - 1])
    BY <1>4, <2>1
  <2>3. Follows(g[n - 1], g[n])
    BY <1>1, <1>2, <2>2, DoFollows DEF Follows
  <2>4. Follows(e, g[n])
    BY <2>2, <2>3, FollowsChain
  <2>5. g[n] \in Edits
    BY <2>4 DEF Follows, Sound, Formed
  <2>6. QED BY <2>1, <2>4, <2>5
<1> HIDE DEF T
<1>5. \A n \in 0..Len(cs) : g[n] \in T[n]
  BY <1>2, <1>3, <1>4, Stepwise
<1>6. g[Len(cs)] \in X
  BY <1>2, <1>5 DEF T
<1>7. QED BY <1>1, <1>6

\* A command that is repeated follows.
LEMMA TimesFollows ==
    ASSUME NEW e, Sound(e), NEW op \in {"left", "right", "delete", "backspace"}, NEW n \in Int
    PROVE  Follows(e, Times(op, e, n))
<1> DEFINE cs == [i \in 1..n |-> Entry(op, 0)]
<1>1. Entry(op, 0) \in Moves
  BY DEF Entry, Moves, MoveOps, Entries, Ops
<1>2. cs \in Seq(Moves)
  <2>1. PICK k \in Nat : 1..n = 1..k
    <3>1. CASE n >= 0
      BY <3>1
    <3>2. CASE n < 0
      <4>1. 1..n = 1..0
        BY <3>2
      <4>2. QED BY <4>1
    <3>3. QED BY <3>1, <3>2
  <2>2. cs \in [1..k -> Moves]
    BY <1>1, <2>1
  <2>3. QED BY <2>2, SeqDef
<1> HIDE DEF cs
<1>3. Follows(e, DoAll(e, cs))
  BY <1>2, DoAllFollows
<1>4. QED BY <1>3 DEF Times, cs

-----------------------------------------------------------------------------
(* Lines.                                                                  *)

\* The least of some integers.
LEMMA Least ==
    ASSUME NEW S \in SUBSET Int, S # {}, NEW lo \in Int, \A x \in S : lo <= x
    PROVE  Min(S) \in S /\ \A x \in S : Min(S) <= x
<1> DEFINE T == {n \in Nat : lo + n \in S}
<1>1. PICK x \in S : TRUE
  OBVIOUS
<1>2. x - lo \in T
  OBVIOUS
<1>3. \E n \in T : \A m \in T : ~(m < n)
  <2>1. SUFFICES ASSUME \A n \in T : \E m \in T : m < n PROVE FALSE
    OBVIOUS
  <2>2. T \in SUBSET Nat
    OBVIOUS
  <2> HIDE DEF T
  <2>3. T = {}
    BY <2>1, <2>2, NoLeast
  <2>4. QED BY <1>2, <2>3
<1>4. PICK n \in T : \A m \in T : ~(m < n)
  BY <1>3
<1>5. ASSUME NEW y \in S PROVE lo + n <= y
  <2>1. y - lo \in T /\ n \in Nat
    OBVIOUS
  <2>2. ~(y - lo < n)
    BY <1>4, <2>1
  <2>3. QED BY <2>1, <2>2
<1>6. lo + n \in S
  OBVIOUS
<1>7. QED BY <1>5, <1>6 DEF Min

\* The greatest of some integers.
LEMMA Greatest ==
    ASSUME NEW S \in SUBSET Int, S # {}, NEW hi \in Int, \A x \in S : x <= hi
    PROVE  Max(S) \in S /\ \A x \in S : x <= Max(S)
<1> DEFINE T == {n \in Nat : hi - n \in S}
<1>1. PICK x \in S : TRUE
  OBVIOUS
<1>2. hi - x \in T
  OBVIOUS
<1>3. \E n \in T : \A m \in T : ~(m < n)
  <2>1. SUFFICES ASSUME \A n \in T : \E m \in T : m < n PROVE FALSE
    OBVIOUS
  <2>2. T \in SUBSET Nat
    OBVIOUS
  <2> HIDE DEF T
  <2>3. T = {}
    BY <2>1, <2>2, NoLeast
  <2>4. QED BY <1>2, <2>3
<1>4. PICK n \in T : \A m \in T : ~(m < n)
  BY <1>3
<1>5. ASSUME NEW y \in S PROVE y <= hi - n
  <2>1. hi - y \in T /\ n \in Nat
    OBVIOUS
  <2>2. ~(hi - y < n)
    BY <1>4, <2>1
  <2>3. QED BY <2>1, <2>2
<1>6. hi - n \in S
  OBVIOUS
<1>7. QED BY <1>5, <1>6 DEF Max

\* Of two numbers.
LEMMA MinOfTwo ==
    ASSUME NEW a \in Int, NEW b \in Int
    PROVE  Min({a, b}) = IF a <= b THEN a ELSE b
<1>1. \A x \in {a, b} : (IF a <= b THEN a ELSE b) <= x
  OBVIOUS
<1>2. Min({a, b}) \in {a, b} /\ \A x \in {a, b} : Min({a, b}) <= x
  <2> DEFINE lo == IF a <= b THEN a ELSE b
  <2>1. lo \in Int /\ {a, b} \in SUBSET Int /\ {a, b} # {} /\ \A x \in {a, b} : lo <= x
    OBVIOUS
  <2> HIDE DEF lo
  <2>2. QED BY <2>1, Least
<1>3. QED BY <1>2

\* Of two numbers.
LEMMA MaxOfTwo ==
    ASSUME NEW a \in Int, NEW b \in Int
    PROVE  Max({a, b}) = IF a <= b THEN b ELSE a
<1>1. Max({a, b}) \in {a, b} /\ \A x \in {a, b} : x <= Max({a, b})
  <2> DEFINE hi == IF a <= b THEN b ELSE a
  <2>1. hi \in Int /\ {a, b} \in SUBSET Int /\ {a, b} # {} /\ \A x \in {a, b} : x <= hi
    OBVIOUS
  <2> HIDE DEF hi
  <2>2. QED BY <2>1, Greatest
<1>2. QED BY <1>1

\* Without a line feed between them two places have the same before them.
LEMMA FeedsFlat ==
    ASSUME NEW t, NEW j \in Nat, NEW k \in Nat, j <= k, \A i \in j..k - 1 : t[i + 1] # NL
    PROVE  Feeds(t, j) = Feeds(t, k)
<1> DEFINE f == [n \in 0..k - j |-> Feeds(t, j + n)]
           T == [n \in 0..k - j |-> {Feeds(t, j)}]
           L == k - j
<1>1. L \in Nat /\ 0 \in 0..L /\ L \in 0..L /\ j + 0 = j /\ j + L = k
  OBVIOUS
<1>2. f[0] \in T[0]
  BY <1>1
<1>3. ASSUME NEW n \in 1..L, f[n - 1] \in T[n - 1] PROVE f[n] \in T[n]
  <2>1. n - 1 \in 0..L /\ n \in 0..L /\ j + n \in Nat /\ j + (n - 1) \in Nat
        /\ (j + (n - 1)) + 1 = j + n /\ j + (n - 1) \in j..k - 1
    BY <1>1
  <2>2. Feeds(t, j + (n - 1)) = Feeds(t, j)
    BY <1>3, <2>1
  <2>3. t[(j + (n - 1)) + 1] # NL
    BY <2>1
  <2>4. Feeds(t, (j + (n - 1)) + 1) = Feeds(t, j + (n - 1)) + 0 /\ Feeds(t, j + (n - 1)) \in Nat
    BY <2>1, <2>3, FeedsStep DEF OneLine, One
  <2>5. Feeds(t, j + n) = Feeds(t, j)
    BY <2>1, <2>2, <2>4
  <2>6. QED BY <2>1, <2>5
<1>4. f[L] = Feeds(t, k) /\ T[L] = {Feeds(t, j)}
  BY <1>1
<1> HIDE DEF f, T, L
<1>5. \A n \in 0..L : f[n] \in T[n]
  BY <1>1, <1>2, <1>3, Stepwise
<1>6. QED BY <1>1, <1>4, <1>5

\* The byte at a place in the text.
LEMMA ByteIs ==
    ASSUME NEW e, Formed(e), NEW i \in Int
    PROVE  /\ i \in 0..LastByte(e) - 1 => Byte(e, i) = Text(e)[i + 1]
           /\ i \notin 0..LastByte(e) - 1 => Byte(e, i) = NL
BY DEF Byte

\* The start of a line.
LEMMA BolIs ==
    ASSUME NEW e, Formed(e), NEW at \in Int
    PROVE  LET b == edit_bol(e, at)
           IN  /\ b \in Nat /\ (b # 0 => b <= at)
               /\ at \in 0..LastByte(e) =>
                  /\ b \in 0..at /\ Starts(e, b)
                  /\ Feeds(Text(e), b) = Feeds(Text(e), at)
<1> DEFINE S == {0} \cup {i \in 1..at : Byte(e, i - 1) = NL}
           b == Max(S)
           hi == IF at < 0 THEN 0 ELSE at
<1>1. b = edit_bol(e, at)
  BY DEF edit_bol
<1>2. S \in SUBSET Int /\ S # {} /\ hi \in Int /\ \A x \in S : x <= hi
  OBVIOUS
<1>3. \A x \in S : x \in Nat /\ (x # 0 => x \in 1..at /\ Byte(e, x - 1) = NL)
  OBVIOUS
<1>4. \A i \in 1..at : Byte(e, i - 1) = NL => i \in S
  OBVIOUS
<1> HIDE DEF S, hi
<1>5. b \in S /\ \A x \in S : x <= b
  BY <1>2, Greatest
<1> HIDE DEF b
<1>6. b \in Nat /\ (b # 0 => b \in 1..at /\ Byte(e, b - 1) = NL)
  BY <1>3, <1>5
<1>7. ASSUME at \in 0..LastByte(e)
      PROVE  b \in 0..at /\ Starts(e, b) /\ Feeds(Text(e), b) = Feeds(Text(e), at)
  <2>1. LastByte(e) \in Nat
    BY TextIs
  <2>2. b \in 0..at /\ at \in Nat
    BY <1>6, <1>7, <2>1
  <2>3. Starts(e, b)
    <3>1. CASE b = 0
      BY <3>1 DEF Starts
    <3>2. CASE b # 0
      <4>1. b - 1 \in 0..LastByte(e) - 1 /\ b - 1 \in Int /\ (b - 1) + 1 = b
        BY <1>6, <1>7, <2>1, <2>2, <3>2
      <4>2. QED BY <1>6, <3>2, <4>1, ByteIs DEF Starts
    <3>3. QED BY <3>1, <3>2
  <2>4. ASSUME NEW i \in b..at - 1 PROVE Text(e)[i + 1] # NL
    <3>1. i + 1 \in 1..at /\ (i + 1) - 1 = i /\ i \in 0..LastByte(e) - 1 /\ i \in Int /\ i + 1 > b
      BY <1>6, <1>7, <2>1, <2>2
    <3>2. i + 1 \notin S
      BY <1>5, <1>6, <3>1
    <3>3. Byte(e, i) # NL
      BY <1>4, <3>1, <3>2
    <3>4. QED BY <3>1, <3>3, ByteIs
  <2>5. Feeds(Text(e), b) = Feeds(Text(e), at)
    BY <1>6, <2>2, <2>4, FeedsFlat
  <2>6. QED BY <2>2, <2>3, <2>5
<1>8. b # 0 => b <= at
  BY <1>6
<1>9. QED BY <1>1, <1>6, <1>7, <1>8

\* The end of a line.
LEMMA EolIs ==
    ASSUME NEW e, Formed(e), NEW at \in Int
    PROVE  LET r == edit_eol(e, at)
           IN  /\ r \in Int
               /\ at \in 0..LastByte(e) =>
                  /\ r \in at..LastByte(e)
                  /\ Feeds(Text(e), r) = Feeds(Text(e), at)
                  /\ r < LastByte(e) => Text(e)[r + 1] = NL
<1> DEFINE S == {LastByte(e)} \cup {i \in at..LastByte(e) - 1 : Byte(e, i) = NL}
           r == Min(S)
           lo == IF at < LastByte(e) THEN at ELSE LastByte(e)
<1>1. r = edit_eol(e, at)
  BY DEF edit_eol
<1>2. LastByte(e) \in Nat
  BY TextIs
<1>3. S \in SUBSET Int /\ S # {} /\ lo \in Int /\ \A x \in S : lo <= x
  BY <1>2
<1>4. /\ \A x \in S : x # LastByte(e) => x \in at..LastByte(e) - 1 /\ Byte(e, x) = NL
      /\ \A i \in at..LastByte(e) - 1 : Byte(e, i) = NL => i \in S
      /\ LastByte(e) \in S
  OBVIOUS
<1> HIDE DEF S, lo
<1>5. r \in S /\ \A x \in S : r <= x
  BY <1>3, Least
<1> HIDE DEF r
<1>6. r \in Int /\ r <= LastByte(e) /\ (r # LastByte(e) => r \in at..LastByte(e) - 1 /\ Byte(e, r) = NL)
  BY <1>3, <1>4, <1>5
<1>7. ASSUME at \in 0..LastByte(e)
      PROVE  /\ r \in at..LastByte(e)
             /\ Feeds(Text(e), r) = Feeds(Text(e), at)
             /\ r < LastByte(e) => Text(e)[r + 1] = NL
  <2>1. r \in at..LastByte(e) /\ r \in Nat /\ at \in Nat /\ at <= r
    BY <1>2, <1>6, <1>7
  <2>2. r < LastByte(e) => Text(e)[r + 1] = NL
    <3>1. ASSUME r < LastByte(e) PROVE Text(e)[r + 1] = NL
      <4>1. r \in 0..LastByte(e) - 1 /\ Byte(e, r) = NL
        BY <1>2, <1>6, <2>1, <3>1
      <4>2. QED BY <1>6, <4>1, ByteIs
    <3>2. QED BY <3>1
  <2>3. ASSUME NEW i \in at..r - 1 PROVE Text(e)[i + 1] # NL
    <3>1. i \in at..LastByte(e) - 1 /\ i \in 0..LastByte(e) - 1 /\ i \in Int /\ i < r
      BY <1>2, <2>1
    <3>2. i \notin S
      BY <1>5, <1>6, <3>1
    <3>3. Byte(e, i) # NL
      BY <1>4, <3>1, <3>2
    <3>4. QED BY <3>1, <3>3, ByteIs
  <2>4. Feeds(Text(e), at) = Feeds(Text(e), r)
    BY <2>1, <2>3, FeedsFlat
  <2>5. QED BY <2>1, <2>2, <2>4
<1>8. QED BY <1>1, <1>6, <1>7

\* A line down.
LEMMA DownIs ==
    ASSUME NEW e, Formed(e), NEW at \in Int
    PROVE  LET r == LineDown(e, at)
           IN  /\ r \in Int
               /\ at \in 0..LastByte(e) =>
                  /\ r \in 0..LastByte(e)
                  /\ Feeds(Text(e), at) < Feeds(Text(e), LastByte(e)) =>
                        Feeds(Text(e), r) = Feeds(Text(e), at) + 1
<1> DEFINE r == edit_eol(e, at)
           t == Text(e)
<1>1. LastByte(e) \in Nat
  BY TextIs
<1>2. /\ r \in Int
      /\ at \in 0..LastByte(e) =>
            /\ r \in at..LastByte(e) /\ Feeds(t, r) = Feeds(t, at)
            /\ r < LastByte(e) => t[r + 1] = NL
  BY EolIs
<1>3. LineDown(e, at) = IF r + 1 > LastByte(e) THEN at ELSE r + 1
  BY DEF LineDown
<1> HIDE DEF r, t
<1>4. LineDown(e, at) \in Int
  BY <1>1, <1>2, <1>3
<1>5. ASSUME at \in 0..LastByte(e)
      PROVE  /\ LineDown(e, at) \in 0..LastByte(e)
             /\ Feeds(t, at) < Feeds(t, LastByte(e)) =>
                  Feeds(t, LineDown(e, at)) = Feeds(t, at) + 1
  <2>1. r \in at..LastByte(e) /\ r \in Nat
    BY <1>1, <1>2, <1>5
  <2>2. CASE r = LastByte(e)
    <3>1. LineDown(e, at) = at /\ Feeds(t, at) = Feeds(t, LastByte(e)) /\ Feeds(t, at) \in Nat
      BY <1>1, <1>2, <1>3, <1>5, <2>2, FeedsStep
    <3>2. QED BY <1>5, <3>1
  <2>3. CASE r # LastByte(e)
    <3>1. r < LastByte(e) /\ LineDown(e, at) = r + 1 /\ r + 1 \in 0..LastByte(e)
      BY <1>1, <1>3, <1>5, <2>1, <2>3
    <3>2. t[r + 1] = NL
      BY <1>2, <1>5, <3>1
    <3>3. Feeds(t, r + 1) = Feeds(t, r) + 1
      BY <2>1, <3>2, FeedsStep DEF OneLine, One
    <3>4. QED BY <1>2, <1>5, <3>1, <3>3
  <2>4. QED BY <2>2, <2>3
<1>6. QED BY <1>4, <1>5 DEF t

\* A line up.
LEMMA UpIs ==
    ASSUME NEW e, Formed(e), NEW at \in Int
    PROVE  LET r == LineUp(e, at)
           IN  /\ r \in Int
               /\ at \in 0..LastByte(e) /\ Starts(e, at) =>
                  /\ r \in 0..LastByte(e) /\ Starts(e, r)
                  /\ Feeds(Text(e), at) > 0 => Feeds(Text(e), r) = Feeds(Text(e), at) - 1
<1> DEFINE r == edit_bol(e, at - 1)
           t == Text(e)
<1>1. LastByte(e) \in Nat /\ at - 1 \in Int
  <2>1. LastByte(e) \in Nat
    BY TextIs
  <2>2. QED BY <2>1
<1>2. /\ r \in Nat
      /\ at - 1 \in 0..LastByte(e) =>
            /\ r \in 0..at - 1 /\ Starts(e, r) /\ Feeds(t, r) = Feeds(t, at - 1)
  BY <1>1, BolIs
<1>3. LineUp(e, at) = IF at = 0 THEN 0 ELSE r
  BY DEF LineUp
<1> HIDE DEF r, t
<1>4. ASSUME at \in 0..LastByte(e), Starts(e, at)
      PROVE  /\ LineUp(e, at) \in 0..LastByte(e) /\ Starts(e, LineUp(e, at))
             /\ Feeds(t, at) > 0 => Feeds(t, LineUp(e, at)) = Feeds(t, at) - 1
  <2>1. CASE at = 0
    BY <1>1, <1>3, <2>1, FeedsStep DEF Starts
  <2>2. CASE at # 0
    <3>1. at - 1 \in 0..LastByte(e) /\ at - 1 \in Nat /\ (at - 1) + 1 = at
      BY <1>1, <1>4, <2>2
    <3>2. r \in 0..LastByte(e) /\ Starts(e, r) /\ Feeds(t, r) = Feeds(t, at - 1)
      BY <1>1, <1>2, <1>4, <3>1
    <3>3. t[at] = NL
      BY <1>4, <2>2 DEF Starts, t
    <3>4. Feeds(t, at) = Feeds(t, at - 1) + 1 /\ Feeds(t, at - 1) \in Nat
      <4>1. /\ Feeds(t, (at - 1) + 1) = Feeds(t, at - 1) + OneLine(t[(at - 1) + 1])
            /\ Feeds(t, at - 1) \in Nat
        BY <3>1, FeedsStep
      <4>2. OneLine(t[at]) = 1
        BY <3>3 DEF OneLine, One
      <4>3. QED BY <3>1, <4>1, <4>2
    <3>5. QED BY <1>3, <2>2, <3>2, <3>4
  <2>3. QED BY <2>1, <2>2
<1>5. QED BY <1>2, <1>3, <1>4 DEF t

\* There are such steps.
LEMMA WalkSteps ==
    ASSUME NEW e, Formed(e), NEW at \in Int, NEW n \in Nat, n > 0, NEW down
    PROVE  Walked(e, at, n, down)
<1> DEFINE F == [p \in Int \X Nat |-> IF down THEN LineDown(e, p[1]) ELSE LineUp(e, p[1])]
           Line(g) == g = [i \in 0..n |->
                              IF i = 0 THEN at
                              ELSE IF down THEN LineDown(e, g[i - 1]) ELSE LineUp(e, g[i - 1])]
<1>1. \A x \in Int : LineDown(e, x) \in Int /\ LineUp(e, x) \in Int
  BY DownIs, UpIs
<1>2. F \in [Int \X Nat -> Int]
  BY <1>1
<1>3. \A x \in Int, i \in 1..n : F[<<x, i>>] = IF down THEN LineDown(e, x) ELSE LineUp(e, x)
  <2>1. \A i \in 1..n : i \in Nat
    OBVIOUS
  <2>2. QED BY <2>1
<1> HIDE DEF F
<1>4. PICK g \in [0..n -> Int] : g[0] = at /\ \A i \in 1..n : g[i] = F[<<g[i - 1], i>>]
  <2>1. Runs(n, Int, at, F) # {}
    BY <1>2, Iterates
  <2>2. QED BY <2>1 DEF Runs
<1>5. \A i \in 1..n : g[i] = IF down THEN LineDown(e, g[i - 1]) ELSE LineUp(e, g[i - 1])
  <2>1. \A i \in 1..n : i - 1 \in 0..n
    OBVIOUS
  <2>2. QED BY <1>3, <1>4, <2>1
<1>6. Line(g)
  <2>1. \A i \in 0..n : i # 0 => i \in 1..n
    OBVIOUS
  <2>2. QED BY <1>4, <1>5, <2>1
<1>7. PICK h : h = (CHOOSE g1 : Line(g1)) /\ Line(h)
  BY <1>6
<1>8. h[0] = at /\ \A i \in 1..n : h[i] = IF down THEN LineDown(e, h[i - 1])
                                           ELSE LineUp(e, h[i - 1])
  <2>1. 0 \in 0..n /\ \A i \in 1..n : i \in 0..n /\ i # 0
    OBVIOUS
  <2>2. QED BY <1>7, <2>1
<1>9. \A i \in 0..n : h[i] \in Int
  <2> DEFINE T == [i \in 0..n |-> Int]
  <2>1. h[0] \in T[0]
    BY <1>8
  <2>2. ASSUME NEW i \in 1..n, h[i - 1] \in T[i - 1] PROVE h[i] \in T[i]
    <3>1. i - 1 \in 0..n /\ i \in 0..n
      OBVIOUS
    <3>2. h[i - 1] \in Int
      BY <2>2, <3>1
    <3>3. QED BY <1>1, <1>8, <3>1, <3>2
  <2> HIDE DEF T
  <2>3. \A i \in 0..n : h[i] \in T[i]
    BY <2>1, <2>2, Stepwise
  <2>4. QED BY <2>3 DEF T
<1>10. h \in [0..n -> Int]
  <2>1. h = [i \in 0..n |-> h[i]]
    BY <1>7
  <2>2. QED BY <1>9, <2>1
<1>11. Walk(e, at, n, down) = h[n]
  <2>1. Walk(e, at, n, down) = (CHOOSE g1 : Line(g1))[n]
    BY DEF Walk
  <2>2. QED BY <1>7, <2>1
<1>12. QED BY <1>8, <1>10, <1>11 DEF NextLine, Walked

\* A walk of no line.
LEMMA WalkNone ==
    ASSUME NEW e, NEW at, NEW n \in Int, n <= 0, NEW down
    PROVE  Walk(e, at, n, down) = at
BY DEF Walk

\* Lines down.
LEMMA WalkDown ==
    ASSUME NEW e, Formed(e), NEW at \in Int, NEW n \in Int
    PROVE  LET r == edit_move_forward(e, at, n)
           IN  /\ r \in Int
               /\ at \in 0..LastByte(e) =>
                  /\ r \in 0..LastByte(e)
                  /\ n \in 0..Feeds(Text(e), LastByte(e)) - Feeds(Text(e), at) =>
                        Feeds(Text(e), r) = Feeds(Text(e), at) + n
<1> DEFINE t == Text(e)
           all == Feeds(Text(e), LastByte(e))
           from == Feeds(Text(e), at)
<1>1. LastByte(e) \in Nat
  BY TextIs
<1>2. CASE n <= 0
  <2>1. edit_move_forward(e, at, n) = at
    BY ZenonT(60), <1>2, WalkNone DEF edit_move_forward
  <2>2. ASSUME at \in 0..LastByte(e) PROVE Feeds(Text(e), at) \in Nat
    BY <1>1, <2>2, FeedsStep
  <2>3. ASSUME at \in 0..LastByte(e),
               n \in 0..Feeds(Text(e), LastByte(e)) - Feeds(Text(e), at)
        PROVE  Feeds(Text(e), at) = Feeds(Text(e), at) + n
    <3>1. n = 0
      BY <1>2, <2>3
    <3>2. QED BY <2>2, <2>3, <3>1
  <2>4. QED BY <2>1, <2>3
<1>3. CASE n > 0
  <2>1. n \in Nat
    BY <1>3
  <2>2. PICK h \in [0..n -> Int] :
              /\ h[0] = at /\ edit_move_forward(e, at, n) = h[n]
              /\ \A i \in 1..n : h[i] = LineDown(e, h[i - 1])
    <3>1. \E h \in [0..n -> Int] :
              /\ h[0] = at /\ Walk(e, at, n, TRUE) = h[n]
              /\ \A i \in 1..n : h[i] = LineDown(e, h[i - 1])
      <4>1. Walked(e, at, n, TRUE)
        BY <1>3, <2>1, WalkSteps
      <4>2. \A x : NextLine(e, x, TRUE) = LineDown(e, x)
        BY DEF NextLine
      <4>3. QED BY <4>1, <4>2 DEF Walked
    <3>2. QED BY <3>1 DEF edit_move_forward
  <2>3. ASSUME at \in 0..LastByte(e)
        PROVE  /\ h[n] \in 0..LastByte(e)
               /\ n \in 0..all - from => Feeds(t, h[n]) = from + n
    <3>1. from \in Nat /\ all \in Nat
      <4>1. at \in Nat
        BY <1>1, <2>3
      <4>2. QED BY <1>1, <4>1, FeedsStep
    <3> DEFINE T == [i \in 0..n |->
                       {x \in 0..LastByte(e) : i \in 0..all - from => Feeds(t, x) = from + i}]
    <3> HIDE DEF t, all, from
    <3>2. h[0] \in T[0]
      <4>1. 0 \in 0..n /\ Feeds(t, at) = from
        BY <2>1 DEF from, t
      <4>2. Feeds(t, at) = from + 0
        BY <3>1, <4>1
      <4>3. QED BY <2>2, <2>3, <4>1, <4>2
    <3>3. ASSUME NEW i \in 1..n, h[i - 1] \in T[i - 1] PROVE h[i] \in T[i]
      <4>1. i - 1 \in 0..n /\ i \in 0..n
        BY <2>1
      <4>2. h[i - 1] \in 0..LastByte(e) /\ (i - 1 \in 0..all - from => Feeds(t, h[i - 1]) = from + (i - 1))
        BY <3>3, <4>1
      <4>3. /\ h[i] \in 0..LastByte(e)
            /\ Feeds(t, h[i - 1]) < all => Feeds(t, h[i]) = Feeds(t, h[i - 1]) + 1
        <5>1. h[i - 1] \in Int /\ h[i] = LineDown(e, h[i - 1])
          BY <2>2, <4>1
        <5>2. QED BY <4>2, <5>1, DownIs DEF t, all
      <4>4. ASSUME i \in 0..all - from PROVE Feeds(t, h[i]) = from + i
        <5>1. Feeds(t, h[i - 1]) = from + (i - 1) /\ from + (i - 1) < all /\ i \in Int
          BY <2>1, <3>1, <4>2, <4>4
        <5>2. QED BY <3>1, <4>3, <5>1
      <4>5. QED BY <4>1, <4>3, <4>4
    <3> HIDE DEF T
    <3>4. \A i \in 0..n : h[i] \in T[i]
      BY <2>1, <3>2, <3>3, Stepwise
    <3>5. n \in 0..n
      BY <2>1
    <3>6. h[n] \in T[n]
      BY <3>4, <3>5
    <3>7. QED BY <3>5, <3>6 DEF T
  <2>4. edit_move_forward(e, at, n) \in Int
    BY <2>1, <2>2
  <2>5. QED BY <2>2, <2>3, <2>4
<1>4. QED BY <1>2, <1>3

\* Lines up.
LEMMA WalkUp ==
    ASSUME NEW e, Formed(e), NEW at \in Int, NEW n \in Int
    PROVE  LET r == edit_move_backward(e, at, n)
           IN  /\ r \in Int
               /\ at \in 0..LastByte(e) =>
                  /\ r \in 0..LastByte(e)
                  /\ n \in 0..Feeds(Text(e), at) =>
                        Feeds(Text(e), r) = Feeds(Text(e), at) - n
<1> DEFINE t == Text(e)
           from == Feeds(Text(e), at)
           b == edit_bol(e, at)
<1>1. LastByte(e) \in Nat
  BY TextIs
<1>2. /\ b \in Int
      /\ at \in 0..LastByte(e) => b \in 0..LastByte(e) /\ Starts(e, b) /\ Feeds(t, b) = from
  <2>1. /\ b \in Nat
        /\ at \in 0..LastByte(e) => b \in 0..at /\ Starts(e, b) /\ Feeds(Text(e), b) = Feeds(Text(e), at)
    BY BolIs
  <2>2. QED BY <1>1, <2>1
<1>3. edit_move_backward(e, at, n) = Walk(e, b, n, FALSE)
  BY DEF edit_move_backward
<1> HIDE DEF b
<1>4. CASE n <= 0
  <2>1. edit_move_backward(e, at, n) = b
    BY ZenonT(60), <1>2, <1>3, <1>4, WalkNone
  <2>2. ASSUME at \in 0..LastByte(e), n \in 0..from PROVE Feeds(t, b) = from - n
    <3>1. n = 0 /\ from \in Nat
      BY <1>1, <1>4, <2>2, FeedsStep
    <3>2. QED BY <1>2, <2>2, <3>1
  <2>3. QED BY <1>2, <2>1, <2>2
<1>5. CASE n > 0
  <2>1. n \in Nat
    BY <1>5
  <2>2. PICK h \in [0..n -> Int] :
              /\ h[0] = b /\ edit_move_backward(e, at, n) = h[n]
              /\ \A i \in 1..n : h[i] = LineUp(e, h[i - 1])
    <3>1. \E h \in [0..n -> Int] :
              /\ h[0] = b /\ Walk(e, b, n, FALSE) = h[n]
              /\ \A i \in 1..n : h[i] = LineUp(e, h[i - 1])
      <4>1. Walked(e, b, n, FALSE)
        BY <1>2, <1>5, <2>1, WalkSteps
      <4>2. \A x : NextLine(e, x, FALSE) = LineUp(e, x)
        BY DEF NextLine
      <4>3. QED BY <4>1, <4>2 DEF Walked
    <3>2. QED BY <1>3, <3>1
  <2>3. ASSUME at \in 0..LastByte(e)
        PROVE  /\ h[n] \in 0..LastByte(e)
               /\ n \in 0..from => Feeds(t, h[n]) = from - n
    <3>1. from \in Nat
      BY <1>1, <2>3, FeedsStep
    <3> DEFINE T == [i \in 0..n |->
                       {x \in 0..LastByte(e) :
                            Starts(e, x) /\ (i \in 0..from => Feeds(t, x) = from - i)}]
    <3> HIDE DEF t, from
    <3>2. h[0] \in T[0]
      <4>1. 0 \in 0..n /\ Feeds(t, b) = from - 0
        BY <1>2, <2>1, <2>3, <3>1
      <4>2. QED BY <1>2, <2>2, <2>3, <4>1
    <3>3. ASSUME NEW i \in 1..n, h[i - 1] \in T[i - 1] PROVE h[i] \in T[i]
      <4>1. i - 1 \in 0..n /\ i \in 0..n
        BY <2>1
      <4>2. /\ h[i - 1] \in 0..LastByte(e) /\ Starts(e, h[i - 1])
            /\ i - 1 \in 0..from => Feeds(t, h[i - 1]) = from - (i - 1)
        BY <3>3, <4>1
      <4>3. /\ h[i] \in 0..LastByte(e) /\ Starts(e, h[i])
            /\ Feeds(t, h[i - 1]) > 0 => Feeds(t, h[i]) = Feeds(t, h[i - 1]) - 1
        <5>1. h[i - 1] \in Int /\ h[i] = LineUp(e, h[i - 1])
          BY <2>2, <4>1
        <5>2. QED BY <4>2, <5>1, UpIs DEF t
      <4>4. ASSUME i \in 0..from PROVE Feeds(t, h[i]) = from - i
        <5>1. Feeds(t, h[i - 1]) = from - (i - 1) /\ from - (i - 1) > 0 /\ i \in Int
          BY <2>1, <3>1, <4>2, <4>4
        <5>2. QED BY <3>1, <4>3, <5>1
      <4>5. QED BY <4>1, <4>3, <4>4
    <3> HIDE DEF T
    <3>4. \A i \in 0..n : h[i] \in T[i]
      BY <2>1, <3>2, <3>3, Stepwise
    <3>5. n \in 0..n
      BY <2>1
    <3>6. h[n] \in T[n]
      BY <3>4, <3>5
    <3>7. QED BY <3>5, <3>6 DEF T
  <2>4. edit_move_backward(e, at, n) \in Int
    BY <2>1, <2>2
  <2>5. QED BY <2>2, <2>3, <2>4
<1>6. QED BY <1>4, <1>5

-----------------------------------------------------------------------------
(* The screen.                                                             *)

\* The screen elsewhere.
LEMMA WithTopIs ==
    ASSUME NEW e, Formed(e), NEW d \in Int, NEW l \in Int
    PROVE  LET f == WithTop(e, d, l)
           IN  /\ Scrolled(e, f) /\ f.start_display = d /\ f.start_line = l
               /\ Placed(e) /\ d \in 0..LastByte(e) /\ l = Feeds(Text(e), d) => Placed(f)
<1> DEFINE f == WithTop(e, d, l)
<1>1. f \in Edits /\ f.start_display = d /\ f.start_line = l
  BY DEF WithTop, Formed, Edits
<1>2. SameRing(e, f) /\ SameText(e, f) /\ SameModes(e, f) /\ f.mark1 = e.mark1 /\ f.mark2 = e.mark2
  BY DEF WithTop, SameRing, SameText, SameModes, Formed, Edits
<1> HIDE DEF f
<1>3. Formed(f)
  BY <1>1, <1>2 DEF Formed, Ring, SameRing
<1>4. Placed(e) /\ d \in 0..LastByte(e) /\ l = Feeds(Text(e), d) => Placed(f)
  BY <1>1, <1>2 DEF Placed, SameText, Text, LastByte
<1>5. QED BY <1>1, <1>2, <1>3, <1>4 DEF Scrolled, f

\* Nothing is scrolled.
LEMMA ScrolledSelf ==
    ASSUME NEW e, Formed(e)
    PROVE  Scrolled(e, e)
BY DEF Scrolled, SameRing, SameText, SameModes

\* A scrolled screen follows.
LEMMA ScrolledFollows ==
    ASSUME NEW e, Sound(e), NEW f, Scrolled(e, f), Right(e) /\ Placed(e) => Placed(f)
    PROVE  Follows(e, f)
BY ScreenFollows DEF Scrolled

\* The screen up.
LEMMA UpwardIs ==
    ASSUME NEW e, Formed(e), NEW n \in Nat
    PROVE  LET f == edit_scroll_upward(e, n)
           IN  /\ Scrolled(e, f) /\ (Placed(e) => Placed(f))
               /\ n <= e.start_line => f.start_line = e.start_line - n
<1> DEFINE i == Min({n, e.start_line})
           d == edit_move_backward(e, e.start_display, i)
           f == edit_scroll_upward(e, n)
<1>1. e.start_line \in Int /\ e.start_display \in Int
  BY DEF Formed, Edits
<1>2. i \in Int /\ (n <= e.start_line => i = n) /\ (e.start_line >= 0 => i \in 0..e.start_line)
  BY <1>1, MinOfTwo
<1>3. f = IF i = 0 THEN e ELSE WithTop(e, d, e.start_line - i)
  BY DEF edit_scroll_upward, WithTop
<1> HIDE DEF i, f
<1>4. CASE i = 0
  <2>1. f = e /\ Scrolled(e, e)
    BY <1>3, <1>4, ScrolledSelf
  <2>2. n <= e.start_line => e.start_line = e.start_line - n
    BY <1>1, <1>2, <1>4
  <2>3. QED BY <2>1, <2>2 DEF f
<1>5. CASE i # 0
  <2>1. f = WithTop(e, d, e.start_line - i)
    BY <1>3, <1>5
  <2>2. /\ d \in Int
        /\ e.start_display \in 0..LastByte(e) =>
              /\ d \in 0..LastByte(e)
              /\ i \in 0..Feeds(Text(e), e.start_display) =>
                    Feeds(Text(e), d) = Feeds(Text(e), e.start_display) - i
    BY <1>1, <1>2, WalkUp
  <2> HIDE DEF d
  <2> DEFINE l == e.start_line - i
  <2>3. l \in Int
    BY <1>1, <1>2
  <2>4. Placed(e) => d \in 0..LastByte(e) /\ l = Feeds(Text(e), d)
    <3>1. SUFFICES ASSUME Placed(e) PROVE d \in 0..LastByte(e) /\ l = Feeds(Text(e), d)
      OBVIOUS
    <3>2. e.start_display \in 0..LastByte(e) /\ e.start_line = Feeds(Text(e), e.start_display)
      BY <3>1 DEF Placed
    <3>3. e.start_display \in Nat
      BY <3>2, TextIs
    <3>4. e.start_line >= 0
      BY <3>2, <3>3, FeedsStep
    <3>5. QED BY <1>2, <2>2, <3>2, <3>4
  <2> HIDE DEF l
  <2>5. Scrolled(e, f) /\ f.start_line = l /\ (Placed(e) => Placed(f))
    BY <2>1, <2>2, <2>3, <2>4, WithTopIs DEF l
  <2>6. n <= e.start_line => l = e.start_line - n
    BY <1>2 DEF l
  <2>7. QED BY <2>5, <2>6 DEF f
<1>6. QED BY <1>4, <1>5

\* The screen down.
LEMMA DownwardIs ==
    ASSUME NEW e, Formed(e), NEW n \in Nat
    PROVE  LET f == edit_scroll_downward(e, n)
           IN  /\ Scrolled(e, f) /\ (Right(e) /\ Placed(e) => Placed(f))
               /\ 0 < n /\ n <= e.total_lines - e.start_line - (Lines - 1) =>
                     f.start_line = e.start_line + n
<1> DEFINE below == e.total_lines - e.start_line - (Lines - 1)
           i == Min({n, below})
           d == edit_move_forward(e, e.start_display, i)
           f == edit_scroll_downward(e, n)
<1>1. e.start_line \in Int /\ e.start_display \in Int /\ e.total_lines \in Int
      /\ Lines \in Nat /\ Lines > 0
  BY Bounds DEF Formed, Edits
<1>2. below \in Int /\ below <= e.total_lines - e.start_line
  BY <1>1
<1>3. f = IF below <= 0 THEN e ELSE WithTop(e, d, e.start_line + i)
  BY DEF edit_scroll_downward, WithTop
<1> HIDE DEF below
<1>4. i \in Int /\ (n <= below => i = n) /\ (below > 0 => i \in 0..below)
  BY <1>2, MinOfTwo
<1> HIDE DEF i, f
<1>5. CASE below <= 0
  <2>1. f = e /\ Scrolled(e, e)
    BY <1>3, <1>5, ScrolledSelf
  <2>2. ~(0 < n /\ n <= below)
    BY <1>2, <1>5
  <2>3. QED BY <2>1, <2>2 DEF f, below
<1>6. CASE below > 0
  <2>1. f = WithTop(e, d, e.start_line + i)
    BY <1>2, <1>3, <1>6
  <2>2. /\ d \in Int
        /\ e.start_display \in 0..LastByte(e) =>
              /\ d \in 0..LastByte(e)
              /\ i \in 0..Feeds(Text(e), LastByte(e)) - Feeds(Text(e), e.start_display) =>
                    Feeds(Text(e), d) = Feeds(Text(e), e.start_display) + i
    BY <1>1, <1>4, WalkDown
  <2> HIDE DEF d
  <2> DEFINE l == e.start_line + i
  <2>3. l \in Int
    BY <1>1, <1>4
  <2>4. Right(e) /\ Placed(e) => d \in 0..LastByte(e) /\ l = Feeds(Text(e), d)
    <3>1. SUFFICES ASSUME Right(e), Placed(e)
                   PROVE  d \in 0..LastByte(e) /\ l = Feeds(Text(e), d)
      OBVIOUS
    <3>2. /\ e.start_display \in 0..LastByte(e)
          /\ e.start_line = Feeds(Text(e), e.start_display)
          /\ e.total_lines = Feeds(Text(e), LastByte(e))
      BY <3>1 DEF Placed, Right
    <3>3. i \in 0..e.total_lines - e.start_line
      BY <1>1, <1>2, <1>4, <1>6
    <3>4. QED BY <2>2, <3>2, <3>3
  <2> HIDE DEF l
  <2>5. Scrolled(e, f) /\ f.start_line = l /\ (Right(e) /\ Placed(e) => Placed(f))
    BY <2>1, <2>2, <2>3, <2>4, WithTopIs DEF l
  <2>6. n <= below => l = e.start_line + n
    BY <1>4 DEF l
  <2>7. QED BY <2>5, <2>6 DEF f, below
<1>7. QED BY <1>2, <1>5, <1>6

\* The cursor is in a line of the text.
LEMMA InLines ==
    ASSUME NEW e, Formed(e), Right(e)
    PROVE  e.curs_line \in 0..e.total_lines /\ e.curs_line \in Nat /\ e.total_lines \in Nat
<1>1. Cursor(e) \in Nat /\ LastByte(e) \in Nat /\ Cursor(e) <= LastByte(e)
  <2>1. Cursor(e) \in Nat /\ LastByte(e) \in Nat /\ Cursor(e) \in 0..LastByte(e)
    BY TextIs
  <2>2. QED BY <2>1
<1>2. /\ Feeds(Text(e), Cursor(e)) \in Nat /\ Feeds(Text(e), LastByte(e)) \in Nat
      /\ Feeds(Text(e), Cursor(e)) <= Feeds(Text(e), LastByte(e))
  BY <1>1, FeedsStep, FeedsGrow
<1>3. QED BY <1>2 DEF Right

\* The screen follows the cursor.
LEMMA OverCursorIs ==
    ASSUME NEW e, Formed(e), Right(e)
    PROVE  LET f == edit_scroll_screen_over_cursor(e)
           IN  /\ Scrolled(e, f) /\ (Placed(e) => Placed(f))
               /\ CursorRow(f) \in 0..Lines - 1
               /\ CursorRow(e) \in 0..Lines - 1 => f = e
<1> DEFINE f == edit_scroll_screen_over_cursor(e)
           row == CursorRow(e)
<1>1. /\ e.start_line \in Int /\ e.curs_line \in Nat /\ e.total_lines \in Nat
      /\ e.curs_line <= e.total_lines /\ Lines \in Nat /\ Lines > 0
  <2>1. e.start_line \in Int
    BY DEF Formed, Edits
  <2>2. QED BY <2>1, Bounds, InLines
<1>2. row = e.curs_line - e.start_line /\ row \in Int
  BY <1>1 DEF CursorRow
<1>3. f = IF row >= Lines THEN edit_scroll_downward(e, row - Lines + 1)
          ELSE IF row < 0 THEN edit_scroll_upward(e, -row) ELSE e
  BY DEF edit_scroll_screen_over_cursor
<1> HIDE DEF f, row
<1>4. CASE row >= Lines
  <2> DEFINE n == row - Lines + 1
  <2>1. /\ n \in Nat /\ 0 < n /\ n <= e.total_lines - e.start_line - (Lines - 1)
        /\ n = row - Lines + 1
    BY <1>1, <1>2, <1>4
  <2>2. f = edit_scroll_downward(e, n)
    BY <1>3, <1>4
  <2> HIDE DEF n
  <2>3. Scrolled(e, f) /\ (Placed(e) => Placed(f)) /\ f.start_line = e.start_line + n
    BY <2>1, <2>2, DownwardIs
  <2>4. f.curs_line = e.curs_line
    BY <2>3 DEF Scrolled, SameText
  <2>5. CursorRow(f) \in 0..Lines - 1
    BY <1>1, <1>2, <2>1, <2>3, <2>4 DEF CursorRow
  <2>6. ~(row \in 0..Lines - 1)
    BY <1>1, <1>2, <1>4
  <2>7. QED BY <2>3, <2>5, <2>6 DEF f, row
<1>5. CASE row < 0
  <2> DEFINE n == -row
  <2>1. n \in Nat /\ n <= e.start_line /\ n = -row
    BY <1>1, <1>2, <1>5
  <2>2. f = edit_scroll_upward(e, n)
    BY <1>1, <1>2, <1>3, <1>5
  <2> HIDE DEF n
  <2>3. Scrolled(e, f) /\ (Placed(e) => Placed(f)) /\ f.start_line = e.start_line - n
    BY <2>1, <2>2, UpwardIs
  <2>4. f.curs_line = e.curs_line
    BY <2>3 DEF Scrolled, SameText
  <2>5. CursorRow(f) \in 0..Lines - 1
    BY <1>1, <1>2, <2>1, <2>3, <2>4 DEF CursorRow
  <2>6. ~(row \in 0..Lines - 1)
    BY <1>1, <1>2, <1>5
  <2>7. QED BY <2>3, <2>5, <2>6 DEF f, row
<1>6. CASE row \in 0..Lines - 1
  <2>1. f = e /\ Scrolled(e, e)
    BY <1>1, <1>2, <1>3, <1>6, ScrolledSelf
  <2>2. QED BY <1>6, <2>1 DEF f, row
<1>7. QED BY <1>1, <1>2, <1>4, <1>5, <1>6

\* So it follows.
LEMMA OverCursorFollows ==
    ASSUME NEW e, Sound(e)
    PROVE  Follows(e, edit_scroll_screen_over_cursor(e))
BY OverCursorIs, ScrolledFollows DEF Sound

-----------------------------------------------------------------------------
(* What repeated commands do to the text.                                  *)

\* A command that is repeated, step by step.
LEMMA TimesIs ==
    ASSUME NEW e, Formed(e), NEW op \in Loops, NEW n \in Nat
    PROVE  Repeatedly(op, e, n)
<1> DEFINE cs == [i \in 1..n |-> Entry(op, 0)]
<1>1. Entry(op, 0) \in Moves
  BY DEF Entry, Moves, MoveOps, Entries, Ops, Loops
<1>2. cs \in [1..n -> Moves]
  BY <1>1
<1>3. cs \in Seq(Moves)
  BY <1>2, SeqDef
<1>4. DOMAIN cs = 1..n
  OBVIOUS
<1>5. \A i \in 1..n : cs[i] = Entry(op, 0)
  OBVIOUS
<1>6. Times(op, e, n) = DoAll(e, cs)
  BY DEF Times
<1> HIDE DEF cs
<1>7. Len(cs) = n
  BY <1>3, <1>4, LenProperties
<1>8. PICK g \in [0..Len(cs) -> {x \in Edits : Ring(x)}] :
          /\ g[0] = e /\ DoAll(e, cs) = g[Len(cs)]
          /\ \A i \in 1..Len(cs) : g[i] = Do(g[i - 1], cs[i])
  BY <1>3, DoAllIs
<1>9. g \in [0..n -> {x \in Edits : Ring(x)}]
  BY <1>7, <1>8
<1>10. /\ g[0] = e /\ Times(op, e, n) = g[n]
       /\ \A i \in 1..n : g[i] = Do(g[i - 1], Entry(op, 0))
  BY <1>5, <1>6, <1>7, <1>8
<1>11. QED BY <1>9, <1>10 DEF Repeatedly

\* A step to the right.
LEMMA RightMoved ==
    ASSUME NEW e, Formed(e)
    PROVE  /\ e.after = <<>> => StepRight(e) = e
           /\ e.after # <<>> => Moved(e, StepRight(e), 1)
<1>1. ASSUME e.after = <<>> PROVE StepRight(e) = e
  BY <1>1 DEF StepRight
<1>2. ASSUME e.after # <<>> PROVE Moved(e, StepRight(e), 1)
  <2> DEFINE f == StepRight(e)
             c == Head(e.after)
  <2>1. /\ Formed(f) /\ SameModes(e, f) /\ c \in Chars
        /\ f.before = Append(e.before, c) /\ f.after = Tail(e.after)
        /\ f.total_lines = e.total_lines /\ SameScreen(e, f)
    BY <1>2, RightIs DEF Primitive
  <2>2. e.before \in Seq(Chars) /\ e.after \in Seq(Chars)
    BY TextIs
  <2>3. e.after = <<c>> \o f.after /\ f.after \in Seq(Chars)
    BY <1>2, <2>1, <2>2, Taken
  <2> HIDE DEF f, c
  <2>4. /\ Append(e.before, c) \o f.after = e.before \o (<<c>> \o f.after)
        /\ Len(Append(e.before, c)) = Len(e.before) + 1
    BY ZenonT(60), <2>1, <2>2, <2>3, ByteBetween
  <2>5. Text(f) = Text(e) /\ Cursor(f) = Cursor(e) + 1
    BY <2>1, <2>3, <2>4 DEF Text, Cursor
  <2>6. QED BY <2>1, <2>5 DEF Moved, f
<1>3. QED BY <1>1, <1>2

\* A step to the left.
LEMMA LeftMoved ==
    ASSUME NEW e, Formed(e)
    PROVE  /\ e.before = <<>> => StepLeft(e) = e
           /\ e.before # <<>> => Moved(e, StepLeft(e), -1)
<1>1. ASSUME e.before = <<>> PROVE StepLeft(e) = e
  BY <1>1 DEF StepLeft
<1>2. ASSUME e.before # <<>> PROVE Moved(e, StepLeft(e), -1)
  <2> DEFINE f == StepLeft(e)
             c == Last(e.before)
  <2>1. /\ Formed(f) /\ SameModes(e, f) /\ c \in Chars
        /\ f.before = Front(e.before) /\ f.after = <<c>> \o e.after
        /\ f.total_lines = e.total_lines /\ SameScreen(e, f)
    BY <1>2, LeftIs DEF Primitive
  <2>2. e.before \in Seq(Chars) /\ e.after \in Seq(Chars)
    BY TextIs
  <2>3. e.before = Append(f.before, c) /\ f.before \in Seq(Chars)
    BY <1>2, <2>1, <2>2, Taken
  <2> HIDE DEF f, c
  <2>4. /\ Append(f.before, c) \o e.after = f.before \o (<<c>> \o e.after)
        /\ Len(Append(f.before, c)) = Len(f.before) + 1 /\ Len(f.before) \in Nat
    BY <2>1, <2>2, <2>3, ByteBetween
  <2>5. Text(f) = Text(e)
    BY <2>1, <2>3, <2>4 DEF Text
  <2>6. Cursor(f) = Cursor(e) + -1
    BY <2>3, <2>4 DEF Cursor
  <2>7. QED BY <2>1, <2>5, <2>6 DEF Moved, f
<1>3. QED BY <1>1, <1>2

\* Steps to the right.
LEMMA RightTimes ==
    ASSUME NEW e, Formed(e), NEW n \in Nat
    PROVE  LET f == Times("right", e, n)
           IN  /\ Elsewhere(e, f)
               /\ Cursor(e) + n <= LastByte(e) => Cursor(f) = Cursor(e) + n
<1>1. PICK g \in [0..n -> {x \in Edits : Ring(x)}] :
          /\ g[0] = e /\ Times("right", e, n) = g[n]
          /\ \A i \in 1..n : g[i] = Do(g[i - 1], Entry("right", 0))
  <2>1. "right" \in Loops
    BY DEF Loops
  <2>2. Repeatedly("right", e, n)
    BY <2>1, TimesIs
  <2>3. QED BY <2>2 DEF Repeatedly
<1>2. \A x : Do(x, Entry("right", 0)) = StepRight(x)
  BY DEF Do, Entry
<1> DEFINE T == [i \in 0..n |-> {x \in Edits : Elsewhere(e, x)
                     /\ (Cursor(e) + n <= LastByte(e) => Cursor(x) = Cursor(e) + i)}]
<1>3. Cursor(e) \in Nat /\ LastByte(e) \in Nat
  BY TextIs
<1>4. g[0] \in T[0]
  <2>1. Elsewhere(e, e) /\ e \in Edits
    BY DEF Elsewhere, SameScreen, SameModes, Formed
  <2>2. Cursor(e) = Cursor(e) + 0 /\ 0 \in 0..n
    BY <1>3
  <2>3. QED BY <1>1, <2>1, <2>2
<1>5. ASSUME NEW i \in 1..n, g[i - 1] \in T[i - 1] PROVE g[i] \in T[i]
  <2> DEFINE x == g[i - 1]
             y == StepRight(x)
  <2>1. i \in 0..n /\ i - 1 \in 0..n /\ i \in Nat
    OBVIOUS
  <2>2. Elsewhere(e, x) /\ (Cursor(e) + n <= LastByte(e) => Cursor(x) = Cursor(e) + (i - 1))
    BY <1>5, <2>1
  <2>3. g[i] = y
    BY <1>1, <1>2
  <2> HIDE DEF x, y
  <2>4. Formed(x) /\ Text(x) = Text(e)
    BY <2>2 DEF Elsewhere
  <2>5. /\ x.after = <<>> => y = x
        /\ x.after # <<>> => Moved(x, y, 1)
    BY <2>4, RightMoved DEF y
  <2>6. Elsewhere(e, y)
    BY <2>2, <2>5 DEF Elsewhere, Moved, SameScreen, SameModes
  <2>7. y \in Edits
    BY <2>6 DEF Elsewhere, Formed
  <2>8. ASSUME Cursor(e) + n <= LastByte(e) PROVE Cursor(y) = Cursor(e) + i
    <3>1. Cursor(x) = Cursor(e) + (i - 1)
      BY <2>2, <2>8
    <3>2. /\ Len(Text(e)) = LastByte(e) /\ Len(Text(x)) = LastByte(x)
          /\ LastByte(x) = Len(x.before) + Len(x.after) /\ Cursor(x) = Len(x.before)
          /\ Len(x.after) \in Nat /\ Len(x.before) \in Nat
      BY <2>4, TextIs
    <3>3. LastByte(x) = LastByte(e)
      BY <2>4, <3>2
    <3>4. PICK c, l, p, q \in Nat :
              c = Cursor(e) /\ l = LastByte(e) /\ p = Len(x.before) /\ q = Len(x.after)
      BY <1>3, <3>2
    <3>5. l = p + q /\ p = c + (i - 1) /\ c + n <= l
      BY <2>8, <3>1, <3>2, <3>3, <3>4
    <3>6. q > 0
      BY <3>5
    <3>7. Len(x.after) > 0
      BY <3>4, <3>6
    <3>8. x.after # <<>>
      BY <3>7
    <3>9. Cursor(y) = Cursor(x) + 1
      BY <2>5, <3>8 DEF Moved
    <3>10. QED BY <1>3, <2>1, <3>1, <3>9
  <2>9. QED BY <2>1, <2>3, <2>6, <2>7, <2>8
<1> HIDE DEF T
<1>6. \A i \in 0..n : g[i] \in T[i]
  BY <1>4, <1>5, Stepwise
<1>7. g[n] \in T[n] /\ n \in 0..n
  BY <1>6
<1>8. QED BY <1>1, <1>7 DEF T

\* Steps to the left.
LEMMA LeftTimes ==
    ASSUME NEW e, Formed(e), NEW n \in Nat
    PROVE  LET f == Times("left", e, n)
           IN  /\ Elsewhere(e, f)
               /\ n <= Cursor(e) => Cursor(f) = Cursor(e) - n
<1>1. PICK g \in [0..n -> {x \in Edits : Ring(x)}] :
          /\ g[0] = e /\ Times("left", e, n) = g[n]
          /\ \A i \in 1..n : g[i] = Do(g[i - 1], Entry("left", 0))
  <2>1. "left" \in Loops
    BY DEF Loops
  <2>2. Repeatedly("left", e, n)
    BY <2>1, TimesIs
  <2>3. QED BY <2>2 DEF Repeatedly
<1>2. \A x : Do(x, Entry("left", 0)) = StepLeft(x)
  BY DEF Do, Entry
<1> DEFINE T == [i \in 0..n |-> {x \in Edits : Elsewhere(e, x)
                     /\ (n <= Cursor(e) => Cursor(x) = Cursor(e) - i)}]
<1>3. Cursor(e) \in Nat
  BY TextIs
<1>4. g[0] \in T[0]
  <2>1. Elsewhere(e, e) /\ e \in Edits
    BY DEF Elsewhere, SameScreen, SameModes, Formed
  <2>2. Cursor(e) = Cursor(e) - 0 /\ 0 \in 0..n
    BY <1>3
  <2>3. QED BY <1>1, <2>1, <2>2
<1>5. ASSUME NEW i \in 1..n, g[i - 1] \in T[i - 1] PROVE g[i] \in T[i]
  <2> DEFINE x == g[i - 1]
             y == StepLeft(x)
  <2>1. i \in 0..n /\ i - 1 \in 0..n /\ i \in Nat
    OBVIOUS
  <2>2. Elsewhere(e, x) /\ (n <= Cursor(e) => Cursor(x) = Cursor(e) - (i - 1))
    BY <1>5, <2>1
  <2>3. g[i] = y
    BY <1>1, <1>2
  <2> HIDE DEF x, y
  <2>4. Formed(x)
    BY <2>2 DEF Elsewhere
  <2>5. /\ x.before = <<>> => y = x
        /\ x.before # <<>> => Moved(x, y, -1)
    BY <2>4, LeftMoved DEF y
  <2>6. Elsewhere(e, y)
    BY <2>2, <2>5 DEF Elsewhere, Moved, SameScreen, SameModes
  <2>7. y \in Edits
    BY <2>6 DEF Elsewhere, Formed
  <2>8. ASSUME n <= Cursor(e) PROVE Cursor(y) = Cursor(e) - i
    <3>1. Cursor(x) = Cursor(e) - (i - 1)
      BY <2>2, <2>8
    <3>2. Cursor(x) = Len(x.before) /\ Len(x.before) \in Nat
      BY <2>4, TextIs
    <3>3. Len(x.before) > 0
      BY <1>3, <2>1, <2>8, <3>1, <3>2
    <3>4. x.before # <<>>
      BY <3>3
    <3>5. Cursor(y) = Cursor(x) + -1
      BY <2>5, <3>4 DEF Moved
    <3>6. QED BY <1>3, <2>1, <3>1, <3>5
  <2>9. QED BY <2>1, <2>3, <2>6, <2>7, <2>8
<1> HIDE DEF T
<1>6. \A i \in 0..n : g[i] \in T[i]
  BY <1>4, <1>5, Stepwise
<1>7. g[n] \in T[n] /\ n \in 0..n
  BY <1>6
<1>8. QED BY <1>1, <1>7 DEF T

\* The cursor goes where it is sent.
LEMMA MoveToIs ==
    ASSUME NEW e, Formed(e), NEW at \in Int
    PROVE  /\ Elsewhere(e, MoveTo(e, at))
           /\ at \in 0..LastByte(e) => Cursor(MoveTo(e, at)) = at
           /\ Sound(e) => Follows(e, MoveTo(e, at))
<1>1. Cursor(e) \in Nat /\ LastByte(e) \in Nat
  BY TextIs
<1>2. CASE at < Cursor(e)
  <2> DEFINE n == Cursor(e) - at
  <2>1. n \in Nat /\ (at \in 0..LastByte(e) => n <= Cursor(e) /\ Cursor(e) - n = at)
    BY <1>1, <1>2
  <2>2. MoveTo(e, at) = Times("left", e, n)
    <3>1. at - Cursor(e) < 0 /\ -(at - Cursor(e)) = n
      BY <1>1, <1>2
    <3> HIDE DEF n
    <3>2. QED BY <3>1 DEF MoveTo, edit_cursor_move
  <2> HIDE DEF n
  <2>3. QED BY <2>1, <2>2, LeftTimes, TimesFollows
<1>3. CASE at >= Cursor(e)
  <2> DEFINE n == at - Cursor(e)
  <2>1. n \in Nat /\ (at \in 0..LastByte(e) => Cursor(e) + n <= LastByte(e) /\ Cursor(e) + n = at)
    BY <1>1, <1>3
  <2>2. MoveTo(e, at) = Times("right", e, n)
    <3>1. ~(at - Cursor(e) < 0) /\ at - Cursor(e) = n
      BY <1>1, <1>3
    <3> HIDE DEF n
    <3>2. QED BY <3>1 DEF MoveTo, edit_cursor_move
  <2> HIDE DEF n
  <2>3. QED BY <2>1, <2>2, RightTimes, TimesFollows
<1>4. QED BY <1>1, <1>2, <1>3

-----------------------------------------------------------------------------
(* What the repeated commands do to the text.                              *)

\* One of them goes.
LEMMA TrimStep ==
    ASSUME NEW e, Formed(e), NEW x, NEW i \in Nat, Trimmed(e, x, i), i + 1 <= Len(e.after)
    PROVE  Trimmed(e, edit_delete(x), i + 1)
<1> DEFINE y == edit_delete(x)
<1>1. Formed(x) /\ x.before = e.before /\ Len(x.after) = Len(e.after) - i
  BY DEF Trimmed
<1>2. /\ x.after \in Seq(Chars) /\ Len(x.after) \in Nat
      /\ e.after \in Seq(Chars) /\ Len(e.after) \in Nat
  BY <1>1, TextIs
<1>3. Len(x.after) > 0
  BY <1>1, <1>2
<1>4. x.after # <<>>
  BY <1>3
<1>5. Formed(y) /\ y.before = x.before /\ y.after = Tail(x.after)
  BY <1>1, <1>4, DeleteIs DEF Primitive
<1> HIDE DEF y
<1>6. /\ Len(y.after) = Len(x.after) - 1
      /\ \A k \in 1..Len(x.after) - 1 : y.after[k] = x.after[k + 1]
  BY <1>2, <1>4, <1>5
<1>7. ASSUME NEW k \in 1..Len(e.after) - (i + 1) PROVE y.after[k] = e.after[(i + 1) + k]
  <2>1. /\ k \in 1..Len(x.after) - 1 /\ k + 1 \in 1..Len(e.after) - i
        /\ i + (k + 1) = (i + 1) + k
    BY <1>1, <1>2
  <2>2. y.after[k] = x.after[k + 1]
    BY <1>6, <2>1
  <2>3. x.after[k + 1] = e.after[i + (k + 1)]
    BY <2>1 DEF Trimmed
  <2>4. QED BY <2>1, <2>2, <2>3
<1>8. Len(y.after) = Len(e.after) - (i + 1)
  BY <1>1, <1>2, <1>6
<1>9. QED BY <1>1, <1>5, <1>7, <1>8 DEF Trimmed, y

\* All of them go.
LEMMA DeleteTimes ==
    ASSUME NEW e, Formed(e), NEW n \in Nat, n <= Len(e.after)
    PROVE  Trimmed(e, Times("delete", e, n), n)
<1>1. PICK g \in [0..n -> {x \in Edits : Ring(x)}] :
          /\ g[0] = e /\ Times("delete", e, n) = g[n]
          /\ \A i \in 1..n : g[i] = Do(g[i - 1], Entry("delete", 0))
  <2>1. "delete" \in Loops
    BY DEF Loops
  <2>2. Repeatedly("delete", e, n)
    BY <2>1, TimesIs
  <2>3. QED BY <2>2 DEF Repeatedly
<1>2. \A x : Do(x, Entry("delete", 0)) = edit_delete(x)
  BY DEF Do, Entry
<1> DEFINE T == [i \in 0..n |-> {x \in Edits : Trimmed(e, x, i)}]
<1>3. Len(e.after) \in Nat
  BY TextIs
<1>4. g[0] \in T[0]
  <2>1. \A k \in 1..Len(e.after) - 0 : e.after[k] = e.after[0 + k]
    BY <1>3
  <2>2. Len(e.after) = Len(e.after) - 0
    BY <1>3
  <2>3. Trimmed(e, e, 0) /\ e \in Edits
    BY <2>1, <2>2 DEF Trimmed, Formed
  <2>4. QED BY <1>1, <2>3
<1>5. ASSUME NEW i \in 1..n, g[i - 1] \in T[i - 1] PROVE g[i] \in T[i]
  <2>1. PICK j \in Nat : j = i - 1 /\ j + 1 = i /\ j + 1 <= Len(e.after) /\ j \in 0..n
    BY <1>3
  <2>2. Trimmed(e, g[j], j)
    BY <1>5, <2>1
  <2>3. Trimmed(e, edit_delete(g[j]), j + 1)
    BY <2>1, <2>2, TrimStep
  <2>4. g[i] = edit_delete(g[j])
    BY <1>1, <1>2, <2>1
  <2>5. Trimmed(e, g[i], i) /\ i \in 0..n
    BY <2>1, <2>3, <2>4
  <2>6. g[i] \in Edits
    BY <2>5 DEF Trimmed, Formed
  <2>7. QED BY <2>5, <2>6
<1> HIDE DEF T
<1>6. \A i \in 0..n : g[i] \in T[i]
  BY <1>4, <1>5, Stepwise
<1>7. g[n] \in T[n] /\ n \in 0..n
  BY <1>6
<1>8. QED BY <1>1, <1>7 DEF T

\* One more goes in.
LEMMA FillStep ==
    ASSUME NEW e, Formed(e), NEW block \in Seq(Chars), NEW x, NEW i \in Nat,
           i + 1 <= Len(block), Filled(e, x, block, i)
    PROVE  Filled(e, edit_insert_ahead(x, block[Len(block) - i]), block, i + 1)
<1> DEFINE L == Len(block)
           c == block[L - i]
           y == edit_insert_ahead(x, c)
<1>1. L \in Nat
  OBVIOUS
<1>2. L - i \in 1..L
  BY <1>1
<1>3. c \in Chars
  BY <1>1, <1>2, ElementOfSeq
<1>4. Formed(x) /\ x.before = e.before /\ Len(x.after) = i + Len(e.after)
  BY DEF Filled
<1>5. /\ x.after \in Seq(Chars) /\ Len(x.after) \in Nat
      /\ e.after \in Seq(Chars) /\ Len(e.after) \in Nat
  BY <1>4, TextIs
<1> HIDE DEF c
<1>6. Formed(y) /\ y.before = x.before /\ y.after = <<c>> \o x.after
  BY <1>3, <1>4, AheadIs DEF Primitive
<1> HIDE DEF y, L
<1>7. /\ Len(y.after) = Len(x.after) + 1 /\ y.after[1] = c
      /\ \A k \in 1..Len(x.after) : y.after[k + 1] = x.after[k]
  BY <1>3, <1>5, <1>6
<1>8. ASSUME NEW k \in 1..i + 1 PROVE y.after[k] = block[L - (i + 1) + k]
  <2>1. CASE k = 1
    <3>1. L - (i + 1) + k = L - i
      BY <1>1, <2>1
    <3>2. QED BY <1>7, <2>1, <3>1 DEF c
  <2>2. CASE k # 1
    <3>1. PICK j \in 1..i : j = k - 1 /\ k = j + 1
      BY <2>2
    <3>2. j \in 1..Len(x.after)
      BY <1>4, <1>5
    <3>3. y.after[j + 1] = x.after[j]
      BY <1>7, <3>2
    <3>4. x.after[j] = block[L - i + j]
      BY DEF Filled, L
    <3>5. L - i + j = L - (i + 1) + k
      BY <1>1, <3>1
    <3>6. QED BY <3>1, <3>3, <3>4, <3>5
  <2>3. QED BY <2>1, <2>2
<1>9. ASSUME NEW k \in 1..Len(e.after) PROVE y.after[(i + 1) + k] = e.after[k]
  <2>1. i + k \in 1..Len(x.after) /\ (i + k) + 1 = (i + 1) + k
    BY <1>4, <1>5
  <2>2. y.after[(i + k) + 1] = x.after[i + k]
    BY <1>7, <2>1
  <2>3. x.after[i + k] = e.after[k]
    BY DEF Filled
  <2>4. QED BY <2>1, <2>2, <2>3
<1>10. Len(y.after) = (i + 1) + Len(e.after)
  <2>1. PICK p, q, r \in Nat : p = Len(y.after) /\ q = Len(x.after) /\ r = Len(e.after)
    BY <1>5, <1>7
  <2>2. p = q + 1 /\ q = i + r
    BY <1>4, <1>7, <2>1
  <2>3. p = (i + 1) + r
    BY <2>2
  <2>4. QED BY <2>1, <2>3
<1>11. QED BY <1>4, <1>6, <1>8, <1>9, <1>10 DEF Filled, y, L, c

\* All of it goes in.
LEMMA InsertBlockIs ==
    ASSUME NEW e, Formed(e), NEW block \in Seq(Chars)
    PROVE  LET f == InsertBlock(e, block)
           IN  /\ Formed(f) /\ f.before = e.before /\ f.after = block \o e.after
               /\ Sound(e) => Follows(e, f)
<1> DEFINE L == Len(block)
           cs == [i \in 1..L |-> Entry("ahead", block[L + 1 - i])]
<1>1. L \in Nat
  OBVIOUS
<1>2. \A i \in 1..L : block[L + 1 - i] \in Chars /\ block[L + 1 - i] \in Int
  <2>1. \A i \in 1..L : L + 1 - i \in 1..L
    BY <1>1
  <2>2. QED BY <1>1, <2>1, Bounds, ElementOfSeq
<1>3. \A i \in 1..L : Entry("ahead", block[L + 1 - i]) \in Moves
  BY <1>2 DEF Entry, Moves, MoveOps, Entries, Ops
<1>4. cs \in [1..L -> Moves]
  BY <1>3
<1>5. cs \in Seq(Moves) /\ DOMAIN cs = 1..L /\ \A i \in 1..L : cs[i] = Entry("ahead", block[L + 1 - i])
  BY <1>1, <1>4, SeqDef
<1>6. InsertBlock(e, block) = DoAll(e, cs)
  BY DEF InsertBlock
<1> HIDE DEF cs
<1>71. cs \in Seq(Moves)
  BY <1>5
<1>7. Len(cs) = L
  BY <1>1, <1>5, LenProperties
<1>8. PICK g \in [0..Len(cs) -> {x \in Edits : Ring(x)}] :
          /\ g[0] = e /\ DoAll(e, cs) = g[Len(cs)]
          /\ \A i \in 1..Len(cs) : g[i] = Do(g[i - 1], cs[i])
  BY <1>71, DoAllIs
<1> HIDE DEF L
<1>9. \A x, c : Do(x, Entry("ahead", c)) = edit_insert_ahead(x, c)
  BY DEF Do, Entry
<1> DEFINE T == [i \in 0..L |-> {x \in Edits : Filled(e, x, block, i)}]
<1>10. Len(e.after) \in Nat
  BY TextIs
<1>11. g[0] \in T[0]
  <2>1. /\ \A k \in 1..Len(e.after) : e.after[0 + k] = e.after[k]
        /\ \A k \in 1..0 : e.after[k] = block[Len(block) - 0 + k]
    BY <1>10
  <2>2. Len(e.after) = 0 + Len(e.after)
    BY <1>10
  <2>3. Filled(e, e, block, 0) /\ e \in Edits
    BY <2>1, <2>2 DEF Filled, Formed
  <2>4. 0 \in 0..L
    BY <1>1
  <2>5. QED BY <1>8, <2>3, <2>4
<1>12. ASSUME NEW i \in 1..L, g[i - 1] \in T[i - 1] PROVE g[i] \in T[i]
  <2>1. PICK j \in Nat : j = i - 1 /\ j + 1 = i /\ j + 1 <= Len(block) /\ j \in 0..L
    BY <1>1 DEF L
  <2>2. Filled(e, g[j], block, j)
    BY <1>12, <2>1
  <2>3. Filled(e, edit_insert_ahead(g[j], block[Len(block) - j]), block, j + 1)
    BY <2>1, <2>2, FillStep
  <2>4. Len(block) - j = L + 1 - i
    BY <1>1, <2>1 DEF L
  <2>5. g[i] = Do(g[j], cs[i])
    BY <1>7, <1>8, <2>1
  <2>6. g[i] = edit_insert_ahead(g[j], block[Len(block) - j])
    BY <1>5, <1>9, <2>4, <2>5
  <2>7. Filled(e, g[i], block, i) /\ i \in 0..L
    BY <1>1, <2>1, <2>3, <2>6
  <2>8. g[i] \in Edits
    BY <2>7 DEF Filled, Formed
  <2>9. QED BY <2>7, <2>8
<1> HIDE DEF T
<1>13. \A i \in 0..L : g[i] \in T[i]
  BY <1>1, <1>11, <1>12, Stepwise
<1>14. g[L] \in T[L] /\ L \in 0..L
  BY <1>1, <1>13
<1> DEFINE f == InsertBlock(e, block)
<1>15. Filled(e, f, block, L)
  BY <1>6, <1>7, <1>8, <1>14 DEF T
<1>16. Sound(e) => Follows(e, f)
  BY <1>5, <1>6, DoAllFollows
<1> HIDE DEF f
<1>17. f.after = block \o e.after
  <2>1. /\ Formed(f) /\ Len(f.after) = L + Len(e.after)
        /\ \A k \in 1..L : f.after[k] = block[L - L + k]
        /\ \A k \in 1..Len(e.after) : f.after[L + k] = e.after[k]
    BY <1>15 DEF Filled, L
  <2>2. f.after \in Seq(Chars) /\ e.after \in Seq(Chars)
    BY <2>1, TextIs
  <2>3. /\ block \o e.after \in Seq(Chars) /\ Len(block \o e.after) = L + Len(e.after)
        /\ \A k \in 1..L + Len(e.after) :
              (block \o e.after)[k] = IF k <= L THEN block[k] ELSE e.after[k - L]
    BY <2>2, ConcatProperties DEF L
  <2>4. ASSUME NEW k \in 1..L + Len(e.after) PROVE f.after[k] = (block \o e.after)[k]
    <3>1. CASE k <= L
      <4>1. k \in 1..L /\ L - L + k = k
        BY <1>1, <1>10, <3>1
      <4>2. QED BY <2>1, <2>3, <3>1, <4>1
    <3>2. CASE ~(k <= L)
      <4>1. k - L \in 1..Len(e.after) /\ L + (k - L) = k
        BY <1>1, <1>10, <3>2
      <4>2. f.after[L + (k - L)] = e.after[k - L]
        BY <2>1, <4>1
      <4>3. (block \o e.after)[k] = e.after[k - L]
        BY <2>3, <3>2
      <4>4. QED BY <4>1, <4>2, <4>3
    <3>3. QED BY <3>1, <3>2
  <2> DEFINE p == f.after
             q == block \o e.after
  <2>5. p \in Seq(Chars) /\ q \in Seq(Chars) /\ Len(p) = Len(q)
        /\ \A k \in 1..Len(p) : p[k] = q[k]
    BY <2>1, <2>2, <2>3, <2>4
  <2> HIDE DEF p, q
  <2>6. p = q
    BY <2>5, SeqEqual
  <2>7. QED BY <2>6 DEF p, q
<1>18. Formed(f) /\ f.before = e.before
  BY <1>15 DEF Filled
<1>19. QED BY <1>16, <1>17, <1>18 DEF f

-----------------------------------------------------------------------------
(* The primitives, the scrolling and the moves between two keys.           *)

\* The offsets are integers.
LEMMA OffsetsIn ==
    ASSUME NEW e, Formed(e)
    PROVE  Cursor(e) \in Int /\ LastByte(e) \in Int
<1>1. Cursor(e) \in Nat /\ LastByte(e) \in Nat
  BY TextIs
<1> DEFINE c == Cursor(e)
           l == LastByte(e)
<1>2. c \in Nat /\ l \in Nat
  BY <1>1
<1> HIDE DEF c, l
<1>3. c \in Int /\ l \in Int
  BY <1>2
<1>4. QED BY <1>3 DEF c, l

\* A byte that is inserted.
LEMMA InsertFollows ==
    ASSUME NEW e, Sound(e), NEW c \in Chars
    PROVE  Follows(e, edit_insert(e, c))
<1> DEFINE d == Entry("insert", c)
<1>1. c \in Int
  BY Bounds
<1>2. d \in Moves
  BY <1>1 DEF Entry, Moves, MoveOps, Entries, Ops
<1>3. Do(e, d) = edit_insert(e, c)
  BY DEF Do, Entry
<1> HIDE DEF d
<1>4. Follows(e, Do(e, d))
  BY <1>2, DoFollows
<1>5. QED BY <1>3, <1>4

\* A byte that is deleted, at the cursor or before it.
LEMMA RemoveFollows ==
    ASSUME NEW e, Sound(e)
    PROVE  Follows(e, edit_delete(e)) /\ Follows(e, edit_backspace(e))
<1> DEFINE c == Entry("delete", 0)
           d == Entry("backspace", 0)
<1>1. c \in Moves /\ d \in Moves
  BY DEF Entry, Moves, MoveOps, Entries, Ops
<1>2. Do(e, c) = edit_delete(e) /\ Do(e, d) = edit_backspace(e)
  BY DEF Do, Entry
<1> HIDE DEF c, d
<1>3. Follows(e, Do(e, c)) /\ Follows(e, Do(e, d))
  BY <1>1, DoFollows
<1>4. QED BY <1>2, <1>3

\* A scrolled display.
LEMMA ScrollFollows ==
    ASSUME NEW e, Sound(e), NEW n \in Nat
    PROVE  Follows(e, edit_scroll_upward(e, n)) /\ Follows(e, edit_scroll_downward(e, n))
<1>1. Formed(e)
  BY DEF Sound
<1> DEFINE u == edit_scroll_upward(e, n)
           d == edit_scroll_downward(e, n)
<1>2. /\ Scrolled(e, u) /\ (Placed(e) => Placed(u))
      /\ Scrolled(e, d) /\ (Right(e) /\ Placed(e) => Placed(d))
  BY <1>1, UpwardIs, DownwardIs
<1> HIDE DEF u, d
<1>3. Follows(e, u) /\ Follows(e, d)
  BY <1>2, ScrolledFollows
<1>4. QED BY <1>3 DEF u, d

\* A cursor that is sent somewhere.
LEMMA MoveFollows ==
    ASSUME NEW e, NEW f, Follows(e, f), NEW at \in Int
    PROVE  Follows(e, MoveTo(f, at)) /\ Sound(f)
<1>1. Sound(f) /\ Formed(f)
  BY DEF Follows, Sound
<1>2. Follows(f, MoveTo(f, at))
  BY <1>1, MoveToIs
<1>3. QED BY <1>1, <1>2, FollowsChain

\* The column that is kept.
LEMMA ColumnFollows ==
    ASSUME NEW e, NEW f, Follows(e, f), NEW line \in Int
    PROVE  Follows(e, edit_move_to_prev_col(f, line))
<1>1. Formed(f)
  BY DEF Follows, Sound
<1>2. f.prev_col \in Int
  BY <1>1 DEF Formed, Edits
<1>3. edit_eol(f, line) \in Int
  BY <1>1, EolIs
<1> DEFINE a == line + f.prev_col
           b == edit_eol(f, line)
           at == Min({a, b})
<1>4. a \in Int /\ b \in Int
  BY <1>2, <1>3
<1>5. edit_move_to_prev_col(f, line) = MoveTo(f, at)
  BY DEF edit_move_to_prev_col
<1> HIDE DEF a, b
<1>6. at \in Int
  BY <1>4, MinOfTwo
<1> HIDE DEF at
<1>7. Follows(e, MoveTo(f, at))
  BY <1>6, MoveFollows
<1>8. QED BY <1>5, <1>7

\* Up and down some lines.
LEMMA LinesFollow ==
    ASSUME NEW e, Sound(e), NEW n \in Nat, NEW scroll \in BOOLEAN
    PROVE  Follows(e, edit_move_up(e, n, scroll)) /\ Follows(e, edit_move_down(e, n, scroll))
<1>1. Formed(e) /\ Right(e) /\ Follows(e, e)
  BY FollowsSelf DEF Sound
<1>2. /\ e.curs_line \in Nat /\ e.total_lines \in Nat
      /\ e.total_lines - e.curs_line \in Nat
  <2>1. e.curs_line \in 0..e.total_lines /\ e.curs_line \in Nat /\ e.total_lines \in Nat
    BY <1>1, InLines
  <2>2. QED BY <2>1
<1>3. Cursor(e) \in Int
  BY <1>1, OffsetsIn
<1>4. ASSUME NEW i \in Nat, NEW line \in Int, NEW f,
             f \in {e, edit_scroll_upward(e, i), edit_scroll_downward(e, i)}
      PROVE  Follows(e, edit_move_to_prev_col(MoveTo(f, line), line))
  <2>1. Follows(e, f)
    BY <1>1, <1>4, ScrollFollows
  <2>2. Follows(e, MoveTo(f, line))
    BY <2>1, MoveFollows
  <2>3. QED BY <2>2, ColumnFollows
<1>5. Follows(e, edit_move_up(e, n, scroll))
  <2> DEFINE c == e.curs_line
             i == Min({n, c})
             line == edit_move_backward(e, Cursor(e), i)
             f == IF scroll THEN edit_scroll_upward(e, i) ELSE e
  <2>1. i \in Nat
    BY <1>2, MinOfTwo
  <2>2. edit_move_up(e, n, scroll) =
            IF i = 0 THEN e ELSE edit_move_to_prev_col(MoveTo(f, line), line)
    BY DEF edit_move_up
  <2> HIDE DEF i
  <2>3. line \in Int
    BY <1>1, <1>3, <2>1, WalkUp
  <2>4. f \in {e, edit_scroll_upward(e, i), edit_scroll_downward(e, i)}
    OBVIOUS
  <2> HIDE DEF f, line
  <2>5. Follows(e, edit_move_to_prev_col(MoveTo(f, line), line))
    BY <1>4, <2>1, <2>3, <2>4
  <2>6. QED BY <1>1, <2>2, <2>5
<1>6. Follows(e, edit_move_down(e, n, scroll))
  <2> DEFINE c == e.total_lines - e.curs_line
             i == Min({n, c})
             bol == edit_bol(e, Cursor(e))
             line == edit_move_forward(e, bol, i)
             f == IF scroll THEN edit_scroll_downward(e, i) ELSE e
  <2>1. i \in Nat
    <3>1. c \in Nat
      BY <1>2
    <3> HIDE DEF c
    <3>2. QED BY <3>1, MinOfTwo
  <2>2. edit_move_down(e, n, scroll) =
            IF i = 0 THEN e ELSE edit_move_to_prev_col(MoveTo(f, line), line)
    BY DEF edit_move_down
  <2>3. bol \in Int
    BY <1>1, <1>3, BolIs
  <2> HIDE DEF i, bol
  <2>4. line \in Int
    BY <1>1, <2>1, <2>3, WalkDown
  <2>5. f \in {e, edit_scroll_upward(e, i), edit_scroll_downward(e, i)}
    OBVIOUS
  <2> HIDE DEF f, line
  <2>6. Follows(e, edit_move_to_prev_col(MoveTo(f, line), line))
    BY <1>4, <2>1, <2>4, <2>5
  <2>7. QED BY <1>1, <2>2, <2>6
<1>7. QED BY <1>5, <1>6

\* What is only seen changes after e.
LEMMA ScreenAfter ==
    ASSUME NEW e, NEW g, Follows(e, g), NEW f, Formed(f), SameRing(g, f), SameText(g, f),
           Placed(e) /\ Placed(g) => Placed(f)
    PROVE  Follows(e, f)
<1>1. Sound(g) /\ (e.misled => g.misled)
  BY DEF Follows
<1>2. f.misled = g.misled /\ f.push_action_disabled = g.push_action_disabled
  BY DEF SameRing
<1>3. Right(f)
  BY <1>1 DEF Sound, Right, SameText, Text, Cursor, LastByte
<1>4. \A log : View(f, log) = View(g, log)
  BY DEF SameText, View
<1>5. /\ Shape(g) => Shape(f)
      /\ \A v, m : Fits(f, v, m) <=> Fits(g, v, m)
  BY SameFits
<1>6. \A log, n : Placed(e) /\ Good(g, log, n) => Good(f, log, n)
  BY <1>4, <1>5 DEF Good
<1>7. ASSUME NEW log \in Seq(AllSeen), NEW n \in Nat, Good(e, log, n), ~f.misled
      PROVE  Good(f, log, n)
  <2>1. Good(g, log, n)
    BY <1>2, <1>7 DEF Follows
  <2>2. QED BY <1>6, <1>7, <2>1 DEF Good
<1>8. QED BY <1>1, <1>2, <1>3, <1>7 DEF Follows, Sound

\* The ends of the text.
LEMMA EndsFollow ==
    ASSUME NEW e, Sound(e)
    PROVE  Follows(e, edit_move_to_top(e)) /\ Follows(e, edit_move_to_bottom(e))
<1>1. Formed(e) /\ Right(e) /\ Follows(e, e)
  BY FollowsSelf DEF Sound
<1>2. Follows(e, edit_move_to_top(e))
  <2>1. 0 \in Int
    OBVIOUS
  <2>2. Follows(e, MoveTo(e, 0))
    BY <1>1, <2>1, MoveFollows
  <2>3. Follows(e, edit_move_to_prev_col(MoveTo(e, 0), 0))
    BY <2>1, <2>2, ColumnFollows
  <2>4. QED BY <1>1, <2>3 DEF edit_move_to_top
<1>3. Follows(e, edit_move_to_bottom(e))
  <2> DEFINE at == LastByte(e)
             f == MoveTo(e, at)
             g == WithTop(f, at, e.total_lines)
  <2>1. at \in Int /\ at \in Nat
    BY <1>1, TextIs, OffsetsIn
  <2>2. e.total_lines \in Int /\ e.total_lines = Feeds(Text(e), at)
    BY <1>1 DEF Formed, Edits, Right
  <2>3. edit_move_to_bottom(e) =
            IF e.curs_line = e.total_lines THEN e ELSE edit_scroll_upward(g, Lines - 1)
    BY DEF edit_move_to_bottom, WithTop
  <2> HIDE DEF at
  <2>4. Follows(e, f) /\ Elsewhere(e, f)
    BY <1>1, <2>1, MoveFollows, MoveToIs
  <2> HIDE DEF f
  <2>5. Formed(f) /\ Text(f) = Text(e)
    BY <2>4 DEF Elsewhere
  <2>6. LastByte(f) = at
    BY <1>1, <2>5, TextIs DEF at
  <2>7. at \in 0..LastByte(f) /\ e.total_lines = Feeds(Text(f), at)
    BY <2>1, <2>2, <2>5, <2>6
  <2>8. Scrolled(f, g) /\ (Placed(f) => Placed(g))
    BY <2>1, <2>2, <2>5, <2>7, WithTopIs
  <2> HIDE DEF g
  <2>9. Follows(e, g) /\ Sound(g)
    BY <2>4, <2>8, ScreenAfter DEF Scrolled, Follows
  <2>10. PICK n \in Nat : n = Lines - 1
    BY Bounds
  <2>11. Follows(g, edit_scroll_upward(g, n))
    BY <2>9, ScrollFollows
  <2>12. Follows(e, edit_scroll_upward(g, n))
    BY <2>9, <2>11, FollowsChain
  <2>13. QED BY <1>1, <2>3, <2>10, <2>12
<1>4. QED BY <1>2, <1>3

\* The ends of the line.
LEMMA LineEndsFollow ==
    ASSUME NEW e, Sound(e)
    PROVE  Follows(e, edit_cursor_to_bol(e)) /\ Follows(e, edit_cursor_to_eol(e))
<1>1. Formed(e) /\ Follows(e, e)
  BY FollowsSelf DEF Sound
<1>2. Cursor(e) \in Int
  BY <1>1, OffsetsIn
<1>3. edit_bol(e, Cursor(e)) \in Int /\ edit_eol(e, Cursor(e)) \in Int
  BY <1>1, <1>2, BolIs, EolIs
<1>4. QED BY <1>1, <1>3, MoveFollows DEF edit_cursor_to_bol, edit_cursor_to_eol

\* One step to a side.
LEMMA StepFollows ==
    ASSUME NEW e, Sound(e)
    PROVE  Follows(e, edit_cursor_move(e, -1)) /\ Follows(e, edit_cursor_move(e, 1))
<1> DEFINE m == -1
           n == 1
<1>1. m \in Int /\ n \in Int /\ -m \in Int
  OBVIOUS
<1> HIDE DEF m, n
<1>2. "left" \in {"left", "right", "delete", "backspace"}
      /\ "right" \in {"left", "right", "delete", "backspace"}
  OBVIOUS
<1>3. \A k \in Int : Follows(e, Times("left", e, k)) /\ Follows(e, Times("right", e, k))
  BY <1>2, TimesFollows
<1>4. \A k \in Int : Follows(e, edit_cursor_move(e, k))
  <2>1. ASSUME NEW k \in Int PROVE Follows(e, edit_cursor_move(e, k))
    <3>1. -k \in Int
      OBVIOUS
    <3>2. CASE k < 0
      <4>1. edit_cursor_move(e, k) = Times("left", e, -k)
        BY <3>2 DEF edit_cursor_move
      <4>2. QED BY <1>3, <3>1, <4>1
    <3>3. CASE ~(k < 0)
      <4>1. edit_cursor_move(e, k) = Times("right", e, k)
        BY <3>3 DEF edit_cursor_move
      <4>2. QED BY <1>3, <4>1
    <3>4. QED BY <3>2, <3>3
  <2>2. QED BY <2>1
<1>5. Follows(e, edit_cursor_move(e, m)) /\ Follows(e, edit_cursor_move(e, n))
  BY <1>1, <1>4
<1>6. QED BY <1>5 DEF m, n

\* The line, or a part of it, is deleted.
LEMMA LineFollows ==
    ASSUME NEW e, Sound(e)
    PROVE  /\ Follows(e, edit_delete_to_line_end(e))
           /\ Follows(e, edit_delete_to_line_begin(e))
           /\ Follows(e, edit_delete_line(e))
<1>1. Formed(e)
  BY DEF Sound
<1>2. Cursor(e) \in Int /\ LastByte(e) \in Int
  BY <1>1, OffsetsIn
<1>3. edit_bol(e, Cursor(e)) \in Int /\ edit_eol(e, Cursor(e)) \in Int
  BY <1>1, <1>2, BolIs, EolIs
<1>4. "delete" \in {"left", "right", "delete", "backspace"}
      /\ "backspace" \in {"left", "right", "delete", "backspace"}
  OBVIOUS
<1>5. ASSUME NEW f, Sound(f), NEW k \in Int
      PROVE  Follows(f, Times("delete", f, k)) /\ Follows(f, Times("backspace", f, k))
  BY <1>4, <1>5, TimesFollows
<1>6. Follows(e, edit_delete_to_line_end(e))
  <2>1. edit_eol(e, Cursor(e)) - Cursor(e) \in Int
    BY <1>2, <1>3
  <2>2. QED BY <1>5, <2>1 DEF edit_delete_to_line_end
<1>7. Follows(e, edit_delete_to_line_begin(e))
  <2>1. edit_get_col(e) \in Int
    BY <1>2, <1>3 DEF edit_get_col
  <2>2. QED BY <1>5, <2>1 DEF edit_delete_to_line_begin
<1>8. Follows(e, edit_delete_line(e))
  <2> DEFINE p == edit_eol(e, Cursor(e)) + 1
             q == LastByte(e)
             n == Min({p, q}) - Cursor(e)
             tail == Times("delete", e, n)
             bol == edit_bol(tail, Cursor(tail))
             s == bol - 1
             z == 0
             k == Cursor(tail) - Max({s, z})
             all == Times("backspace", tail, k)
  <2>1. edit_delete_line(e) = IF bol = 0 THEN all ELSE edit_insert(all, NL)
    BY DEF edit_delete_line, DeleteBefore
  <2>2. p \in Int /\ q \in Int
    BY <1>2, <1>3
  <2> HIDE DEF p, q
  <2>3. Min({p, q}) \in Int
    BY <2>2, MinOfTwo
  <2>4. n \in Int
    BY <1>2, <2>3
  <2> HIDE DEF n
  <2>5. Follows(e, tail)
    BY <1>5, <2>4
  <2> HIDE DEF tail
  <2>6. Sound(tail) /\ Formed(tail)
    BY <2>5 DEF Follows, Sound
  <2>7. Cursor(tail) \in Int
    BY <2>6, OffsetsIn
  <2>8. bol \in Int
    BY <2>6, <2>7, BolIs
  <2> HIDE DEF bol
  <2>9. s \in Int /\ z \in Int
    BY <2>8
  <2> HIDE DEF s, z
  <2>10. Max({s, z}) \in Int
    BY <2>9, MaxOfTwo
  <2>11. k \in Int
    BY <2>7, <2>10
  <2> HIDE DEF k
  <2>12. Follows(tail, all)
    BY <1>5, <2>6, <2>11
  <2> HIDE DEF all
  <2>13. Follows(e, all) /\ Sound(all)
    BY <2>5, <2>12, FollowsChain DEF Follows
  <2>14. NL \in Chars
    BY Bounds
  <2>15. Follows(all, edit_insert(all, NL))
    BY <2>13, <2>14, InsertFollows
  <2>16. Follows(e, edit_insert(all, NL))
    BY <2>13, <2>15, FollowsChain
  <2>17. QED BY <2>1, <2>13, <2>16
<1>9. QED BY <1>6, <1>7, <1>8

-----------------------------------------------------------------------------
(* The marks and the blocks between two keys.                              *)

\* Marks that are set.
LEMMA MarksIs ==
    ASSUME NEW e, Formed(e), NEW m \in Int, NEW n \in Int
    PROVE  LET f == edit_set_markers(e, m, n)
           IN  /\ Formed(f) /\ SameRing(e, f) /\ SameText(e, f) /\ SameModes(e, f)
               /\ f.start_display = e.start_display /\ f.start_line = e.start_line
               /\ Placed(e) /\ m \in 0..LastByte(e) /\ n \in Following..LastByte(e) => Placed(f)
<1> DEFINE f == edit_set_markers(e, m, n)
<1>1. f \in Edits /\ f.mark1 = m /\ f.mark2 = n
  BY DEF edit_set_markers, Formed, Edits
<1>2. /\ SameRing(e, f) /\ SameText(e, f) /\ SameModes(e, f)
      /\ f.start_display = e.start_display /\ f.start_line = e.start_line
  BY DEF edit_set_markers, SameRing, SameText, SameModes, Formed, Edits
<1> HIDE DEF f
<1>3. Formed(f)
  BY <1>1, <1>2 DEF Formed, Ring, SameRing
<1>4. Placed(e) /\ m \in 0..LastByte(e) /\ n \in Following..LastByte(e) => Placed(f)
  BY <1>1, <1>2 DEF Placed, SameText, Text, LastByte
<1>5. QED BY <1>2, <1>3, <1>4 DEF f

\* A mark that is pushed.
LEMMA MarkFollows ==
    ASSUME NEW e, Sound(e), NEW c,
           c = Entry("mark1", e.mark1) \/ c = Entry("mark2", e.mark2)
    PROVE  LET f == edit_push_action(e, c)
           IN  Follows(e, f) /\ Pushed(e, f)
<1> DEFINE f == edit_push_action(e, c)
<1>1. /\ Formed(e) /\ Right(e) /\ ~e.push_action_disabled
      /\ e.mark1 \in Int /\ e.mark2 \in Int
  BY DEF Sound, Formed, Edits
<1>2. /\ c \in Entries /\ c.op \in {"mark1", "mark2"}
      /\ c.n = IF c.op = "mark1" THEN e.mark1 ELSE e.mark2
  BY <1>1 DEF Entry, Entries, Ops
<1>3. Kin(e, f)
  BY <1>1, <1>2, PushKin
<1>4. f = edit_push_action(e, c)
  OBVIOUS
<1> HIDE DEF f
<1>5. Formed(f) /\ Pushed(e, f) /\ SameText(e, f) /\ SameScreen(e, f)
  BY <1>3 DEF Kin, Pushed
<1>6. Right(f) /\ (Placed(e) => Placed(f)) /\ ~f.push_action_disabled
  BY <1>1, <1>5 DEF Right, Placed, SameText, SameScreen, Text, Cursor, LastByte, Pushed
<1>7. ASSUME NEW log \in Seq(AllSeen), NEW n \in Nat, Good(e, log, n), ~f.misled
      PROVE  Good(f, log, n)
  <2> DEFINE v == View(e, log)
  <2>1. PICK m \in Nat : n <= m /\ Fits(e, v, m)
    BY <1>7 DEF Good
  <2>2. v \in Views /\ v.before = e.before /\ v.after = e.after
    BY <1>1, ViewOf
  <2>3. View(f, log) = v
    BY <1>5 DEF SameText, View
  <2> HIDE DEF v
  <2>4. Length(v) = LastByte(e)
    BY <2>2 DEF Length, LastByte
  <2>5. e.mark1 \in 0..Length(v) /\ e.mark2 \in Following..Length(v)
    BY <1>7, <2>4 DEF Good, Placed
  <2>6. Undoes(c, v, v)
    BY <1>2, <2>5 DEF Undoes
  <2>7. Shape(f) /\ ((\E k \in Nat : m <= k /\ Fits(f, v, k)) \/ IsKey(c))
    BY <1>1, <1>2, <1>4, <1>7, <2>1, <2>2, <2>6, PushFits DEF Good
  <2>8. ~IsKey(c)
    BY <1>2 DEF IsKey
  <2>9. \E k \in Nat : n <= k /\ Fits(f, v, k)
    BY <2>1, <2>7, <2>8
  <2>10. QED BY <1>6, <1>7, <2>3, <2>7, <2>9 DEF Good
<1>8. QED BY <1>3, <1>5, <1>6, <1>7 DEF Follows, Sound, Kin, f

\* Both marks are pushed.
LEMMA MarkersFollow ==
    ASSUME NEW e, Sound(e)
    PROVE  LET f == edit_push_markers(e)
           IN  Follows(e, f) /\ Pushed(e, f)
<1> DEFINE g == edit_push_action(e, Entry("mark1", e.mark1))
           f == edit_push_markers(e)
<1>1. Follows(e, g) /\ Pushed(e, g)
  BY MarkFollows
<1>2. f = edit_push_action(g, Entry("mark2", e.mark2))
  BY DEF edit_push_markers
<1> HIDE DEF f, g
<1>3. Sound(g) /\ e.mark2 = g.mark2
  BY <1>1 DEF Follows, Pushed, SameScreen
<1>4. Follows(g, f) /\ Pushed(g, f)
  BY <1>2, <1>3, MarkFollows
<1>5. Follows(e, f)
  BY <1>1, <1>4, FollowsChain
<1>6. Pushed(e, f)
  BY <1>1, <1>4 DEF Pushed, SameText, SameScreen, SameModes
<1>7. QED BY <1>5, <1>6 DEF f

\* The command to mark.
LEMMA MarkCommandFollows ==
    ASSUME NEW e, Sound(e), NEW unmark \in BOOLEAN
    PROVE  Follows(e, edit_mark_cmd(e, unmark))
<1> DEFINE g == edit_push_markers(e)
<1>1. Follows(e, g) /\ edit_mark_cmd(e, unmark) = SetMark(g, unmark)
  BY MarkersFollow DEF edit_mark_cmd
<1> HIDE DEF g
<1>2. Formed(g) /\ g.mark1 \in Int
  BY <1>1 DEF Follows, Sound, Formed, Edits
<1>3. /\ Cursor(g) \in Int /\ Cursor(g) \in 0..LastByte(g) /\ LastByte(g) \in Nat
  BY <1>2, OffsetsIn, TextIs
<1>4. ASSUME NEW m \in Int, NEW n \in Int,
             Placed(g) => m \in 0..LastByte(g) /\ n \in Following..LastByte(g)
      PROVE  Follows(e, edit_set_markers(g, m, n))
  <2> DEFINE f == edit_set_markers(g, m, n)
  <2>1. Formed(f) /\ SameRing(g, f) /\ SameText(g, f) /\ (Placed(g) => Placed(f))
    BY <1>2, <1>4, MarksIs
  <2> HIDE DEF f
  <2>2. Follows(e, f)
    BY <1>1, <2>1, ScreenAfter
  <2>3. QED BY <2>2 DEF f
<1>5. Follows(e, edit_set_markers(g, 0, 0))
  <2>1. PICK z \in Int : z = 0
    OBVIOUS
  <2>2. z \in 0..LastByte(g) /\ z \in Following..LastByte(g)
    BY <1>3, <2>1 DEF Following
  <2>3. Follows(e, edit_set_markers(g, z, z))
    BY <1>4, <2>2
  <2>4. QED BY <2>1, <2>3
<1>6. Follows(e, edit_set_markers(g, Cursor(g), Following))
  <2>1. Following \in Int /\ Following \in Following..LastByte(g)
    BY <1>3 DEF Following
  <2>2. QED BY <1>3, <1>4, <2>1
<1>7. Follows(e, edit_set_markers(g, g.mark1, Cursor(g)))
  <2>1. Cursor(g) \in Following..LastByte(g)
    BY <1>3 DEF Following
  <2>2. Placed(g) => g.mark1 \in 0..LastByte(g)
    BY DEF Placed
  <2>3. QED BY <1>2, <1>3, <1>4, <2>1, <2>2
<1>8. QED BY <1>1, <1>5, <1>6, <1>7 DEF SetMark

\* The marked block lies in the text.
LEMMA MarkedIs ==
    ASSUME NEW e, Formed(e)
    PROVE  LET b == Marked(e)
           IN  /\ b.start \in Int /\ b.end \in Int /\ BlockLength(b) \in Nat
               /\ b.end = b.start + BlockLength(b)
               /\ Placed(e) => 0 <= b.start /\ b.end <= LastByte(e)
<1> DEFINE p == e.mark1
           q == IF e.mark2 = Following THEN Cursor(e) ELSE e.mark2
           b == Marked(e)
<1>1. p \in Int /\ q \in Int
  <2>1. Cursor(e) \in Int
    BY OffsetsIn
  <2>2. e.mark1 \in Int /\ e.mark2 \in Int
    BY DEF Formed, Edits
  <2>3. QED BY <2>1, <2>2
<1>2. Cursor(e) \in 0..LastByte(e) /\ LastByte(e) \in Nat
  BY TextIs
<1>3. Placed(e) => p \in 0..LastByte(e) /\ q \in 0..LastByte(e)
  BY <1>2 DEF Placed, Following
<1>4. b = IF e.mark1 = e.mark2 THEN [start |-> 0, end |-> 0]
          ELSE [start |-> Min({p, q}), end |-> Max({p, q})]
  BY DEF Marked
<1> HIDE DEF p, q, b
<1>5. Min({p, q}) = IF p <= q THEN p ELSE q
  BY <1>1, MinOfTwo
<1>6. Max({p, q}) = IF p <= q THEN q ELSE p
  BY <1>1, MaxOfTwo
<1>7. /\ b.start = IF e.mark1 = e.mark2 THEN 0 ELSE IF p <= q THEN p ELSE q
      /\ b.end = IF e.mark1 = e.mark2 THEN 0 ELSE IF p <= q THEN q ELSE p
  BY <1>4, <1>5, <1>6
<1>8. b.start \in Int /\ b.end \in Int /\ b.start <= b.end
  BY <1>1, <1>7
<1>9. BlockLength(b) \in Nat /\ b.end = b.start + BlockLength(b)
  BY <1>8 DEF BlockLength
<1>10. Placed(e) => 0 <= b.start /\ b.end <= LastByte(e)
  BY <1>1, <1>2, <1>3, <1>7
<1>11. QED BY <1>8, <1>9, <1>10 DEF b

\* What is read of it are bytes.
LEMMA BlockIs ==
    ASSUME NEW e, Formed(e), NEW b, b.start \in Int, BlockLength(b) \in Nat
    PROVE  LET block == edit_get_block(e, b)
           IN  /\ block \in Seq(Chars) /\ Len(block) = BlockLength(b)
               /\ \A i \in 1..BlockLength(b) : block[i] = Byte(e, b.start + i - 1)
<1> DEFINE n == BlockLength(b)
           block == edit_get_block(e, b)
<1>1. block = [i \in 1..n |-> Byte(e, b.start + i - 1)]
  BY DEF edit_get_block
<1>2. ASSUME NEW i \in Int PROVE Byte(e, i) \in Chars
  <2>1. Text(e) \in Seq(Chars) /\ Len(Text(e)) = LastByte(e) /\ LastByte(e) \in Nat
    BY TextIs
  <2>2. i \in 0..LastByte(e) - 1 => i + 1 \in 1..Len(Text(e))
    BY <2>1
  <2>3. i \in 0..LastByte(e) - 1 => Text(e)[i + 1] \in Chars
    BY <2>1, <2>2, ElementOfSeq
  <2>4. QED BY <2>3, ByteIs, Bounds
<1> HIDE DEF block, n
<1>3. n \in Nat
  BY DEF n
<1>4. \A i \in 1..n : b.start + i - 1 \in Int
  OBVIOUS
<1>5. block \in [1..n -> Chars]
  BY <1>1, <1>2, <1>4
<1>6. block \in Seq(Chars) /\ DOMAIN block = 1..n
  BY <1>3, <1>5, SeqDef
<1>7. Len(block) = n
  BY <1>3, <1>6, LenProperties
<1>8. \A i \in 1..n : block[i] = Byte(e, b.start + i - 1)
  BY <1>1
<1>9. QED BY <1>6, <1>7, <1>8 DEF block, n

\* The screen follows the cursor after e.
LEMMA ShownAfter ==
    ASSUME NEW e, NEW f, Follows(e, f)
    PROVE  /\ Follows(e, edit_scroll_screen_over_cursor(f))
           /\ SameText(f, edit_scroll_screen_over_cursor(f))
<1>1. Sound(f) /\ Formed(f) /\ Right(f)
  BY DEF Follows, Sound
<1>2. Follows(e, edit_scroll_screen_over_cursor(f))
  BY <1>1, OverCursorFollows, FollowsChain
<1>3. Scrolled(f, edit_scroll_screen_over_cursor(f))
  BY <1>1, OverCursorIs
<1>4. QED BY <1>2, <1>3 DEF Scrolled

\* A block goes in after e.
LEMMA BlockAfter ==
    ASSUME NEW e, NEW f, Follows(e, f), NEW block \in Seq(Chars)
    PROVE  LET g == InsertBlock(f, block)
           IN  /\ Follows(e, g) /\ g.before = f.before /\ g.after = block \o f.after
               /\ Cursor(g) \in Nat /\ LastByte(g) = LastByte(f) + Len(block)
               /\ Cursor(g) + Len(block) <= LastByte(g)
<1> DEFINE g == InsertBlock(f, block)
<1>1. Sound(f) /\ Formed(f)
  BY DEF Follows, Sound
<1>2. Formed(g) /\ g.before = f.before /\ g.after = block \o f.after /\ Follows(f, g)
  BY <1>1, InsertBlockIs
<1> HIDE DEF g
<1>3. Follows(e, g)
  BY <1>2, FollowsChain
<1>4. f.after \in Seq(Chars) /\ Len(f.after) \in Nat /\ Len(f.before) \in Nat
  BY <1>1, TextIs
<1>5. Len(g.after) = Len(block) + Len(f.after) /\ Len(block) \in Nat
  BY <1>2, <1>4, ConcatProperties
<1>6. PICK p, q, r \in Nat : p = Len(block) /\ q = Len(f.after) /\ r = Len(f.before)
  BY <1>4, <1>5
<1>7. Cursor(g) = r /\ LastByte(g) = r + (p + q) /\ LastByte(f) = r + q
  BY <1>2, <1>5, <1>6 DEF Cursor, LastByte
<1>8. Cursor(g) \in Nat /\ LastByte(g) = LastByte(f) + p /\ Cursor(g) + p <= LastByte(g)
  BY <1>7
<1>9. QED BY <1>2, <1>3, <1>6, <1>8 DEF g

-----------------------------------------------------------------------------
(* The block commands between two keys.                                    *)

\* A block is copied.
LEMMA CopyFollows ==
    ASSUME NEW e, Sound(e)
    PROVE  Follows(e, edit_block_copy_cmd(e))
<1> DEFINE b == Marked(e)
           block == edit_get_block(e, b)
           pushed == edit_push_markers(e)
           filled == InsertBlock(pushed, block)
           copied == edit_scroll_screen_over_cursor(filled)
           n == BlockLength(b)
           f == edit_set_markers(copied, b.start, b.end + n)
<1>1. edit_block_copy_cmd(e) =
          IF ~IsMarked(e) THEN e
          ELSE IF b.start < Cursor(e) /\ Cursor(e) < b.end THEN f ELSE copied
  BY DEF edit_block_copy_cmd
<1>2. Formed(e) /\ Follows(e, e)
  BY FollowsSelf DEF Sound
<1>3. /\ b.start \in Int /\ b.end \in Int /\ n \in Nat /\ b.end = b.start + n
      /\ Placed(e) => 0 <= b.start /\ b.end <= LastByte(e)
  BY <1>2, MarkedIs
<1> HIDE DEF b
<1>4. block \in Seq(Chars) /\ Len(block) = n
  BY <1>2, <1>3, BlockIs
<1> HIDE DEF block, n
<1>5. Follows(e, pushed) /\ SameText(e, pushed)
  BY MarkersFollow DEF Pushed
<1> HIDE DEF pushed
<1>6. Follows(e, filled) /\ LastByte(filled) = LastByte(pushed) + n
  BY <1>4, <1>5, BlockAfter
<1> HIDE DEF filled
<1>7. Follows(e, copied) /\ SameText(filled, copied)
  BY <1>6, ShownAfter
<1> HIDE DEF copied
<1>8. Formed(copied)
  BY <1>7 DEF Follows, Sound
<1>9. LastByte(copied) = LastByte(e) + n /\ LastByte(e) \in Int
  BY <1>2, <1>5, <1>6, <1>7, OffsetsIn DEF SameText, LastByte
<1>10. /\ b.end + n \in Int
       /\ Placed(e) => b.start \in 0..LastByte(copied) /\ b.end + n \in Following..LastByte(copied)
  BY <1>3, <1>9 DEF Following
<1>11. /\ Formed(f) /\ SameRing(copied, f) /\ SameText(copied, f)
       /\ Placed(copied) /\ Placed(e) => Placed(f)
  BY <1>3, <1>8, <1>10, MarksIs
<1> HIDE DEF f
<1>12. Follows(e, f)
  BY <1>7, <1>11, ScreenAfter
<1>13. QED BY <1>1, <1>2, <1>7, <1>12

\* A block is moved.
LEMMA BlockMoveFollows ==
    ASSUME NEW e, Sound(e), NEW agrees \in BOOLEAN
    PROVE  Follows(e, edit_block_move_cmd(e, agrees))
<1> DEFINE b == Marked(e)
           at == Cursor(e)
           n == BlockLength(b)
           block == edit_get_block(e, b)
           pushed == edit_push_markers(e)
           start == MoveTo(pushed, b.start)
           shown == edit_scroll_screen_over_cursor(start)
           cut == Times("delete", shown, n)
           seen == edit_scroll_screen_over_cursor(cut)
           to == AfterCut(at, b)
           there == MoveTo(seen, to)
           ready == edit_scroll_screen_over_cursor(there)
           moved == InsertBlock(ready, block)
           f == edit_set_markers(moved, Cursor(moved), Cursor(moved) + n)
           g == edit_scroll_screen_over_cursor(f)
<1>1. edit_block_move_cmd(e, agrees) =
          IF ~IsMarked(e) \/ at \in b.start..b.end \/ Refused(b, agrees) THEN e ELSE g
  BY DEF edit_block_move_cmd, MarkInserted
<1>2. Formed(e) /\ Follows(e, e)
  BY FollowsSelf DEF Sound
<1>3. b.start \in Int /\ n \in Nat /\ n \in Int /\ at \in Int
  BY <1>2, MarkedIs, OffsetsIn
<1>4. to \in Int
  BY <1>3 DEF AfterCut
<1> HIDE DEF b, to, at
<1>5. block \in Seq(Chars) /\ Len(block) = n
  BY <1>2, <1>3, BlockIs
<1> HIDE DEF block, n
<1>6. Follows(e, pushed)
  BY MarkersFollow
<1> HIDE DEF pushed
<1>7. Follows(e, start)
  BY <1>3, <1>6, MoveFollows
<1> HIDE DEF start
<1>8. Follows(e, shown) /\ Sound(shown)
  BY <1>7, ShownAfter DEF Follows
<1> HIDE DEF shown
<1>9. Follows(e, cut)
  <2>1. "delete" \in {"left", "right", "delete", "backspace"}
    OBVIOUS
  <2>2. Follows(shown, cut)
    BY <1>3, <1>8, <2>1, TimesFollows
  <2>3. QED BY <1>8, <2>2, FollowsChain
<1> HIDE DEF cut
<1>10. Follows(e, seen)
  BY <1>9, ShownAfter
<1> HIDE DEF seen
<1>11. Follows(e, there)
  BY <1>4, <1>10, MoveFollows
<1> HIDE DEF there
<1>12. Follows(e, ready)
  BY <1>11, ShownAfter
<1> HIDE DEF ready
<1>13. /\ Follows(e, moved) /\ Cursor(moved) \in Nat
       /\ Cursor(moved) + n <= LastByte(moved)
  BY <1>5, <1>12, BlockAfter
<1> HIDE DEF moved
<1>14. Formed(moved)
  BY <1>13 DEF Follows, Sound
<1>15. /\ Cursor(moved) \in Int /\ Cursor(moved) + n \in Int
       /\ Cursor(moved) \in 0..LastByte(moved)
       /\ Cursor(moved) + n \in Following..LastByte(moved)
  <2>1. PICK c \in Nat : c = Cursor(moved)
    BY <1>13
  <2>2. LastByte(moved) \in Int /\ c + n <= LastByte(moved)
    BY <1>13, <1>14, <2>1, OffsetsIn
  <2>3. /\ c \in Int /\ c + n \in Int /\ c \in 0..LastByte(moved)
        /\ c + n \in Following..LastByte(moved)
    BY <1>3, <2>2 DEF Following
  <2>4. QED BY <2>1, <2>3
<1>16. Formed(f) /\ SameRing(moved, f) /\ SameText(moved, f) /\ (Placed(moved) => Placed(f))
  BY <1>14, <1>15, MarksIs
<1> HIDE DEF f
<1>17. Follows(e, f)
  BY <1>13, <1>16, ScreenAfter
<1>18. Follows(e, g)
  BY <1>17, ShownAfter
<1> HIDE DEF g
<1>19. QED BY <1>1, <1>2, <1>18

\* A block is deleted.
LEMMA BlockDeleteFollows ==
    ASSUME NEW e, Sound(e), NEW agrees \in BOOLEAN
    PROVE  Follows(e, edit_block_delete_cmd(e, agrees))
<1> DEFINE b == Marked(e)
           n == BlockLength(b)
           pushed == edit_push_markers(e)
           start == MoveTo(pushed, b.start)
           there == edit_scroll_screen_over_cursor(start)
           cut == Times("delete", there, n)
           f == edit_set_markers(cut, 0, 0)
<1>1. edit_block_delete_cmd(e, agrees) =
          IF ~IsMarked(e) THEN edit_delete_line(e) ELSE IF Refused(b, agrees) THEN e ELSE f
  BY DEF edit_block_delete_cmd, edit_block_delete
<1>2. Formed(e) /\ Follows(e, e)
  BY FollowsSelf DEF Sound
<1>3. b.start \in Int /\ n \in Int
  BY <1>2, MarkedIs
<1> HIDE DEF b, n
<1>4. Follows(e, pushed)
  BY MarkersFollow
<1> HIDE DEF pushed
<1>5. Follows(e, start)
  BY <1>3, <1>4, MoveFollows
<1> HIDE DEF start
<1>6. Follows(e, there) /\ Sound(there)
  BY <1>5, ShownAfter DEF Follows
<1> HIDE DEF there
<1>7. Follows(e, cut)
  <2>1. "delete" \in {"left", "right", "delete", "backspace"}
    OBVIOUS
  <2>2. Follows(there, cut)
    BY <1>3, <1>6, <2>1, TimesFollows
  <2>3. QED BY <1>6, <2>2, FollowsChain
<1> HIDE DEF cut
<1>8. Formed(cut) /\ LastByte(cut) \in Nat
  BY <1>7, TextIs DEF Follows, Sound
<1>9. Formed(f) /\ SameRing(cut, f) /\ SameText(cut, f) /\ (Placed(cut) => Placed(f))
  <2>1. PICK z \in Int : z = 0
    OBVIOUS
  <2>2. z \in 0..LastByte(cut) /\ z \in Following..LastByte(cut)
    BY <1>8, <2>1 DEF Following
  <2> DEFINE h == edit_set_markers(cut, z, z)
  <2>3. Formed(h) /\ SameRing(cut, h) /\ SameText(cut, h) /\ (Placed(cut) => Placed(h))
    BY <1>8, <2>2, MarksIs
  <2>4. QED BY <2>1, <2>3
<1> HIDE DEF f
<1>10. Follows(e, f)
  BY <1>7, <1>9, ScreenAfter
<1>11. Follows(e, edit_delete_line(e))
  BY LineFollows
<1>12. QED BY <1>1, <1>2, <1>10, <1>11

-----------------------------------------------------------------------------
(* The command of a key.                                                   *)

\* The modes are changed after e.
LEMMA ModeAfter ==
    ASSUME NEW e, NEW g, Follows(e, g), NEW h \in BOOLEAN, NEW o \in BOOLEAN, NEW p \in Int
    PROVE  Follows(e, [g EXCEPT !.highlight = h, !.overwrite = o, !.prev_col = p])
<1> DEFINE f == [g EXCEPT !.highlight = h, !.overwrite = o, !.prev_col = p]
<1>1. Formed(g)
  BY DEF Follows, Sound
<1>2. f \in Edits
  BY <1>1 DEF Formed, Edits
<1>3. SameRing(g, f) /\ SameText(g, f) /\ SameScreen(g, f)
  BY <1>1 DEF Formed, Edits, SameRing, SameText, SameScreen
<1> HIDE DEF f
<1>4. Formed(f) /\ (Placed(g) => Placed(f))
  BY <1>1, <1>2, <1>3 DEF Formed, Ring, SameRing, Placed, SameText, SameScreen, Text, LastByte
<1>5. Follows(e, f)
  BY <1>3, <1>4, ScreenAfter
<1>6. QED BY <1>5 DEF f

\* One mode is changed after e.
LEMMA OneModeAfter ==
    ASSUME NEW e, NEW g, Follows(e, g)
    PROVE  /\ \A h \in BOOLEAN : Follows(e, [g EXCEPT !.highlight = h])
           /\ Follows(e, [g EXCEPT !.overwrite = ~@])
           /\ Follows(e, KeepColumn(g))
<1>1. /\ Formed(g) /\ g \in Edits /\ g.highlight \in BOOLEAN /\ g.overwrite \in BOOLEAN
      /\ g.prev_col \in Int
  BY DEF Follows, Sound, Formed, Edits
<1>2. Cursor(g) \in Int /\ edit_bol(g, Cursor(g)) \in Int
  BY <1>1, OffsetsIn, BolIs
<1>3. edit_get_col(g) \in Int
  BY <1>2 DEF edit_get_col
<1>4. ASSUME NEW h \in BOOLEAN PROVE Follows(e, [g EXCEPT !.highlight = h])
  <2> DEFINE o == g.overwrite
             p == g.prev_col
  <2>1. [g EXCEPT !.highlight = h] = [g EXCEPT !.highlight = h, !.overwrite = o, !.prev_col = p]
    BY <1>1 DEF Edits
  <2>2. o \in BOOLEAN /\ p \in Int
    BY <1>1
  <2> HIDE DEF o, p
  <2>3. Follows(e, [g EXCEPT !.highlight = h, !.overwrite = o, !.prev_col = p])
    BY <2>2, ModeAfter
  <2>4. QED BY <2>1, <2>3
<1>5. Follows(e, [g EXCEPT !.overwrite = ~@])
  <2> DEFINE h == g.highlight
             o == ~g.overwrite
             p == g.prev_col
  <2>1. [g EXCEPT !.overwrite = ~@] = [g EXCEPT !.highlight = h, !.overwrite = o, !.prev_col = p]
    BY <1>1 DEF Edits
  <2>2. h \in BOOLEAN /\ o \in BOOLEAN /\ p \in Int
    BY <1>1
  <2> HIDE DEF h, o, p
  <2>3. Follows(e, [g EXCEPT !.highlight = h, !.overwrite = o, !.prev_col = p])
    BY <2>2, ModeAfter
  <2>4. QED BY <2>1, <2>3
<1>6. Follows(e, KeepColumn(g))
  <2> DEFINE h == g.highlight
             o == g.overwrite
             p == edit_get_col(g)
  <2>1. KeepColumn(g) = [g EXCEPT !.highlight = h, !.overwrite = o, !.prev_col = p]
    BY <1>1 DEF Edits, KeepColumn
  <2>2. h \in BOOLEAN /\ o \in BOOLEAN /\ p \in Int
    BY <1>1, <1>3
  <2> HIDE DEF h, o, p
  <2>3. Follows(e, [g EXCEPT !.highlight = h, !.overwrite = o, !.prev_col = p])
    BY <2>2, ModeAfter
  <2>4. QED BY <2>1, <2>3
<1>7. QED BY <1>4, <1>5, <1>6

\* Shift and an arrow mark, or the marking ends.
LEMMA HighlightingFollows ==
    ASSUME NEW e, Sound(e), NEW command
    PROVE  Follows(e, Highlighting(e, command))
<1>1. Follows(e, e)
  BY FollowsSelf
<1> DEFINE t == TRUE
           u == FALSE
<1>2. t \in BOOLEAN /\ u \in BOOLEAN
  OBVIOUS
<1> HIDE DEF t, u
<1> DEFINE unmarked == edit_mark_cmd(e, t)
           fresh == edit_mark_cmd(unmarked, u)
           ended == edit_mark_cmd(e, u)
<1>3. Follows(e, unmarked) /\ Follows(e, ended) /\ Sound(unmarked)
  BY <1>2, MarkCommandFollows DEF Follows
<1> HIDE DEF unmarked, ended
<1>4. Follows(unmarked, fresh)
  BY <1>2, <1>3, MarkCommandFollows
<1>5. Follows(e, fresh)
  BY <1>3, <1>4, FollowsChain
<1> HIDE DEF fresh
<1>6. /\ \A g \in {e, fresh, ended} : \A h \in BOOLEAN : Follows(e, [g EXCEPT !.highlight = h])
  BY <1>1, <1>3, <1>5, OneModeAfter
<1>7. \E g \in {e, fresh, ended} : \E h \in {t, u} :
          Highlighting(e, command) = [g EXCEPT !.highlight = h]
  BY DEF Highlighting, fresh, unmarked, ended, t, u
<1>8. QED BY <1>2, <1>6, <1>7

\* A byte is typed.
LEMMA TypedFollows ==
    ASSUME NEW e, NEW f, Follows(e, f), NEW c \in Chars
    PROVE  Follows(e, Typed(f, c))
<1> DEFINE g == IF f.overwrite /\ Byte(f, Cursor(f)) # NL THEN edit_delete(f) ELSE f
<1>1. Follows(f, g)
  BY RemoveFollows, FollowsSelf DEF Follows
<1>2. Typed(f, c) = edit_insert(g, c)
  BY DEF Typed
<1> HIDE DEF g
<1>3. Follows(e, g) /\ Sound(g)
  BY <1>1, FollowsChain DEF Follows
<1>4. Follows(e, edit_insert(g, c))
  BY <1>3, InsertFollows, FollowsChain
<1>5. QED BY <1>2, <1>4

\* Any command.
LEMMA CommandFollows ==
    ASSUME NEW e, Sound(e), NEW command \in EditCommands, NEW agrees \in BOOLEAN
    PROVE  Follows(e, Command(e, command, agrees))
<1> DEFINE one == 1
           page == Lines - 1
           t == TRUE
           u == FALSE
<1>1. one \in Nat /\ page \in Nat /\ t \in BOOLEAN /\ u \in BOOLEAN
  BY Bounds
<1> HIDE DEF one, page, t, u
<1>2. Follows(e, edit_backspace(e)) /\ Follows(e, edit_delete(e))
  BY RemoveFollows
<1>3. /\ Follows(e, edit_delete_to_line_end(e)) /\ Follows(e, edit_delete_to_line_begin(e))
      /\ Follows(e, edit_delete_line(e))
  BY LineFollows
<1>4. Follows(e, edit_cursor_move(e, -1)) /\ Follows(e, edit_cursor_move(e, 1))
  BY StepFollows
<1>5. Follows(e, edit_move_up(e, one, u)) /\ Follows(e, edit_move_down(e, one, u))
  BY <1>1, LinesFollow
<1>6. Follows(e, edit_move_up(e, page, t)) /\ Follows(e, edit_move_down(e, page, t))
  BY <1>1, LinesFollow
<1>7. Follows(e, edit_cursor_to_bol(e)) /\ Follows(e, edit_cursor_to_eol(e))
  BY LineEndsFollow
<1>8. Follows(e, edit_move_to_top(e)) /\ Follows(e, edit_move_to_bottom(e))
  BY EndsFollow
<1>9. Follows(e, [e EXCEPT !.overwrite = ~@])
  BY FollowsSelf, OneModeAfter
<1>10. Follows(e, edit_mark_cmd(e, t)) /\ Follows(e, edit_mark_cmd(e, u))
  BY <1>1, MarkCommandFollows
<1>11. /\ Follows(e, edit_block_copy_cmd(e)) /\ Follows(e, edit_block_move_cmd(e, agrees))
       /\ Follows(e, edit_block_delete_cmd(e, agrees))
  BY CopyFollows, BlockMoveFollows, BlockDeleteFollows
<1> DEFINE f == Command(e, command, agrees)
<1>12. f \in {edit_backspace(e), edit_delete(e), edit_delete_to_line_end(e),
              edit_delete_to_line_begin(e), edit_delete_line(e), edit_cursor_move(e, -1),
              edit_cursor_move(e, 1), edit_move_up(e, one, u), edit_move_down(e, one, u),
              edit_move_up(e, page, t), edit_move_down(e, page, t), edit_cursor_to_bol(e),
              edit_cursor_to_eol(e), edit_move_to_top(e), edit_move_to_bottom(e),
              [e EXCEPT !.overwrite = ~@], edit_mark_cmd(e, t), edit_mark_cmd(e, u),
              edit_block_copy_cmd(e), edit_block_move_cmd(e, agrees),
              edit_block_delete_cmd(e, agrees)}
  BY DEF Command, EditCommands, one, page, t, u
<1> HIDE DEF f
<1>13. Follows(e, f)
  BY <1>2, <1>3, <1>4, <1>5, <1>6, <1>7, <1>8, <1>9, <1>10, <1>11, <1>12
<1>14. QED BY <1>13 DEF f

-----------------------------------------------------------------------------
(* A key.                                                                  *)

\* What follows on it.
LEMMA RecordedFollows ==
    ASSUME NEW e, NEW f, NEW g, Recorded(e, f), Follows(f, g)
    PROVE  Recorded(e, g)
<1>1. Sound(g) /\ (e.misled => g.misled)
  BY DEF Recorded, Follows
<1>2. ASSUME NEW log \in Seq(AllSeen), NEW n \in Nat, Good(e, log, n), ~g.misled
      PROVE  \/ Seen(e) \in AllSeen /\ Good(g, Append(log, Seen(e)), n)
             \/ log # <<>> /\ Last(log) = Seen(e) /\ Good(g, log, n)
  <2>1. ~f.misled
    BY <1>2 DEF Follows
  <2>2. CASE Seen(e) \in AllSeen /\ Good(f, Append(log, Seen(e)), n)
    <3> DEFINE more == Append(log, Seen(e))
    <3>1. more \in Seq(AllSeen)
      BY <2>2, AppendProperties
    <3>2. Good(f, more, n)
      BY <2>2
    <3> HIDE DEF more
    <3>3. Good(g, more, n)
      BY <1>2, <3>1, <3>2 DEF Follows
    <3>4. QED BY <2>2, <3>3 DEF more
  <2>3. CASE log # <<>> /\ Last(log) = Seen(e) /\ Good(f, log, n)
    <3>1. Good(g, log, n)
      BY <1>2, <2>3 DEF Follows
    <3>2. QED BY <2>3, <3>1
  <2>4. QED BY <1>2, <2>1, <2>2, <2>3 DEF Recorded
<1>3. QED BY <1>1, <1>2 DEF Recorded

\* What is seen.
LEMMA SeenIs ==
    ASSUME NEW e, Formed(e), Placed(e), NEW log \in Seq(AllSeen)
    PROVE  /\ Seen(e) \in AllSeen
           /\ Shot(View(e, log), e.start_display) = Seen(e)
<1>1. Text(e) \in Seq(Chars) /\ Cursor(e) \in Nat /\ LastByte(e) \in Nat
  BY TextIs
<1>2. e.start_display \in Nat
  BY <1>1 DEF Placed
<1>3. QED BY <1>1, <1>2 DEF Seen, AllSeen, Shot, View, Text, Cursor

\* The entry of the key.
LEMMA KeyRecorded ==
    ASSUME NEW e, Sound(e), OnScreen(e)
    PROVE  LET f == edit_push_action(e, Entry("key", e.start_display))
           IN  Recorded(e, f) /\ Pushed(e, f)
<1> DEFINE c == Entry("key", e.start_display)
           f == edit_push_action(e, c)
<1>1. /\ Formed(e) /\ Right(e) /\ ~e.push_action_disabled /\ e.start_display \in Int
  BY DEF Sound, Formed, Edits
<1>2. c \in Entries /\ c.op = "key" /\ c.n = e.start_display
  BY <1>1 DEF Entry, Entries, Ops
<1>3. Kin(e, f)
  BY <1>1, <1>2, PushKin
<1>4. f = edit_push_action(e, c)
  OBVIOUS
<1> HIDE DEF f, c
<1>5. Formed(f) /\ Pushed(e, f) /\ SameText(e, f) /\ SameScreen(e, f)
  BY <1>3 DEF Kin, Pushed
<1>6. Right(f) /\ (Placed(e) => Placed(f)) /\ ~f.push_action_disabled
  BY <1>1, <1>5 DEF Right, Placed, SameText, SameScreen, Text, Cursor, LastByte, Pushed
<1>7. ASSUME NEW log \in Seq(AllSeen), NEW n \in Nat, Good(e, log, n), ~f.misled
      PROVE  \/ Seen(e) \in AllSeen /\ Good(f, Append(log, Seen(e)), n)
             \/ log # <<>> /\ Last(log) = Seen(e) /\ Good(f, log, n)
  <2> DEFINE v == View(e, log)
             s == Seen(e)
             more == Append(log, s)
             x == View(e, more)
  <2>1. PICK m \in Nat : n <= m /\ Fits(e, v, m)
    BY <1>7 DEF Good
  <2>2. Placed(e) /\ Shape(e)
    BY <1>7 DEF Good
  <2>3. s \in AllSeen /\ Shot(v, e.start_display) = s
    BY <1>1, <2>2, SeenIs
  <2> HIDE DEF s
  <2>4. more \in Seq(AllSeen) /\ more # <<>> /\ Last(more) = s
    BY <2>3 DEF Last
  <2> HIDE DEF more
  <2>5. v \in Views /\ v.before = e.before /\ v.after = e.after /\ v.past = log
    BY <1>1, ViewOf
  <2>6. x \in Views /\ x.before = e.before /\ x.after = e.after /\ x.past = more
    BY <1>1, <2>4, ViewOf
  <2>7. View(f, log) = v /\ View(f, more) = x
    BY <1>5 DEF SameText, View
  <2> HIDE DEF v, x
  <2>8. Visible(v, c.n)
    BY <1>1, <1>2, <2>2, <2>5
       DEF Visible, OnScreen, CursorRow, Right, Placed, Text, Cursor
  <2>9. c.n \in 0..Length(v)
    BY <1>2, <2>2, <2>5 DEF Length, LastByte, Placed
  <2>10. x.past = Append(v.past, Shot(v, c.n))
    BY <1>2, <2>3, <2>5, <2>6 DEF more
  <2>11. Undoes(c, x, v)
    BY <1>2, <2>5, <2>6, <2>8, <2>9, <2>10 DEF Undoes
  <2>12. /\ Shape(f)
         /\ \/ \E k \in Nat : m <= k /\ Fits(f, x, k)
            \/ Fits(f, v, m) /\ \E w \in Views : Undoes(c, v, w)
    BY <1>1, <1>2, <1>4, <1>7, <2>1, <2>2, <2>5, <2>6, <2>11, PushFits
  <2>13. CASE \E k \in Nat : m <= k /\ Fits(f, x, k)
    <3>1. \E k \in Nat : n <= k /\ Fits(f, x, k)
      BY <2>1, <2>13
    <3>2. Good(f, more, n)
      BY <1>6, <2>2, <2>7, <2>12, <3>1 DEF Good
    <3>3. QED BY <2>3, <3>2 DEF more, s
  <2>14. CASE Fits(f, v, m) /\ \E w \in Views : Undoes(c, v, w)
    <3>1. PICK w \in Views : Undoes(c, v, w)
      BY <2>14
    <3>2. /\ w.before = v.before /\ w.after = v.after
          /\ v.past = Append(w.past, Shot(w, c.n))
      BY <1>2, <3>1 DEF Undoes, Moves, MoveOps
    <3>3. Shot(w, c.n) = s
      BY <1>2, <2>3, <3>2 DEF Shot
    <3>4. w.past \in Seq(AllSeen)
      BY ViewIs
    <3>5. log # <<>> /\ Last(log) = s
      BY <2>3, <2>5, <3>2, <3>3, <3>4 DEF Last
    <3>6. Good(f, log, n)
      BY <1>6, <2>1, <2>2, <2>7, <2>12, <2>14 DEF Good
    <3>7. QED BY <3>5, <3>6 DEF s
  <2>15. QED BY <2>12, <2>13, <2>14
<1>8. Recorded(e, f)
  BY <1>3, <1>5, <1>6, <1>7 DEF Recorded, Sound, Kin
<1>9. QED BY <1>5, <1>8 DEF f, c

\* The entries of a key that is pressed.
LEMMA PressRecorded ==
    ASSUME NEW e, Sound(e), OnScreen(e)
    PROVE  Recorded(e, edit_push_key_press(e))
<1> DEFINE f == edit_push_action(e, Entry("key", e.start_display))
           g == edit_push_action(f, Entry("mark1", e.mark1))
<1>1. Recorded(e, f) /\ Pushed(e, f)
  BY KeyRecorded
<1>2. edit_push_key_press(e) = IF e.mark2 = Following THEN g ELSE f
  BY DEF edit_push_key_press
<1> HIDE DEF f
<1>3. Sound(f) /\ e.mark1 = f.mark1
  BY <1>1 DEF Recorded, Pushed, SameScreen
<1>4. Follows(f, g)
  BY <1>3, MarkFollows
<1>5. Recorded(e, g)
  BY <1>1, <1>4, RecordedFollows
<1>6. QED BY <1>1, <1>2, <1>5

\* What is shown after any editor.
LEMMA ShownIs ==
    ASSUME NEW e, Sound(e)
    PROVE  LET f == edit_scroll_screen_over_cursor(e)
           IN  Sound(f) /\ OnScreen(f)
<1> DEFINE f == edit_scroll_screen_over_cursor(e)
<1>1. Follows(e, f)
  BY OverCursorFollows
<1>2. CursorRow(f) \in 0..Lines - 1
  BY OverCursorIs DEF Sound
<1>3. QED BY <1>1, <1>2 DEF Follows, OnScreen

\* A byte is typed on a key.
LEMMA TypeKeyRecorded ==
    ASSUME NEW e, Sound(e), OnScreen(e), NEW c \in Chars
    PROVE  Recorded(e, TypeKey(e, c)) /\ OnScreen(TypeKey(e, c))
<1> DEFINE p == edit_push_key_press(e)
           h == Highlighting(p, "Type")
           t == Typed(h, c)
           k == KeepColumn(t)
           f == edit_scroll_screen_over_cursor(k)
<1>1. Recorded(e, p) /\ Sound(p)
  BY PressRecorded DEF Recorded
<1> HIDE DEF p
<1>2. Follows(p, h)
  BY <1>1, HighlightingFollows
<1> HIDE DEF h
<1>3. Follows(p, t)
  BY <1>2, TypedFollows
<1> HIDE DEF t
<1>4. Follows(p, k) /\ Sound(k)
  BY <1>3, OneModeAfter DEF Follows
<1> HIDE DEF k
<1>5. Follows(p, f) /\ OnScreen(f)
  BY <1>4, ShownAfter, ShownIs
<1> HIDE DEF f
<1>6. Recorded(e, f)
  BY <1>1, <1>5, RecordedFollows
<1>7. f = TypeKey(e, c)
  BY DEF TypeKey, f, k, t, h, p
<1>8. QED BY <1>5, <1>6, <1>7

\* A command is given on a key.
LEMMA CommandKeyRecorded ==
    ASSUME NEW e, Sound(e), OnScreen(e), NEW command \in EditCommands, NEW agrees \in BOOLEAN
    PROVE  LET f == CommandKey(e, command, agrees)
           IN  Recorded(e, f) /\ OnScreen(f)
<1> DEFINE p == edit_push_key_press(e)
           h == Highlighting(p, command)
           d == Command(h, command, agrees)
           k == IF command \in Vertical THEN d ELSE KeepColumn(d)
           f == edit_scroll_screen_over_cursor(k)
<1>1. Recorded(e, p) /\ Sound(p)
  BY PressRecorded DEF Recorded
<1> HIDE DEF p
<1>2. Follows(p, h) /\ Sound(h)
  BY <1>1, HighlightingFollows DEF Follows
<1> HIDE DEF h
<1>3. Follows(h, d)
  BY <1>2, CommandFollows
<1> HIDE DEF d
<1>4. Follows(p, d)
  BY <1>2, <1>3, FollowsChain
<1>5. Follows(p, k) /\ Sound(k)
  BY <1>4, OneModeAfter DEF Follows
<1> HIDE DEF k
<1>6. Follows(p, f) /\ OnScreen(f)
  BY <1>5, ShownAfter, ShownIs
<1> HIDE DEF f
<1>7. Recorded(e, f)
  BY <1>1, <1>6, RecordedFollows
<1>8. f = CommandKey(e, command, agrees)
  BY DEF CommandKey, f, k, d, h, p
<1>9. QED BY <1>6, <1>7, <1>8

-----------------------------------------------------------------------------
(* How much the ring holds.                                                *)

\* Counts are integers.
LEMMA CountIn ==
    ASSUME NEW e, Formed(e)
    PROVE  /\ \A i \in InRing(e) : e.undo_stack[i] \in Entries
           /\ \A i \in InRing(e) : Count(e.undo_stack[i]) \in Int
<1>1. e.undo_stack \in [0..e.stack_size - 1 -> Entries]
  BY DEF Formed, Ring
<1>2. InRing(e) \subseteq 0..e.stack_size - 1
  BY DEF InRing
<1>3. \A i \in InRing(e) : e.undo_stack[i] \in Entries
  BY <1>1, <1>2
<1>4. \A c \in Entries : Count(c) \in Int
  BY DEF Count, Entries
<1>5. QED BY <1>3, <1>4

\* What the ring holds is finite.
LEMMA HeldFinite ==
    ASSUME NEW e, Formed(e)
    PROVE  /\ IsFiniteSet(Held(e)) /\ Cardinality(Held(e)) \in Nat
           /\ Held(e) = UNION {{i} \X (1..Count(e.undo_stack[i])) : i \in InRing(e)}
<1> DEFINE S == InRing(e)
           M == [i \in S |-> {i} \X (1..Count(e.undo_stack[i]))]
           T == {M[i] : i \in S}
<1>1. Held(e) = UNION T
  BY DEF Held, Count
<1>2. S \subseteq 0..e.stack_size - 1
  BY DEF InRing
<1>3. e.stack_size \in Nat /\ \A i \in S : e.undo_stack[i] \in Entries
  BY SlotIn, CountIn
<1>4. IsFiniteSet(0..e.stack_size - 1)
  BY <1>3, FS_Interval
<1>5. IsFiniteSet(S)
  BY <1>2, <1>4, FS_Subset
<1> HIDE DEF S
<1>6. \A i \in S : Count(e.undo_stack[i]) \in Int
  BY <1>3 DEF Count, Entries
<1>7. ASSUME NEW i \in S PROVE IsFiniteSet(M[i])
  <2> DEFINE n == Count(e.undo_stack[i])
  <2>1. n \in Int
    BY <1>6
  <2> HIDE DEF n
  <2>2. IsFiniteSet(1..n)
    BY <2>1, FS_Interval
  <2>3. IsFiniteSet({i})
    BY FS_Singleton
  <2>4. IsFiniteSet({i} \X (1..n))
    BY <2>2, <2>3, FS_Product
  <2>5. QED BY <2>4 DEF n
<1>8. M \in Surjection(S, T)
  BY DEF Surjection
<1>9. T = {M[i] : i \in S}
  OBVIOUS
<1>10. Held(e) = UNION {{i} \X (1..Count(e.undo_stack[i])) : i \in InRing(e)}
  BY <1>1 DEF S
<1> HIDE DEF M, T
<1>11. IsFiniteSet(T)
  BY <1>5, <1>8, FS_Surjection
<1>12. IsFiniteSet(UNION T)
  BY <1>7, <1>9, <1>11, FS_UNION
<1>13. QED BY <1>1, <1>10, <1>12, FS_CardinalityType

\* Less is held.
LEMMA HeldLess ==
    ASSUME NEW e, NEW f, Formed(e), Formed(f), InRing(f) \subseteq InRing(e),
           \A i \in InRing(f) : Count(f.undo_stack[i]) <= Count(e.undo_stack[i]),
           NEW j \in InRing(e), NEW n \in 1..Count(e.undo_stack[j]),
           j \in InRing(f) => n > Count(f.undo_stack[j])
    PROVE  Cardinality(Held(f)) < Cardinality(Held(e))
<1>1. /\ IsFiniteSet(Held(e)) /\ Cardinality(Held(e)) \in Nat
      /\ Held(e) = UNION {{i} \X (1..Count(e.undo_stack[i])) : i \in InRing(e)}
  BY HeldFinite
<1>2. /\ IsFiniteSet(Held(f)) /\ Cardinality(Held(f)) \in Nat
      /\ Held(f) = UNION {{i} \X (1..Count(f.undo_stack[i])) : i \in InRing(f)}
  BY HeldFinite
<1>3. \A i \in InRing(f) : Count(f.undo_stack[i]) \in Int /\ Count(e.undo_stack[i]) \in Int
  BY CountIn
<1>4. \A i \in InRing(f) : 1..Count(f.undo_stack[i]) \subseteq 1..Count(e.undo_stack[i])
  BY <1>3
<1>5. Held(f) \subseteq Held(e)
  BY <1>1, <1>2, <1>4
<1>6. <<j, n>> \in Held(e)
  BY <1>1
<1>7. j \in InRing(f) => ~(n \in 1..Count(f.undo_stack[j]))
  BY <1>3
<1>8. <<j, n>> \notin Held(f)
  BY <1>2, <1>7
<1> HIDE DEF Held
<1>9. Held(f) # Held(e) /\ Held(f) \in SUBSET Held(e)
  BY <1>5, <1>6, <1>8
<1>10. Cardinality(Held(f)) <= Cardinality(Held(e)) /\ Cardinality(Held(f)) # Cardinality(Held(e))
  BY <1>1, <1>9, FS_Subset
<1>11. QED BY <1>1, <1>2, <1>10

\* Places in the ring.
LEMMA InRingIs ==
    ASSUME NEW e, Formed(e)
    PROVE  /\ \A i \in Int : Slot(e, i - e.stack_bottom) \in Nat
           /\ \A j \in 0..Depth(e) - 1 : /\ At(e, j) \in InRing(e)
                                        /\ Slot(e, At(e, j) - e.stack_bottom) = j
<1> DEFINE s == e.stack_size
           b == e.stack_bottom
<1>1. s \in Nat /\ s >= 5 /\ b \in 0..s - 1
  BY SlotIn
<1>2. \A i \in Int : /\ Slot(e, i) \in 0..s - 1
                     /\ i \in 0..s - 1 => Slot(e, i) = i
                     /\ i \in s..2 * s - 1 => Slot(e, i) = i - s
                     /\ i \in -s..-1 => Slot(e, i) = i + s
  BY <1>1, Around DEF Slot
<1>3. Depth(e) \in 0..s - 1
  BY Places
<1>4. ASSUME NEW j \in 0..Depth(e) - 1
      PROVE  At(e, j) \in InRing(e) /\ Slot(e, At(e, j) - b) = j
  <2>1. j \in 0..s - 1
    BY <1>1, <1>3
  <2> DEFINE a == At(e, j)
  <2>2. a = IF b + j < s THEN b + j ELSE b + j - s
    BY <1>1, <1>2, <2>1 DEF At
  <2> HIDE DEF a, s, b
  <2>3. a \in 0..s - 1
    BY <1>1, <2>1, <2>2
  <2>4. Slot(e, a - b) = j
    BY <1>1, <1>2, <2>1, <2>2
  <2>5. Slot(e, a - b) < Depth(e)
    BY <1>3, <2>4
  <2>6. QED BY <2>3, <2>4, <2>5 DEF InRing, Depth, a, s, b
<1> HIDE DEF s
<1>5. \A i \in Int : Slot(e, i - b) \in Nat
  BY <1>1, <1>2
<1>6. QED BY <1>4, <1>5

\* A ring that is not empty holds something.
LEMMA HeldSome ==
    ASSUME NEW e, Formed(e), Depth(e) > 0, IsKey(Item(e, 0))
    PROVE  Cardinality(Held(e)) > 0
<1>1. Depth(e) \in Nat
  BY Places
<1>2. At(e, 0) \in InRing(e)
  BY <1>1, InRingIs
<1>3. Count(e.undo_stack[At(e, 0)]) = 1
  BY DEF IsKey, Item, Count
<1>4. /\ IsFiniteSet(Held(e)) /\ Cardinality(Held(e)) \in Nat
      /\ Held(e) = UNION {{i} \X (1..Count(e.undo_stack[i])) : i \in InRing(e)}
  BY HeldFinite
<1>5. <<At(e, 0), 1>> \in Held(e)
  BY <1>2, <1>3, <1>4
<1>6. Held(e) # {}
  BY <1>5
<1>7. QED BY <1>4, <1>6, FS_EmptySet

\* The slots of an entry that is popped.
LEMMA PopHolds ==
    ASSUME NEW e, Formed(e), Depth(e) > 0, NEW f, Formed(f),
           f.undo_stack = e.undo_stack, f.stack_size = e.stack_size,
           f.stack_bottom = e.stack_bottom,
           f.stack_pointer = Slot(e, e.stack_pointer - 1),
           Count(Top(e)) >= 1
    PROVE  Cardinality(Held(f)) < Cardinality(Held(e))
<1> DEFINE j == At(e, Depth(e) - 1)
<1>1. Depth(e) \in Nat /\ Depth(f) = Depth(e) - 1
  BY Places, PopItems
<1>2. Depth(e) - 1 \in 0..Depth(e) - 1
  BY <1>1
<1>3. j \in InRing(e) /\ Slot(e, j - e.stack_bottom) = Depth(e) - 1
  BY <1>2, InRingIs
<1>4. Slot(e, e.stack_pointer - 1) = j
  <2>1. Slot(e, e.stack_pointer - 1) =
            At(e, IF Depth(e) = 0 THEN e.stack_size - 1 ELSE Depth(e) - 1)
    BY Places
  <2>2. Depth(e) # 0
    BY <1>1
  <2>3. QED BY <2>1, <2>2
<1>5. e.undo_stack[j] = Top(e)
  BY <1>4 DEF Top
<1>6. \A i : Slot(f, i) = Slot(e, i)
  BY DEF Slot
<1>7. InRing(e) = {i \in 0..e.stack_size - 1 : Slot(e, i - e.stack_bottom) < Depth(e)}
  BY DEF InRing, Depth
<1>8. InRing(f) = {i \in 0..e.stack_size - 1 : Slot(e, i - e.stack_bottom) < Depth(e) - 1}
  BY <1>1, <1>6 DEF InRing, Depth
<1>9. InRing(f) \subseteq InRing(e)
  <2>1. \A i \in 0..e.stack_size - 1 : Slot(e, i - e.stack_bottom) \in Nat
    BY InRingIs
  <2>2. QED BY <1>1, <1>7, <1>8, <2>1
<1>10. j \notin InRing(f)
  BY <1>1, <1>3, <1>8
<1>11. \A i \in InRing(e) : Count(e.undo_stack[i]) \in Int
  BY CountIn
<1>12. \A i \in InRing(f) : Count(f.undo_stack[i]) <= Count(e.undo_stack[i])
  BY <1>9, <1>11
<1>13. Count(e.undo_stack[j]) \in Int /\ Count(e.undo_stack[j]) >= 1
  BY <1>3, <1>5, <1>11
<1> HIDE DEF j
<1>14. 1 \in 1..Count(e.undo_stack[j])
  BY <1>13
<1>15. QED BY <1>3, <1>9, <1>10, <1>12, <1>14, HeldLess

\* A count that is decreased.
LEMMA CountHolds ==
    ASSUME NEW e, Formed(e), Depth(e) > 0, Repeated(e), Top(e).n >= 1, NEW n \in Int,
           n = Top(e).n - 1
    PROVE  LET f == WithCount(e, Slot(e, e.stack_pointer - 1), n)
           IN  Cardinality(Held(f)) < Cardinality(Held(e))
<1> DEFINE top == Slot(e, e.stack_pointer - 1)
           j == At(e, Depth(e) - 1)
           f == WithCount(e, top, n)
<1>1. Depth(e) \in Nat
  BY Places
<1>2. Depth(e) - 1 \in 0..Depth(e) - 1
  BY <1>1
<1>3. j \in InRing(e)
  BY <1>2, InRingIs
<1>4. top = j
  <2>1. Slot(e, e.stack_pointer - 1) =
            At(e, IF Depth(e) = 0 THEN e.stack_size - 1 ELSE Depth(e) - 1)
    BY Places
  <2>2. Depth(e) # 0
    BY <1>1
  <2>3. QED BY <2>1, <2>2
<1>5. e.undo_stack[top] = Top(e) /\ Top(e).op = "times" /\ top \in 0..e.stack_size - 1
  BY TopIs DEF Top, Repeated
<1> HIDE DEF j
<1>6. /\ Formed(f)
      /\ f.undo_stack = [e.undo_stack EXCEPT ![top] = Entry(e.undo_stack[top].op, n)]
      /\ f.stack_size = e.stack_size
      /\ f.stack_pointer = e.stack_pointer /\ f.stack_bottom = e.stack_bottom
  BY <1>5, WithCountIs DEF Kin
<1> HIDE DEF f
<1>7. InRing(f) = InRing(e) /\ InRing(e) \subseteq 0..e.stack_size - 1
  BY <1>6 DEF InRing, Slot
<1>8. e.undo_stack \in [0..e.stack_size - 1 -> Entries]
  BY DEF Formed, Ring
<1> HIDE DEF top
<1>9. \A i \in InRing(e) : Count(e.undo_stack[i]) \in Int
  BY CountIn
<1>10. top \in 0..e.stack_size - 1
  BY <1>5
<1>11. f.undo_stack[top] = Entry("times", n) /\ Count(f.undo_stack[top]) = n
  <2>1. f.undo_stack[top] = Entry(e.undo_stack[top].op, n)
    BY <1>6, <1>8, <1>10
  <2>2. f.undo_stack[top] = Entry("times", n)
    BY <1>5, <2>1
  <2>3. QED BY <2>2 DEF Entry, Count
<1>12. Count(e.undo_stack[top]) = Top(e).n /\ Top(e).n \in Int
  BY <1>5, <1>8 DEF Count, Entries
<1>13. ASSUME NEW i \in InRing(f) PROVE Count(f.undo_stack[i]) <= Count(e.undo_stack[i])
  <2>1. CASE i = top
    BY <1>11, <1>12, <2>1
  <2>2. CASE i # top
    <3>1. f.undo_stack[i] = e.undo_stack[i]
      BY <1>6, <1>7, <1>8, <2>2
    <3>2. QED BY <1>7, <1>9, <3>1
  <2>3. QED BY <2>1, <2>2
<1> DEFINE k == Top(e).n
<1>14. k \in 1..Count(e.undo_stack[top]) /\ k > Count(f.undo_stack[top])
  BY <1>11, <1>12
<1> HIDE DEF k
<1>15. Cardinality(Held(f)) < Cardinality(Held(e))
  BY <1>3, <1>4, <1>6, <1>7, <1>13, <1>14, HeldLess
<1>16. QED BY <1>15 DEF f, top

\* What nothing is done to is held.
LEMMA SameHeld ==
    ASSUME NEW e, NEW f, SameRing(e, f)
    PROVE  Held(f) = Held(e)
BY DEF SameRing, Held, InRing, Slot

\* A larger ring holds the same.
LEMMA EnlargeHeld ==
    ASSUME NEW e, Formed(e), Shape(e)
    PROVE  Held(Enlarge(e)) = Held(e)
<1> DEFINE f == Enlarge(e)
<1>1. CASE ~(e.stack_pointer > e.stack_size - StackMargin /\ e.stack_size < MaxUndo)
  BY <1>1 DEF Enlarge
<1>2. CASE e.stack_pointer > e.stack_size - StackMargin /\ e.stack_size < MaxUndo
  <2>1. e.stack_bottom = 0
    BY <1>2 DEF Shape
  <2> DEFINE s == e.stack_size
             p == e.stack_pointer
  <2>2. s \in Nat /\ s >= 5 /\ p \in 0..s - 1
    BY SlotIn
  <2>3. /\ f.stack_size = 2 * s /\ f.stack_pointer = p /\ f.stack_bottom = 0
        /\ f.undo_stack = [i \in 0..2 * s - 1 |->
                              IF i < s THEN e.undo_stack[i] ELSE NoEntry]
    BY <1>2, <2>1 DEF Enlarge, Formed, Edits
  <2>4. \A i \in 0..s - 1 : i % s = i
    BY <2>2, Around
  <2>5. 2 * s \in Nat /\ 2 * s > 0
    BY <2>2
  <2>6. \A i \in 0..2 * s - 1 : i % (2 * s) = i
    BY <2>5, Around
  <2> HIDE DEF f, s, p
  <2>7. InRing(e) = 0..p - 1
    <3>1. InRing(e) = {i \in 0..s - 1 : (i - 0) % s < (p - 0) % s}
      BY <2>1 DEF InRing, Slot, s, p
    <3>2. \A i \in 0..s - 1 : (i - 0) % s = i
      BY <2>2, <2>4
    <3>3. QED BY <2>2, <3>1, <3>2
  <2>8. InRing(f) = 0..p - 1
    <3>1. InRing(f) = {i \in 0..2 * s - 1 : (i - 0) % (2 * s) < (p - 0) % (2 * s)}
      BY <2>3 DEF InRing, Slot
    <3>2. \A i \in 0..2 * s - 1 : (i - 0) % (2 * s) = i
      <4>1. \A i \in 0..2 * s - 1 : i - 0 = i
        BY <2>2
      <4>2. QED BY <2>6, <4>1
    <3>3. p \in 0..2 * s - 1
      BY <2>2
    <3>4. (p - 0) % (2 * s) = p
      BY <3>2, <3>3
    <3>5. QED BY <2>2, <3>1, <3>2, <3>3, <3>4
  <2>9. \A i \in 0..p - 1 : f.undo_stack[i] = e.undo_stack[i]
    BY <2>2, <2>3
  <2>10. QED BY <2>7, <2>8, <2>9 DEF Held, f
<1>3. QED BY <1>1, <1>2

-----------------------------------------------------------------------------
(* An entry is popped.                                                     *)

\* The cases of a pop.
LEMMA PopCases ==
    ASSUME NEW e, Formed(e)
    PROVE  LET top == Slot(e, e.stack_pointer - 1)
               p == pop_action(e)
           IN  \/ p.edit = e /\ p.ac = Bottom /\ (Depth(e) = 0 \/ (Repeated(e) /\ Depth(e) = 1))
               \/ /\ ~Repeated(e) /\ Depth(e) > 0
                  /\ p.edit = WithPointer(e, top) /\ p.ac = Top(e)
               \/ /\ Repeated(e) /\ Depth(e) > 1 /\ Top(e).n = 2
                  /\ p.edit = WithPointer(e, top) /\ p.ac = UnderTop(e)
               \/ /\ Repeated(e) /\ Depth(e) > 1 /\ Top(e).n # 2
                  /\ p.edit = WithCount(e, top, Top(e).n - 1) /\ p.ac = UnderTop(e)
<1> DEFINE top == Slot(e, e.stack_pointer - 1)
           p == pop_action(e)
<1>1. /\ IsEmpty(e) <=> Depth(e) = 0
      /\ top = e.stack_bottom <=> Depth(e) = 1
      /\ Depth(e) \in Nat
  BY Places
<1>2. CASE IsEmpty(e) \/ (Repeated(e) /\ top = e.stack_bottom)
  <2>1. p.edit = e /\ p.ac = Bottom
    BY <1>2 DEF pop_action
  <2>2. QED BY <1>1, <1>2, <2>1
<1>3. CASE ~(IsEmpty(e) \/ (Repeated(e) /\ top = e.stack_bottom)) /\ ~Repeated(e)
  <2>1. p.edit = WithPointer(e, top) /\ p.ac = Top(e)
    BY <1>3 DEF pop_action, WithPointer
  <2>2. QED BY <1>1, <1>3, <2>1
<1>4. CASE ~(IsEmpty(e) \/ (Repeated(e) /\ top = e.stack_bottom)) /\ Repeated(e)
  <2>1. Depth(e) > 1
    BY <1>1, <1>4
  <2>2. p.ac = UnderTop(e)
    BY <1>4 DEF pop_action
  <2>3. CASE Top(e).n = 2
    <3>1. p.edit = WithPointer(e, top)
      BY <1>4, <2>3 DEF pop_action, WithPointer
    <3>2. QED BY <1>4, <2>1, <2>2, <2>3, <3>1
  <2>4. CASE Top(e).n # 2
    <3>1. p.edit = WithCount(e, top, Top(e).n - 1)
      <4>1. p.edit = [e EXCEPT !.undo_stack[top].n = @ - 1]
        BY <1>4, <2>4 DEF pop_action
      <4>2. Top(e).n = e.undo_stack[top].n /\ top \in 0..e.stack_size - 1
        BY TopIs DEF Top
      <4>3. QED BY <4>1, <4>2 DEF WithCount
    <3>2. QED BY <1>4, <2>1, <2>2, <2>4, <3>1
  <2>5. QED BY <2>3, <2>4
<1>5. QED BY <1>2, <1>3, <1>4

\* Only the ring is changed by a pop.
LEMMA PopIs ==
    ASSUME NEW e, Formed(e)
    PROVE  LET p == pop_action(e)
           IN  /\ Formed(p.edit) /\ Pushed(e, p.edit) /\ p.edit.misled = e.misled
               /\ p.ac = Bottom \/ p.ac \in Entries
<1> DEFINE top == Slot(e, e.stack_pointer - 1)
           p == pop_action(e)
           n == Top(e).n - 1
           q == WithPointer(e, top)
           r == WithCount(e, top, n)
<1>1. /\ top \in 0..e.stack_size - 1 /\ Top(e) \in Entries /\ UnderTop(e) \in Entries
      /\ Top(e) = e.undo_stack[top]
  BY TopIs DEF Top
<1>2. n \in Int /\ (Repeated(e) => e.undo_stack[top].op = "times")
  BY <1>1 DEF Entries, Repeated
<1>3. \/ p.edit = e /\ p.ac = Bottom
      \/ p.edit = q /\ p.ac \in Entries
      \/ Repeated(e) /\ p.edit = r /\ p.ac \in Entries
  BY <1>1, PopCases
<1> HIDE DEF top, n
<1>4. Kin(e, q) /\ q.misled = e.misled
  BY <1>1, WithPointerIs
<1>5. Repeated(e) => Kin(e, r) /\ r.misled = e.misled
  BY <1>1, <1>2, WithCountIs
<1>6. Kin(e, e)
  BY KinSelf
<1> HIDE DEF p, q, r
<1>7. Kin(e, p.edit) /\ p.edit.misled = e.misled
  BY <1>3, <1>4, <1>5, <1>6
<1>8. QED BY <1>3, <1>7 DEF Kin, p

\* What is popped leads back.
LEMMA PopFits ==
    ASSUME NEW e, Formed(e), Shape(e), Depth(e) > 0, NEW v, NEW m, Fits(e, v, m)
    PROVE  LET p == pop_action(e)
           IN  /\ p.ac \in Entries
               /\ \E w \in Views : Popped(e, p.edit, p.ac, v, w, m)
<1> DEFINE d == Depth(e)
           r == [j \in 0..d - 1 |-> Item(e, j)]
           top == Slot(e, e.stack_pointer - 1)
           p == pop_action(e)
<1>1. d \in Nat /\ d > 0
  BY Places
<1>2. /\ top \in 0..e.stack_size - 1 /\ Top(e) \in Entries /\ UnderTop(e) \in Entries
      /\ Top(e) = e.undo_stack[top]
      /\ d >= 1 => Top(e) = Item(e, d - 1)
      /\ d >= 2 => UnderTop(e) = Item(e, d - 2)
  BY TopIs DEF Top
<1>3. /\ d >= 1 => r[d - 1] = Top(e)
      /\ d >= 2 => r[d - 2] = UnderTop(e)
      /\ r[0] = Item(e, 0)
  BY <1>1, <1>2
<1>4. Fit(d, r, v, m)
  BY DEF Fits
<1>5. \A j \in 0..d - 1 : r[j] = Item(e, j)
  OBVIOUS
<1> HIDE DEF r
<1>6. IsKey(r[0]) /\ v \in Views
  BY <1>1, <1>4, FitIs
<1>7. \/ p.edit = e /\ p.ac = Bottom /\ (Depth(e) = 0 \/ (Repeated(e) /\ Depth(e) = 1))
      \/ /\ ~Repeated(e) /\ Depth(e) > 0
         /\ p.edit = WithPointer(e, top) /\ p.ac = Top(e)
      \/ /\ Repeated(e) /\ Depth(e) > 1 /\ Top(e).n = 2
         /\ p.edit = WithPointer(e, top) /\ p.ac = UnderTop(e)
      \/ /\ Repeated(e) /\ Depth(e) > 1 /\ Top(e).n # 2
         /\ p.edit = WithCount(e, top, Top(e).n - 1) /\ p.ac = UnderTop(e)
  BY PopCases
<1> DEFINE f == p.edit
           c == p.ac
<1> HIDE DEF p
\* The ring with its pointer moved back.
<1>8. ASSUME f = WithPointer(e, top), Count(Top(e)) >= 1
      PROVE  /\ Formed(f) /\ Depth(f) = d - 1 /\ Shape(f)
             /\ \A j : Item(f, j) = Item(e, j)
             /\ Cardinality(Held(f)) < Cardinality(Held(e))
  <2> HIDE DEF f
  <2>1. /\ Formed(f) /\ f.undo_stack = e.undo_stack /\ f.stack_size = e.stack_size
        /\ f.stack_pointer = top /\ f.stack_bottom = e.stack_bottom
    BY <1>2, <1>8, WithPointerIs DEF Kin
  <2>2. Depth(f) = Depth(e) - 1 /\ Shape(f) /\ \A j : Item(f, j) = Item(e, j)
    BY <1>1, <2>1, PopItems
  <2>3. Cardinality(Held(f)) < Cardinality(Held(e))
    BY <1>1, <1>8, <2>1, PopHolds
  <2>4. QED BY <2>1, <2>2, <2>3
<1>9. CASE ~Repeated(e)
  <2>1. f = WithPointer(e, top) /\ c = Top(e) /\ c = r[d - 1] /\ c.op # "times"
    BY <1>1, <1>3, <1>7, <1>9 DEF Repeated
  <2>2. Count(Top(e)) >= 1
    BY <1>9 DEF Count, Repeated
  <2>3. /\ Formed(f) /\ Depth(f) = d - 1 /\ Shape(f)
        /\ \A j : Item(f, j) = Item(e, j)
        /\ Cardinality(Held(f)) < Cardinality(Held(e))
    BY <1>8, <2>1, <2>2
  <2> HIDE DEF f, c
  <2>4. PICK w \in Views : Undoes(r[d - 1], v, w) /\ Fit(d - 1, r, w, m)
    BY <1>1, <1>4, <2>1, FitTop
  <2>5. \A j \in 0..d - 1 - 1 : r[j] = Item(f, j)
    BY <1>1, <1>5, <2>3
  <2>6. Fits(f, w, m)
    BY <2>3, <2>4, <2>5, FitsIs
  <2>7. Depth(f) = 0 => IsKey(c)
    BY <1>1, <1>6, <2>1, <2>3
  <2>8. c \in Entries
    BY <1>2, <2>1
  <2>9. Popped(e, f, c, v, w, m)
    BY <2>1, <2>3, <2>4, <2>6, <2>7 DEF Popped
  <2>10. QED BY <2>8, <2>9 DEF f, c, p
<1>10. CASE Repeated(e)
  <2>1. r[d - 1].op = "times" /\ r[d - 1].n \in Int /\ r[d - 1] = Top(e)
    BY <1>1, <1>2, <1>3, <1>10 DEF Repeated, Entries
  <2>2. /\ d > 1 /\ r[d - 1].n >= 2
        /\ \E w \in Views :
              /\ Undoes(r[d - 2], v, w)
              /\ r[d - 1].n = 2 => Fit(d - 1, r, w, m)
              /\ r[d - 1].n > 2 =>
                    \A s : /\ \A j \in 0..d - 2 : s[j] = r[j]
                           /\ s[d - 1].op = "times" /\ s[d - 1].n = r[d - 1].n - 1
                           => Fit(d, s, w, m)
    BY <1>1, <1>4, <2>1, FitTimes
  <2>3. PICK w \in Views :
              /\ Undoes(r[d - 2], v, w)
              /\ r[d - 1].n = 2 => Fit(d - 1, r, w, m)
              /\ r[d - 1].n > 2 =>
                    \A s : /\ \A j \in 0..d - 2 : s[j] = r[j]
                           /\ s[d - 1].op = "times" /\ s[d - 1].n = r[d - 1].n - 1
                           => Fit(d, s, w, m)
    BY <2>2
  <2>4. c = UnderTop(e) /\ c = r[d - 2] /\ c \in Entries
    BY <1>1, <1>2, <1>3, <1>7, <1>10, <2>2
  <2>5. CASE Top(e).n = 2
    <3>1. f = WithPointer(e, top) /\ Count(Top(e)) >= 1
      BY <1>1, <1>7, <1>10, <2>2, <2>5 DEF Count, Repeated
    <3>2. /\ Formed(f) /\ Depth(f) = d - 1 /\ Shape(f)
          /\ \A j : Item(f, j) = Item(e, j)
          /\ Cardinality(Held(f)) < Cardinality(Held(e))
      BY <1>8, <3>1
    <3> HIDE DEF f, c
    <3>3. Fit(d - 1, r, w, m)
      BY <2>1, <2>3, <2>5
    <3>4. \A j \in 0..d - 1 - 1 : r[j] = Item(f, j)
      BY <1>1, <1>5, <3>2
    <3>5. Fits(f, w, m)
      BY <3>2, <3>3, <3>4, FitsIs
    <3>6. Depth(f) = 0 => IsKey(c)
      BY <1>1, <2>2, <3>2
    <3>7. Popped(e, f, c, v, w, m)
      BY <2>3, <2>4, <3>2, <3>5, <3>6 DEF Popped
    <3>8. QED BY <2>4, <3>7 DEF f, c, p
  <2>6. CASE Top(e).n # 2
    <3>1. PICK n \in Int : n = Top(e).n - 1
      BY <2>1
    <3>2. f = WithCount(e, top, n) /\ Top(e).n >= 1 /\ Top(e).n > 2
      BY <1>1, <1>7, <1>10, <2>1, <2>2, <2>6, <3>1
    <3> HIDE DEF f, c
    <3>3. /\ Formed(f) /\ Depth(f) = d /\ Shape(f)
          /\ \A j \in 0..d - 2 : Item(f, j) = Item(e, j)
          /\ Item(f, d - 1) = Entry(Item(e, d - 1).op, n)
      BY <1>1, <1>10, <3>2, CountItems
    <3>4. Cardinality(Held(f)) < Cardinality(Held(e))
      BY <1>1, <1>10, <3>1, <3>2, CountHolds
    <3> DEFINE s == [j \in 0..d - 1 |-> Item(f, j)]
    <3>5. \A j \in 0..d - 2 : s[j] = r[j]
      BY <1>1, <1>5, <3>3
    <3>6. s[d - 1].op = "times" /\ s[d - 1].n = r[d - 1].n - 1
      <4>1. s[d - 1] = Entry(Item(e, d - 1).op, n)
        BY <1>1, <3>3
      <4>2. Item(e, d - 1) = Top(e)
        BY <1>1, <1>2
      <4>3. Item(e, d - 1).op = "times"
        BY <2>1, <4>2
      <4>4. QED BY <2>1, <3>1, <4>1, <4>3 DEF Entry
    <3>7. \A j \in 0..d - 1 : s[j] = Item(f, j)
      OBVIOUS
    <3> HIDE DEF s
    <3>8. Fit(d, s, w, m)
      BY <2>1, <2>3, <3>2, <3>5, <3>6
    <3>9. Fits(f, w, m)
      BY <3>3, <3>7, <3>8, FitsIs
    <3>10. Popped(e, f, c, v, w, m)
      BY <1>1, <2>3, <2>4, <3>3, <3>4, <3>9 DEF Popped
    <3>11. QED BY <2>4, <3>10 DEF f, c, p
  <2>7. QED BY <2>5, <2>6
<1>11. QED BY <1>9, <1>10

-----------------------------------------------------------------------------
(* A popped command is done; nothing is pushed meanwhile.                  *)

\* The ring is held.
LEMMA ViaHeld ==
    ASSUME NEW e, NEW f, NEW c, Via(e, c, f), Formed(e), Shape(e), e.push_action_disabled
    PROVE  Held(f) = Held(e)
<1>1. PICK g : Formed(g) /\ SameRing(e, g) /\ SameRing(edit_push_action(g, c), f)
  BY DEF Via
<1> DEFINE h == Enlarge(g)
<1>2. SameRing(h, f)
  BY <1>1 DEF edit_push_action, SameRing
<1>3. Shape(g) /\ Held(g) = Held(e)
  BY <1>1, SameFits, SameHeld
<1>4. Held(h) = Held(g)
  BY <1>1, <1>3, EnlargeHeld
<1> HIDE DEF h
<1>5. Held(f) = Held(h)
  BY <1>2, SameHeld
<1>6. QED BY <1>3, <1>4, <1>5

\* A command that is done shows what it leads to.
LEMMA DoQuiet ==
    ASSUME NEW e, Formed(e), Right(e), e.push_action_disabled, NEW c \in Entries
    PROVE  LET f == Do(e, c)
           IN  /\ Quiet(e, f)
               /\ \A v, w \in Views :
                     /\ Placed(e) /\ Shape(e) /\ c.op # "key" /\ Undoes(c, v, w)
                     /\ v.before = e.before /\ v.after = e.after
                     => Loose(e, f) /\ f.before = w.before /\ f.after = w.after
<1> DEFINE f == Do(e, c)
           Good1(v, w) == /\ Placed(e) /\ Shape(e) /\ c.op # "key" /\ Undoes(c, v, w)
                          /\ v.before = e.before /\ v.after = e.after
<1>1. e.before \in Seq(Chars) /\ e.after \in Seq(Chars)
  BY TextIs
<1>2. CASE c \in Moves
  <2>1. f = e \/ \E d \in Moves : Done(e, c, d, f)
    BY <1>2, DoIs
  <2>2. \A b, a \in Seq(Chars) : Turns(c, e.before, e.after, b, a) =>
            \E d \in Moves : Done(e, c, d, f)
    BY <1>2, DoIs
  <2> HIDE DEF f
  <2>3. ASSUME NEW d \in Moves, Done(e, c, d, f)
        PROVE  /\ Quiet(e, f) /\ Via(e, d, f) /\ (Placed(e) => Placed(f))
               /\ Turns(c, e.before, e.after, f.before, f.after)
    <3>1. /\ Formed(f) /\ Right(f) /\ Via(e, d, f) /\ (Placed(e) => Placed(f))
          /\ Turns(c, e.before, e.after, f.before, f.after)
      BY <2>3 DEF Done, Primitive, Keeps
    <3>2. f.misled = e.misled /\ f.push_action_disabled
      BY <3>1, ViaUndo
    <3>3. QED BY <3>1, <3>2 DEF Quiet
  <2>4. Quiet(e, f)
    BY <2>1, <2>3 DEF Quiet
  <2>5. ASSUME NEW v \in Views, NEW w \in Views, Good1(v, w)
        PROVE  Loose(e, f) /\ f.before = w.before /\ f.after = w.after
    <3>1. w.before \in Seq(Chars) /\ w.after \in Seq(Chars)
      BY ViewIs
    <3>2. Turns(c, e.before, e.after, w.before, w.after)
      BY <1>2, <2>5 DEF Undoes, Moves, MoveOps
    <3>3. PICK d \in Moves : Done(e, c, d, f)
      BY <2>2, <3>1, <3>2
    <3>4. /\ Formed(f) /\ Via(e, d, f) /\ Placed(f)
          /\ Turns(c, e.before, e.after, f.before, f.after)
      BY <2>3, <2>5, <3>3 DEF Quiet
    <3>5. f.before \in Seq(Chars) /\ f.after \in Seq(Chars)
      BY <3>4, TextIs
    <3>6. f.before = w.before /\ f.after = w.after
      BY <1>1, <3>1, <3>2, <3>4, <3>5, TurnsOnce
    <3>7. /\ Shape(f) /\ Depth(f) = Depth(e)
          /\ \A x, m : Fits(e, x, m) => Fits(f, x, m)
      BY <2>5, <3>4, ViaUndo
    <3>8. Held(f) = Held(e)
      BY <2>5, <3>4, ViaHeld
    <3>9. QED BY <3>4, <3>6, <3>7, <3>8 DEF Loose
  <2>6. QED BY <2>4, <2>5 DEF f
<1>3. CASE c.op \in {"mark1", "mark2"}
  <2> DEFINE m == IF c.op = "mark1" THEN c.n ELSE e.mark1
             n == IF c.op = "mark1" THEN e.mark2 ELSE c.n
  <2>1. f = edit_set_markers(e, m, n)
    BY <1>3 DEF Do, edit_set_markers, Formed, Edits
  <2>2. m \in Int /\ n \in Int
    BY DEF Formed, Edits, Entries
  <2>3. ASSUME NEW v \in Views, NEW w \in Views, Good1(v, w)
        PROVE  m \in 0..LastByte(e) /\ n \in Following..LastByte(e) /\ w = v
    <3>1. Length(v) = LastByte(e)
      BY <2>3 DEF Length, LastByte
    <3>2. /\ w = v
          /\ c.op = "mark1" => c.n \in 0..Length(v)
          /\ c.op = "mark2" => c.n \in Following..Length(v)
      BY <1>3, <2>3 DEF Undoes, Moves, MoveOps
    <3>3. QED BY <1>3, <2>3, <3>1, <3>2 DEF Placed
  <2> HIDE DEF m, n, f
  <2>4. /\ Formed(f) /\ SameRing(e, f) /\ SameText(e, f)
        /\ Placed(e) /\ m \in 0..LastByte(e) /\ n \in Following..LastByte(e) => Placed(f)
    BY <2>1, <2>2, MarksIs
  <2>5. Quiet(e, f)
    BY <2>4 DEF Quiet, SameRing, SameText, Right, Text, Cursor, LastByte
  <2>6. ASSUME NEW v \in Views, NEW w \in Views, Good1(v, w)
        PROVE  Loose(e, f) /\ f.before = w.before /\ f.after = w.after
    <3>1. Placed(f) /\ w = v
      BY <2>3, <2>4, <2>6
    <3>2. Held(f) = Held(e)
      BY <2>4, SameHeld
    <3>3. Shape(f) /\ Depth(f) = Depth(e) /\ \A x, k : Fits(e, x, k) => Fits(f, x, k)
      BY <2>4, <2>6, SameFits
    <3>4. QED BY <2>4, <2>6, <3>1, <3>2, <3>3 DEF Loose, SameText
  <2>7. QED BY <2>5, <2>6 DEF f
<1>4. CASE c \notin Moves /\ c.op \notin {"mark1", "mark2"}
  <2>1. c.op \in {"key", "times", "none"}
    BY <1>4 DEF Moves, MoveOps, Entries, Ops
  <2>2. f = e
    BY <2>1 DEF Do
  <2>3. Quiet(e, f)
    BY <2>2 DEF Quiet
  <2>4. ASSUME NEW v \in Views, NEW w \in Views, Good1(v, w)
        PROVE  FALSE
    BY <2>1, <2>4, UndoesPast
  <2>5. QED BY <2>3, <2>4
<1>5. QED BY <1>2, <1>3, <1>4

-----------------------------------------------------------------------------
(* The display starts where the key found it.                              *)

\* The line feeds between two offsets.
LEMMA NewlinesIs ==
    ASSUME NEW e, Formed(e), NEW from \in Int, NEW to \in Int
    PROVE  /\ Newlines(e, from, to) \in Nat
           /\ to <= from => Newlines(e, from, to) = 0
           /\ 0 <= from /\ from <= to /\ to <= LastByte(e) =>
                 Newlines(e, from, to) = Feeds(Text(e), to) - Feeds(Text(e), from)
<1> DEFINE S == {i \in from..to - 1 : Byte(e, i) = NL}
<1>1. to - 1 \in Int
  OBVIOUS
<1>2. IsFiniteSet(from..to - 1)
  BY <1>1, FS_Interval
<1>3. S \in SUBSET (from..to - 1)
  OBVIOUS
<1>4. IsFiniteSet(S) /\ Cardinality(S) \in Nat
  BY <1>2, <1>3, FS_Subset, FS_CardinalityType
<1>5. Newlines(e, from, to) = Cardinality(S)
  BY DEF Newlines
<1>6. to <= from => S = {}
  OBVIOUS
<1>7. ASSUME 0 <= from, from <= to, to <= LastByte(e)
      PROVE  Cardinality(S) = Feeds(Text(e), to) - Feeds(Text(e), from)
  <2> DEFINE t == Text(e)
             A == {i \in 0..from - 1 : t[i + 1] = NL}
             B == {i \in 0..to - 1 : t[i + 1] = NL}
  <2>1. LastByte(e) \in Int
    BY OffsetsIn
  <2>2. \A i \in from..to - 1 : i \in 0..LastByte(e) - 1 /\ i \in Int
    BY <1>7, <2>1
  <2>3. \A i \in from..to - 1 : Byte(e, i) = t[i + 1]
    BY <2>2, ByteIs
  <2>4. S = {i \in from..to - 1 : t[i + 1] = NL}
    BY <2>3
  <2>5. Feeds(Text(e), to) = Cardinality(B) /\ Feeds(Text(e), from) = Cardinality(A)
    BY DEF Feeds
  <2> HIDE DEF t
  <2>6. B = A \cup S /\ A \cap S = {}
    BY <1>7, <2>4
  <2>7. IsFiniteSet(A)
    <3>1. from - 1 \in Int /\ 0 \in Int
      OBVIOUS
    <3>2. IsFiniteSet(0..from - 1)
      BY <3>1, FS_Interval
    <3>3. A \in SUBSET (0..from - 1)
      OBVIOUS
    <3>4. QED BY <3>2, <3>3, FS_Subset
  <2> HIDE DEF A, B, S
  <2>8. Cardinality(A) \in Nat
    BY <2>7, FS_CardinalityType
  <2>9. Cardinality(A \cup S) = Cardinality(A) + Cardinality(S) - Cardinality(A \cap S)
    BY <1>4, <2>7, FS_Union
  <2>10. Cardinality(A \cap S) = 0
    BY <2>6, FS_EmptySet
  <2>11. QED BY <1>4, <2>5, <2>6, <2>8, <2>9, <2>10
<1> HIDE DEF S
<1>8. S = {} => Cardinality(S) = 0
  BY FS_EmptySet
<1>9. QED BY <1>4, <1>5, <1>6, <1>7, <1>8

\* The display start and its line.
LEMMA DisplayIs ==
    ASSUME NEW e, Formed(e), NEW n \in Int
    PROVE  LET f == DisplayFrom(e, n)
           IN  /\ Scrolled(e, f) /\ f.start_display = n
               /\ Placed(e) /\ n \in 0..LastByte(e) => Placed(f)
<1> DEFINE s == e.start_display
           l == LastByte(e)
           p == edit_count_lines(e, s, n)
           q == edit_count_lines(e, n, s)
           line == e.start_line + p - q
           f == DisplayFrom(e, n)
<1>1. e.start_line \in Int /\ s \in Int /\ l \in Int
  BY OffsetsIn DEF Formed, Edits
<1>2. f = WithTop(e, n, line)
  BY DEF DisplayFrom, WithTop
<1> DEFINE ln == Min({n, l})
           ls == Min({s, l})
<1>3. p = Newlines(e, s, ln) /\ q = Newlines(e, n, ls)
  BY DEF edit_count_lines
<1> HIDE DEF s, l
<1>4. ln = (IF n <= l THEN n ELSE l) /\ ls = (IF s <= l THEN s ELSE l)
  BY <1>1, MinOfTwo
<1> HIDE DEF ln, ls, p, q
<1>5. ln \in Int /\ ls \in Int
  BY <1>1, <1>4
<1>6. p \in Nat /\ q \in Nat
  BY <1>1, <1>3, <1>5, NewlinesIs
<1>7. line \in Int
  BY <1>1, <1>6
<1>8. ASSUME Placed(e), n \in 0..l PROVE line = Feeds(Text(e), n)
  <2>1. s \in 0..l /\ e.start_line = Feeds(Text(e), s)
    BY <1>8 DEF Placed, s, l
  <2>2. ln = n /\ ls = s
    BY <1>1, <1>4, <1>8, <2>1
  <2>3. n \in Nat /\ s \in Nat
    BY <1>1, <1>8, <2>1
  <2>4. Feeds(Text(e), n) \in Nat /\ Feeds(Text(e), s) \in Nat
    BY <2>3, FeedsStep
  <2>5. CASE s <= n
    <3>1. 0 <= s /\ s <= n /\ n <= LastByte(e) /\ s \in Int
      BY <1>1, <1>8, <2>1, <2>5 DEF l
    <3>2. p = Feeds(Text(e), n) - Feeds(Text(e), s)
      BY <1>3, <2>2, <3>1, NewlinesIs
    <3>3. q = 0
      BY <1>3, <2>2, <2>5, <3>1, NewlinesIs
    <3>4. QED BY <2>1, <2>4, <3>2, <3>3
  <2>6. CASE n <= s
    <3>1. 0 <= n /\ n <= s /\ s <= LastByte(e) /\ s \in Int
      BY <1>1, <1>8, <2>1, <2>6 DEF l
    <3>2. q = Feeds(Text(e), s) - Feeds(Text(e), n)
      BY <1>3, <2>2, <3>1, NewlinesIs
    <3>3. p = 0
      BY <1>3, <2>2, <2>6, <3>1, NewlinesIs
    <3>4. QED BY <2>1, <2>4, <3>2, <3>3
  <2>7. QED BY <2>3, <2>5, <2>6
<1> HIDE DEF line, f
<1>9. /\ Scrolled(e, f) /\ f.start_display = n
      /\ Placed(e) /\ n \in 0..LastByte(e) /\ line = Feeds(Text(e), n) => Placed(f)
  BY <1>2, <1>7, WithTopIs
<1>10. QED BY <1>8, <1>9 DEF f, l

-----------------------------------------------------------------------------
(* Undo pops one key.                                                      *)

\* A round ends there.
LEMMA RoundIn ==
    ASSUME NEW e, NEW r \in Rounds(e)
    PROVE  PopStep(r) \in Rounds(e)
<1> DEFINE x == r.edit
           p == pop_action(x)
           a == p.edit
           c == p.ac
<1>1. Quiet(e, x) /\ r.done \in BOOLEAN
  BY DEF Rounds
<1>2. /\ PopStep(r) = IF r.done THEN r
                      ELSE IF c = Bottom THEN [edit |-> a, done |-> TRUE]
                      ELSE IF IsKey(c) THEN [edit |-> DisplayFrom(a, c.n), done |-> TRUE]
                      ELSE [edit |-> Do(a, c), done |-> FALSE]
  BY DEF PopStep
<1>3. Formed(x) /\ Right(x) /\ x.push_action_disabled /\ x.misled = e.misled
  BY <1>1 DEF Quiet
<1> HIDE DEF x
<1>4. Formed(a) /\ Pushed(x, a) /\ a.misled = x.misled /\ (c = Bottom \/ c \in Entries)
  BY <1>3, PopIs
<1> HIDE DEF a, c, p
<1>5. Right(a) /\ a.push_action_disabled
  BY <1>3, <1>4 DEF Pushed, Right, SameText, Text, Cursor, LastByte
<1>6. Quiet(e, a)
  BY <1>3, <1>4, <1>5 DEF Quiet
<1>7. c \in Entries => Quiet(e, DisplayFrom(a, c.n))
  <2>1. SUFFICES ASSUME c \in Entries PROVE Quiet(e, DisplayFrom(a, c.n))
    OBVIOUS
  <2> DEFINE f == DisplayFrom(a, c.n)
  <2>2. c.n \in Int
    BY <2>1 DEF Entries
  <2>3. Scrolled(a, f)
    BY <1>4, <2>2, DisplayIs
  <2> HIDE DEF f
  <2>4. Quiet(e, f)
    BY <1>5, <1>6, <2>3
       DEF Quiet, Scrolled, SameRing, SameText, Right, Text, Cursor, LastByte
  <2>5. QED BY <2>4 DEF f
<1>8. c \in Entries => Quiet(e, Do(a, c))
  BY <1>4, <1>5, <1>6, DoQuiet DEF Quiet
<1>9. \A y : Quiet(e, y) => y \in {z \in Edits : Quiet(e, z)}
  BY DEF Quiet, Formed
<1>10. QED BY <1>1, <1>2, <1>4, <1>6, <1>7, <1>8, <1>9 DEF Rounds

\* The loop has as many rounds as the ring holds commands.
LEMMA PopKeyLoops ==
    ASSUME NEW e, Formed(e), Right(e), e.push_action_disabled
    PROVE  /\ Cardinality(Held(e)) \in Nat
           /\ Looped(e, Cardinality(Held(e)))
<1> DEFINE pops == Cardinality(Held(e))
           base == [edit |-> e, done |-> FALSE]
           X == Rounds(e)
           F == [p \in X \X Nat |-> PopStep(p[1])]
           Body(g) == g = [i \in 0..pops |-> IF i = 0 THEN base ELSE PopStep(g[i - 1])]
<1>1. pops \in Nat
  BY HeldFinite
<1>2. base \in X
  <2>1. Quiet(e, e) /\ e \in Edits
    BY DEF Quiet, Formed
  <2>2. QED BY <2>1 DEF Rounds
<1>3. PopKey(e) = (CHOOSE g : Body(g))[pops].edit
  BY DEF PopKey, PopStep
<1> HIDE DEF X, pops, base
<1>4. \A x \in X : PopStep(x) \in X
  BY RoundIn DEF X
<1>5. F \in [X \X Nat -> X]
  <2>1. \A p \in X \X Nat : p[1] \in X
    OBVIOUS
  <2>2. QED BY <1>4, <2>1
<1>6. \A x \in X, i \in 1..pops : F[<<x, i>>] = PopStep(x)
  <2>1. \A i \in 1..pops : i \in Nat
    BY <1>1
  <2>2. QED BY <2>1
<1> HIDE DEF F
<1>7. PICK g \in [0..pops -> X] : g[0] = base /\ \A i \in 1..pops : g[i] = F[<<g[i - 1], i>>]
  <2>1. Runs(pops, X, base, F) # {}
    BY <1>1, <1>2, <1>5, Iterates
  <2>2. QED BY <2>1 DEF Runs
<1>8. \A i \in 1..pops : g[i] = PopStep(g[i - 1])
  <2>1. \A i \in 1..pops : i - 1 \in 0..pops
    BY <1>1
  <2>2. QED BY <1>6, <1>7, <2>1
<1>9. Body(g)
  <2>1. \A i \in 0..pops : i # 0 => i \in 1..pops
    BY <1>1
  <2>2. QED BY <1>7, <1>8, <2>1
<1>10. PICK h : h = (CHOOSE g1 : Body(g1)) /\ Body(h)
  BY <1>9
<1>11. h[0] = base /\ \A i \in 1..pops : h[i] = PopStep(h[i - 1])
  <2>1. 0 \in 0..pops /\ \A i \in 1..pops : i \in 0..pops /\ i # 0
    BY <1>1
  <2>2. QED BY <1>10, <2>1
<1>12. \A i \in 0..pops : h[i] \in X
  <2> DEFINE T == [i \in 0..pops |-> X]
  <2>1. h[0] \in T[0]
    BY <1>1, <1>2, <1>11
  <2>2. ASSUME NEW i \in 1..pops, h[i - 1] \in T[i - 1] PROVE h[i] \in T[i]
    <3>1. i - 1 \in 0..pops /\ i \in 0..pops
      BY <1>1
    <3>2. h[i - 1] \in X
      BY <2>2, <3>1
    <3>3. QED BY <1>4, <1>11, <3>1, <3>2
  <2> HIDE DEF T
  <2>3. \A i \in 0..pops : h[i] \in T[i]
    BY <1>1, <2>1, <2>2, Stepwise
  <2>4. QED BY <2>3 DEF T
<1>13. h \in [0..pops -> X]
  <2>1. h = [i \in 0..pops |-> h[i]]
    BY <1>10
  <2>2. QED BY <1>12, <2>1
<1>14. PopKey(e) = h[pops].edit
  BY <1>3, <1>10
<1>15. Looped(e, pops)
  BY <1>11, <1>13, <1>14 DEF Looped, X, base
<1>16. QED BY <1>1, <1>15 DEF pops

\* Nothing is pushed, whatever is popped.
LEMMA PopKeyQuiet ==
    ASSUME NEW e, Formed(e), Right(e), e.push_action_disabled
    PROVE  Quiet(e, PopKey(e))
<1> DEFINE pops == Cardinality(Held(e))
<1>1. pops \in Nat /\ Looped(e, pops)
  BY PopKeyLoops
<1> HIDE DEF pops
<1>2. PICK h \in [0..pops -> Rounds(e)] :
          /\ h[0] = [edit |-> e, done |-> FALSE] /\ PopKey(e) = h[pops].edit
          /\ \A i \in 1..pops : h[i] = PopStep(h[i - 1])
  BY <1>1 DEF Looped
<1>3. h[pops] \in Rounds(e)
  BY <1>1
<1>4. QED BY <1>2, <1>3 DEF Rounds

\* The last of some things.
LEMMA Latest ==
    ASSUME NEW s \in Seq(AllSeen), NEW x \in AllSeen, NEW t, t = Append(s, x)
    PROVE  t \in Seq(AllSeen) /\ t # <<>> /\ Front(t) = s /\ Last(t) = x /\ Len(t) = Len(s) + 1
<1>1. /\ t \in Seq(AllSeen) /\ t # <<>> /\ Len(t) = Len(s) + 1 /\ t[Len(t)] = x
      /\ \A i \in 1..Len(s) : t[i] = s[i]
  BY AppendProperties
<1>2. /\ Front(t) \in Seq(AllSeen) /\ Len(Front(t)) = Len(t) - 1
      /\ \A i \in 1..Len(t) - 1 : Front(t)[i] = t[i]
      /\ Last(t) = t[Len(t)]
  BY <1>1, FrontIs
<1> DEFINE f == Front(t)
<1>3. f \in Seq(AllSeen) /\ Len(f) = Len(s) /\ \A i \in 1..Len(f) : f[i] = s[i]
  <2>1. Len(s) \in Nat
    OBVIOUS
  <2>2. QED BY <1>1, <1>2, <2>1
<1> HIDE DEF f
<1>4. f = s
  BY <1>3, SeqEqual
<1>5. QED BY <1>1, <1>2, <1>4 DEF f

\* A round of the loop.
LEMMA RoundFits ==
    ASSUME NEW x, Formed(x), Right(x), x.push_action_disabled,
           Placed(x), Shape(x), Depth(x) > 0,
           NEW log \in Seq(AllSeen), NEW m, Fits(x, View(x, log), m),
           NEW r, r = [edit |-> x, done |-> FALSE]
    PROVE  LET s == PopStep(r)
               f == s.edit
           IN  /\ s.done => Undone(f, log, m)
               /\ ~s.done => /\ Placed(f) /\ Shape(f) /\ Depth(f) > 0 /\ Fits(f, View(f, log), m)
                             /\ Cardinality(Held(f)) < Cardinality(Held(x))
               /\ log # <<>>
<1> DEFINE v == View(x, log)
           p == pop_action(x)
           a == p.edit
           c == p.ac
           s == PopStep(r)
           f == s.edit
<1>1. v \in Views /\ v.before = x.before /\ v.after = x.after /\ v.past = log
  BY ViewOf
<1>2. log # <<>>
  <2>1. Depth(x) \in Nat
    BY Places
  <2> DEFINE q == [j \in 0..Depth(x) - 1 |-> Item(x, j)]
  <2>2. Fit(Depth(x), q, v, m)
    BY DEF Fits
  <2> HIDE DEF q, v
  <2>3. m \in Nat /\ m < Len(v.past)
    BY <2>1, <2>2, FitIs
  <2>4. QED BY <1>1, <2>3
<1> HIDE DEF v
<1>3. c \in Entries /\ \E w \in Views : Popped(x, a, c, v, w, m)
  BY PopFits DEF v
<1>4. PICK w \in Views : Popped(x, a, c, v, w, m)
  BY <1>3
<1>5. /\ Undoes(c, v, w) /\ Fits(a, w, m) /\ Shape(a) /\ (Depth(a) = 0 => IsKey(c))
      /\ Cardinality(Held(a)) < Cardinality(Held(x))
  BY <1>4 DEF Popped
<1>6. Formed(a) /\ Pushed(x, a)
  BY PopIs
<1>7. c # Bottom
  BY <1>3 DEF Bottom, Entry, Entries, Ops
<1>8. s = IF IsKey(c) THEN [edit |-> DisplayFrom(a, c.n), done |-> TRUE]
          ELSE [edit |-> Do(a, c), done |-> FALSE]
  BY <1>7 DEF PopStep
<1> HIDE DEF a, c, p, s
<1>9. /\ Right(a) /\ a.push_action_disabled /\ Placed(a)
      /\ a.before = x.before /\ a.after = x.after
  BY <1>6 DEF Pushed, Right, Placed, SameText, SameScreen, Text, Cursor, LastByte
<1>10. Depth(a) \in Nat
  BY <1>6, Places
<1>11. CASE IsKey(c)
  <2>1. s.done /\ f = DisplayFrom(a, c.n)
    BY <1>8, <1>11
  <2> HIDE DEF f
  <2>2. /\ c.n \in 0..Length(w) /\ Visible(w, c.n)
        /\ w.before = v.before /\ w.after = v.after
        /\ v.past = Append(w.past, Shot(w, c.n))
    BY <1>5, <1>11 DEF Undoes, IsKey, Moves, MoveOps
  <2>3. c.n \in Int /\ Length(w) \in Nat
    BY <1>3, ViewIs DEF Entries
  <2>4. Length(w) = LastByte(a)
    BY <1>1, <1>9, <2>2 DEF Length, LastByte
  <2>5. Scrolled(a, f) /\ f.start_display = c.n /\ Placed(f)
    BY <1>6, <1>9, <2>1, <2>2, <2>3, <2>4, DisplayIs
  <2>6. f.before = w.before /\ f.after = w.after
    BY <1>1, <1>9, <2>2, <2>5 DEF Scrolled, SameText
  <2>7. w.past \in Seq(AllSeen) /\ Shot(w, c.n) \in AllSeen
    BY <2>2, <2>3, ViewIs
  <2>8. Front(log) = w.past /\ Last(log) = Shot(w, c.n)
    BY ZenonT(60), <1>1, <2>2, <2>7, Latest
  <2>9. Seen(f) = Shot(w, c.n)
    BY <2>5, <2>6 DEF Seen, Shot, Text, Cursor
  <2>10. View(f, Front(log)) = w
    <3>1. Formed(f) /\ Front(log) \in Seq(AllSeen)
      BY <2>5, <2>7, <2>8 DEF Scrolled
    <3> DEFINE u == View(f, Front(log))
    <3>2. u \in Views /\ u.before = w.before /\ u.after = w.after /\ u.past = w.past
      BY <2>6, <2>8, <3>1, ViewOf
    <3> HIDE DEF u
    <3>3. u = w
      BY <3>2, ViewIs
    <3>4. QED BY <3>3 DEF u
  <2>11. Shape(f) /\ Fits(f, w, m)
    BY <1>5, <2>5, SameFits DEF Scrolled
  <2>12. OnScreen(f)
    <3>1. Right(f)
      BY <1>9, <2>5 DEF Scrolled, SameText, Right, Text, Cursor, LastByte
    <3>2. QED
      BY <2>2, <2>5, <2>6, <3>1
         DEF Visible, OnScreen, CursorRow, Right, Placed, Text, Cursor
  <2>13. Undone(f, log, m)
    BY <2>5, <2>8, <2>9, <2>10, <2>11, <2>12 DEF Undone
  <2>14. QED BY <1>2, <2>1, <2>13 DEF f, s
<1>12. CASE ~IsKey(c)
  <2>1. ~s.done /\ f = Do(a, c)
    BY <1>8, <1>12
  <2> HIDE DEF f
  <2>2. c.op # "key"
    BY <1>12 DEF IsKey
  <2>3. v.before = a.before /\ v.after = a.after
    BY <1>1, <1>9
  <2>4. Quiet(a, f) /\ Loose(a, f) /\ f.before = w.before /\ f.after = w.after
    BY <1>1, <1>3, <1>5, <1>6, <1>9, <2>1, <2>2, <2>3, DoQuiet
  <2>5. w.past = log
    BY <1>1, <1>5, <2>2, UndoesPast
  <2>6. View(f, log) = w
    <3> DEFINE u == View(f, log)
    <3>1. u \in Views /\ u.before = w.before /\ u.after = w.after /\ u.past = w.past
      BY <2>4, <2>5, ViewOf DEF Quiet
    <3> HIDE DEF u
    <3>2. u = w
      BY <3>1, ViewIs
    <3>3. QED BY <3>2 DEF u
  <2>7. /\ Placed(f) /\ Shape(f) /\ Depth(f) = Depth(a) /\ Held(f) = Held(a) /\ Fits(f, w, m)
    BY <1>5, <2>4 DEF Loose
  <2>8. Depth(f) > 0
    BY <1>5, <1>10, <1>12, <2>7
  <2>9. Cardinality(Held(f)) < Cardinality(Held(x))
    BY <1>5, <2>7
  <2>10. QED BY <1>2, <2>1, <2>6, <2>7, <2>8, <2>9 DEF f, s
<1>13. QED BY <1>11, <1>12

-----------------------------------------------------------------------------
(* Undo.                                                                   *)

\* An empty ring holds nothing.
LEMMA HeldNone ==
    ASSUME NEW e, Formed(e), Depth(e) = 0
    PROVE  Cardinality(Held(e)) = 0
<1>1. InRing(e) = {}
  <2>1. ASSUME NEW i \in InRing(e) PROVE FALSE
    <3>1. i \in 0..e.stack_size - 1 /\ Slot(e, i - e.stack_bottom) < Depth(e)
      BY <2>1 DEF InRing, Depth
    <3>2. i \in Int
      BY <3>1
    <3>3. Slot(e, i - e.stack_bottom) \in Nat
      BY <3>2, InRingIs
    <3>4. QED BY <3>1, <3>3
  <2>2. QED BY <2>1
<1>2. Held(e) = {}
  BY <1>1, HeldFinite
<1>3. QED BY <1>2, FS_EmptySet

\* The loop finds the last key.
LEMMA PopKeyFits ==
    ASSUME NEW e, Formed(e), Right(e), e.push_action_disabled, Placed(e), Shape(e),
           NEW log \in Seq(AllSeen), NEW m, Fits(e, View(e, log), m)
    PROVE  /\ Depth(e) = 0 => PopKey(e) = e
           /\ Depth(e) > 0 => log # <<>> /\ Undone(PopKey(e), log, m)
<1> DEFINE pops == Cardinality(Held(e))
           base == [edit |-> e, done |-> FALSE]
<1>1. pops \in Nat /\ Looped(e, pops)
  BY PopKeyLoops
<1>2. Depth(e) = 0 => pops = 0
  BY HeldNone
<1>3. pops = Cardinality(Held(e))
  OBVIOUS
<1> HIDE DEF pops
<1>4. PICK h \in [0..pops -> Rounds(e)] :
          /\ h[0] = base /\ PopKey(e) = h[pops].edit
          /\ \A i \in 1..pops : h[i] = PopStep(h[i - 1])
  BY <1>1 DEF Looped
<1>5. Depth(e) = 0 => PopKey(e) = e
  BY <1>2, <1>4
<1>6. ASSUME Depth(e) > 0 PROVE log # <<>> /\ Undone(PopKey(e), log, m)
  <2> DEFINE Ok(r, i) == /\ r \in Rounds(e)
                         /\ r.done => Undone(r.edit, log, m)
                         /\ ~r.done => Searching(r.edit, log, m, pops - i)
             T == [i \in 0..pops |-> {r \in Rounds(e) : Ok(r, i)}]
  <2>1. log # <<>>
    <3> DEFINE r == base
    <3>1. r = [edit |-> e, done |-> FALSE]
      OBVIOUS
    <3> HIDE DEF r
    <3>2. QED BY <1>6, <3>1, RoundFits
  <2>2. h[0] \in T[0]
    <3>1. Searching(e, log, m, pops)
      BY <1>1, <1>3, <1>6 DEF Searching
    <3>2. 0 \in 0..pops /\ pops - 0 = pops
      BY <1>1
    <3>3. h[0] \in Rounds(e)
      BY <3>2
    <3>4. h[0].edit = e /\ h[0].done = FALSE
      BY <1>4
    <3>5. Ok(h[0], 0)
      BY <3>1, <3>2, <3>3, <3>4
    <3> HIDE DEF Ok
    <3>6. QED BY <3>2, <3>3, <3>5
  <2>3. ASSUME NEW i \in 1..pops, h[i - 1] \in T[i - 1] PROVE h[i] \in T[i]
    <3> DEFINE r == h[i - 1]
               s == PopStep(r)
               x == r.edit
               f == s.edit
    <3>1. i - 1 \in 0..pops /\ i \in 0..pops /\ i \in Int
      BY <1>1
    <3>2. r \in Rounds(e) /\ Ok(r, i - 1)
      BY <2>3, <3>1
    <3>3. h[i] = s
      BY <1>4
    <3> HIDE DEF r
    <3>4. s \in Rounds(e)
      BY <3>2, RoundIn
    <3>5. CASE r.done
      <4>1. s = r
        BY <3>5 DEF PopStep
      <4>2. Ok(s, i)
        BY <3>2, <3>5, <4>1
      <4> HIDE DEF Ok, s
      <4>3. QED BY <3>1, <3>3, <3>4, <4>2
    <3>6. CASE ~r.done
      <4>1. Quiet(e, x) /\ r = [edit |-> x, done |-> FALSE]
        BY <3>2, <3>6 DEF Rounds
      <4>2. Searching(x, log, m, pops - (i - 1))
        BY <3>2, <3>6
      <4> HIDE DEF x
      <4>3. Formed(x) /\ Right(x) /\ x.push_action_disabled
        BY <4>1 DEF Quiet
      <4>4. /\ s.done => Undone(f, log, m)
            /\ ~s.done => /\ Placed(f) /\ Shape(f) /\ Depth(f) > 0 /\ Fits(f, View(f, log), m)
                          /\ Cardinality(Held(f)) < Cardinality(Held(x))
        BY <4>1, <4>2, <4>3, RoundFits DEF Searching
      <4>5. Formed(f)
        BY <3>4 DEF Rounds, Quiet
      <4> HIDE DEF s, f
      <4>6. Cardinality(Held(f)) \in Nat /\ Cardinality(Held(x)) \in Nat
        BY <4>3, <4>5, HeldFinite
      <4>7. ~s.done => Cardinality(Held(f)) <= pops - i
        BY <1>1, <3>1, <4>2, <4>4, <4>6 DEF Searching
      <4>8. ~s.done => Searching(f, log, m, pops - i)
        BY <4>4, <4>7 DEF Searching
      <4>9. Ok(s, i)
        BY <3>4, <4>4, <4>8 DEF f
      <4> HIDE DEF Ok
      <4>10. QED BY <3>1, <3>3, <3>4, <4>9
    <3>7. QED BY <3>5, <3>6
  <2> HIDE DEF T
  <2>4. \A i \in 0..pops : h[i] \in T[i]
    BY <1>1, <2>2, <2>3, Stepwise
  <2> DEFINE r == h[pops]
             f == r.edit
  <2>5. pops \in 0..pops /\ pops - pops = 0
    BY <1>1
  <2>6. Ok(r, pops)
    BY <2>4, <2>5 DEF T
  <2> HIDE DEF r
  <2>7. r.done
    <3>1. SUFFICES ASSUME ~r.done PROVE FALSE
      OBVIOUS
    <3>2. Searching(f, log, m, 0)
      BY <2>5, <2>6, <3>1
    <3>3. Formed(f)
      BY <2>6 DEF Rounds, Quiet
    <3> HIDE DEF f, Ok
    <3>4. Depth(f) \in Nat
      BY <3>3, Places
    <3> DEFINE d == Depth(f)
               q == [j \in 0..Depth(f) - 1 |-> Item(f, j)]
               v == View(f, log)
    <3>5. Fit(d, q, v, m) /\ d > 0 /\ q[0] = Item(f, 0)
      BY <3>2, <3>4 DEF Fits, Searching
    <3> HIDE DEF d, q, v
    <3>6. IsKey(q[0])
      BY <3>4, <3>5, FitIs DEF d
    <3>7. Cardinality(Held(f)) > 0
      BY <3>2, <3>3, <3>5, <3>6, HeldSome DEF Searching
    <3>8. QED BY <3>2, <3>3, <3>7, HeldFinite DEF Searching
  <2>8. Undone(f, log, m)
    BY <2>6, <2>7
  <2>9. QED BY <1>4, <2>1, <2>8 DEF r
<1>7. QED BY <1>5, <1>6

\* What that keeps.
LEMMA AlikeIs ==
    ASSUME NEW e, Formed(e), NEW f, Alike(e, f)
    PROVE  /\ Sound(e) => Sound(f)
           /\ Right(e) => Right(f)
           /\ Placed(e) => Placed(f)
           /\ OnScreen(e) => OnScreen(f)
           /\ Seen(f) = Seen(e)
           /\ \A log : View(f, log) = View(e, log)
<1>1. SameText(e, f) /\ SameScreen(e, f) /\ SameRing(e, f) /\ Formed(f)
  BY DEF Alike
<1>2. Text(f) = Text(e) /\ Cursor(f) = Cursor(e) /\ LastByte(f) = LastByte(e)
  BY <1>1 DEF SameText, Text, Cursor, LastByte
<1>3. Right(e) => Right(f)
  BY <1>1, <1>2 DEF Right, SameText
<1>4. Placed(e) => Placed(f)
  BY <1>1, <1>2 DEF Placed, SameScreen
<1>5. OnScreen(e) => OnScreen(f)
  BY <1>1 DEF OnScreen, CursorRow, SameText, SameScreen
<1>6. Seen(f) = Seen(e)
  BY <1>1, <1>2 DEF Seen, SameScreen
<1>7. \A log : View(f, log) = View(e, log)
  BY <1>1 DEF View, SameText
<1>8. Sound(e) => Sound(f)
  BY <1>1, <1>3 DEF Sound, SameRing
<1>9. QED BY <1>3, <1>4, <1>5, <1>6, <1>7, <1>8

\* The column that is kept.
LEMMA ColumnAlike ==
    ASSUME NEW e, Formed(e)
    PROVE  Alike(e, KeepColumn(e))
<1> DEFINE p == edit_get_col(e)
<1>1. Cursor(e) \in Int /\ edit_bol(e, Cursor(e)) \in Int
  BY OffsetsIn, BolIs
<1>2. p \in Int
  BY <1>1 DEF edit_get_col
<1>3. KeepColumn(e) = [e EXCEPT !.prev_col = p]
  BY DEF KeepColumn
<1> HIDE DEF p
<1>4. e \in Edits /\ Ring(e)
  BY DEF Formed
<1> DEFINE f == [e EXCEPT !.prev_col = p]
<1>5. f \in Edits
  BY <1>2, <1>4 DEF Edits
<1>6. SameRing(e, f) /\ SameText(e, f) /\ SameScreen(e, f)
  BY <1>4 DEF Edits, SameRing, SameText, SameScreen
<1>7. Ring(f)
  BY <1>4, <1>6 DEF Ring, SameRing
<1>8. Alike(e, f)
  BY <1>5, <1>6, <1>7 DEF Alike, Formed
<1>9. QED BY <1>3, <1>8

\* The mode that is kept.
LEMMA HighlightAlike ==
    ASSUME NEW e, Formed(e), NEW h \in BOOLEAN
    PROVE  Alike(e, [e EXCEPT !.highlight = h])
<1>1. e \in Edits /\ Ring(e)
  BY DEF Formed
<1> DEFINE f == [e EXCEPT !.highlight = h]
<1>2. f \in Edits
  BY <1>1 DEF Edits
<1>3. SameRing(e, f) /\ SameText(e, f) /\ SameScreen(e, f)
  BY <1>1 DEF Edits, SameRing, SameText, SameScreen
<1>4. Ring(f)
  BY <1>1, <1>3 DEF Ring, SameRing
<1>5. QED BY <1>2, <1>3, <1>4 DEF Alike, Formed

\* Switching the recording of undo actions on or off disturbs nothing else.
LEMMA SwitchIs ==
    ASSUME NEW e, Formed(e), NEW b \in BOOLEAN
    PROVE  Switched(e, Switch(e, b), b)
<1> DEFINE f == Switch(e, b)
<1>1. e \in Edits /\ Ring(e)
  BY DEF Formed
<1>2. f \in Edits
  BY <1>1 DEF Edits, Switch
<1>3. /\ f.undo_stack = e.undo_stack /\ f.stack_size = e.stack_size
      /\ f.stack_pointer = e.stack_pointer /\ f.stack_bottom = e.stack_bottom
      /\ f.misled = e.misled /\ f.push_action_disabled = b
  BY <1>1 DEF Edits, Switch
<1>4. SameText(e, f) /\ SameScreen(e, f)
  BY <1>1 DEF Edits, Switch, SameText, SameScreen
<1> HIDE DEF f
<1>5. Formed(f)
  BY <1>1, <1>2, <1>3 DEF Formed, Ring
<1>6. \A j : Slot(f, j) = Slot(e, j)
  BY <1>3 DEF Slot
<1>7. Depth(f) = Depth(e)
  BY <1>3, <1>6 DEF Depth
<1>8. \A j : Item(f, j) = Item(e, j)
  BY <1>3, <1>6 DEF Item, At
<1>9. \A v, m : Fits(e, v, m) => Fits(f, v, m)
  BY <1>7, <1>8 DEF Fits
<1>10. Shape(e) => Shape(f)
  BY <1>3, <1>7 DEF Shape
<1>11. QED BY <1>3, <1>4, <1>5, <1>7, <1>9, <1>10 DEF Switched, f

\* What that keeps.
LEMMA SwitchedIs ==
    ASSUME NEW e, Formed(e), NEW f, NEW b, Switched(e, f, b)
    PROVE  /\ Right(e) => Right(f)
           /\ Placed(e) => Placed(f)
           /\ OnScreen(e) => OnScreen(f)
           /\ Seen(f) = Seen(e)
           /\ \A log : View(f, log) = View(e, log)
<1>1. SameText(e, f) /\ SameScreen(e, f)
  BY DEF Switched
<1>2. Text(f) = Text(e) /\ Cursor(f) = Cursor(e) /\ LastByte(f) = LastByte(e)
  BY <1>1 DEF SameText, Text, Cursor, LastByte
<1>3. Right(e) => Right(f)
  BY <1>1, <1>2 DEF Right, SameText
<1>4. Placed(e) => Placed(f)
  BY <1>1, <1>2 DEF Placed, SameScreen
<1>5. OnScreen(e) => OnScreen(f)
  BY <1>1 DEF OnScreen, CursorRow, SameText, SameScreen
<1>6. Seen(f) = Seen(e)
  BY <1>1, <1>2 DEF Seen, SameScreen
<1>7. \A log : View(f, log) = View(e, log)
  BY <1>1 DEF View, SameText
<1>8. QED BY <1>3, <1>4, <1>5, <1>6, <1>7

\* Undo shows what the log remembers last, or finds an empty ring.
LEMMA UndoIs ==
    ASSUME NEW e, Sound(e)
    PROVE  LET f == edit_do_undo(e)
           IN  /\ Sound(f) /\ f.misled = e.misled
               /\ \A log \in Seq(AllSeen) : \A m :
                     Placed(e) /\ Shape(e) /\ Fits(e, View(e, log), m) =>
                        /\ Depth(e) = 0 => f = e
                        /\ Depth(e) > 0 => log # <<>> /\ Undone(f, log, m)
<1> DEFINE on == TRUE
           off == FALSE
           a == Switch(e, on)
           b == PopKey(a)
           f == Switch(b, off)
<1>1. edit_do_undo(e) = f
  BY DEF edit_do_undo, Switch
<1>2. on \in BOOLEAN /\ off \in BOOLEAN /\ on /\ ~off
  OBVIOUS
<1>3. Formed(e) /\ Right(e) /\ ~e.push_action_disabled /\ e \in Edits
  BY DEF Sound, Formed
<1>4. e.push_action_disabled \in BOOLEAN
  BY <1>3 DEF Edits
<1>5. Switch(a, off) = e
  BY <1>3, <1>4 DEF Switch, Edits
<1> HIDE DEF on, off
<1>6. Switched(e, a, on)
  BY <1>2, <1>3, SwitchIs
<1>7. /\ Formed(a) /\ Right(a) /\ a.push_action_disabled /\ a.misled = e.misled
      /\ Depth(a) = Depth(e)
  BY <1>2, <1>3, <1>6, SwitchedIs DEF Switched
<1> HIDE DEF a
<1>8. Quiet(a, b)
  BY <1>7, PopKeyQuiet
<1>9. b = PopKey(a)
  OBVIOUS
<1> HIDE DEF b
<1>10. Formed(b) /\ Right(b) /\ b.misled = a.misled
  BY <1>8 DEF Quiet
<1>11. Switched(b, f, off)
  BY <1>2, <1>10, SwitchIs
<1>12. Formed(f) /\ Right(f) /\ ~f.push_action_disabled /\ f.misled = e.misled
  BY <1>2, <1>7, <1>10, <1>11, SwitchedIs DEF Switched
<1>13. Sound(f)
  BY <1>12 DEF Sound
<1>14. ASSUME NEW log \in Seq(AllSeen), NEW m,
              Placed(e), Shape(e), Fits(e, View(e, log), m)
       PROVE  /\ Depth(e) = 0 => f = e
              /\ Depth(e) > 0 => log # <<>> /\ Undone(f, log, m)
  <2>1. Placed(a) /\ View(a, log) = View(e, log)
    BY <1>3, <1>6, <1>14, SwitchedIs
  <2>2. Shape(a) /\ Fits(a, View(a, log), m)
    BY <1>6, <1>14, <2>1 DEF Switched
  <2>3. /\ Depth(a) = 0 => b = a
        /\ Depth(a) > 0 => log # <<>> /\ Undone(b, log, m)
    BY <1>7, <1>9, <2>1, <2>2, PopKeyFits
  <2>4. Depth(e) = 0 => f = e
    BY <1>5, <1>7, <2>3
  <2>5. ASSUME Undone(b, log, m) PROVE Undone(f, log, m)
    <3> DEFINE rest == Front(log)
    <3>1. /\ Placed(b) /\ Shape(b) /\ OnScreen(b) /\ Seen(b) = Last(log)
          /\ Fits(b, View(b, rest), m)
      BY <2>5 DEF Undone
    <3>2. /\ Placed(f) /\ OnScreen(f) /\ Seen(f) = Last(log) /\ View(f, rest) = View(b, rest)
      BY <1>10, <1>11, <3>1, SwitchedIs
    <3>3. Shape(f) /\ Fits(f, View(f, rest), m)
      BY <1>11, <3>1, <3>2 DEF Switched
    <3>4. QED BY <3>2, <3>3 DEF Undone
  <2>6. QED BY <1>7, <2>3, <2>4, <2>5
<1>15. QED BY <1>1, <1>12, <1>13, <1>14

\* What the same screen means.
LEMMA ShowsIs ==
    ASSUME NEW e, NEW f, Shows(e, f)
    PROVE  Seen(f) = Seen(e) /\ (OnScreen(e) => OnScreen(f))
<1>1. Text(f) = Text(e) /\ Cursor(f) = Cursor(e)
  BY DEF Shows, SameText, Text, Cursor
<1>2. QED BY <1>1 DEF Shows, Seen, OnScreen, CursorRow, SameText

\* A mark is set.
LEMMA MarkShows ==
    ASSUME NEW e, Sound(e)
    PROVE  Shows(e, edit_mark_cmd(e, FALSE))
<1> DEFINE p == edit_push_markers(e)
           f == SetMark(p, FALSE)
<1>1. edit_mark_cmd(e, FALSE) = f
  BY DEF edit_mark_cmd
<1>2. Formed(p) /\ Pushed(e, p)
  BY MarkersFollow DEF Follows, Sound
<1> HIDE DEF p
<1>3. Cursor(p) \in Int /\ p.mark1 \in Int /\ Following \in Int
  BY <1>2, OffsetsIn DEF Formed, Edits, Following
<1>4. \E m, n \in Int : f = edit_set_markers(p, m, n)
  BY <1>3 DEF SetMark
<1> HIDE DEF f
<1>5. PICK m \in Int, n \in Int : f = edit_set_markers(p, m, n)
  BY <1>4
<1>6. /\ Formed(f) /\ SameText(p, f)
      /\ f.start_display = p.start_display /\ f.start_line = p.start_line
  BY <1>2, <1>5, MarksIs
<1>7. Shows(e, f)
  BY <1>2, <1>6 DEF Shows, Pushed, SameText, SameScreen
<1>8. QED BY <1>1, <1>7

\* The marking that undo ends.
LEMMA HighlightShows ==
    ASSUME NEW e, Sound(e)
    PROVE  Shows(e, Highlighting(e, "Undo"))
<1> DEFINE u == FALSE
           ended == edit_mark_cmd(e, FALSE)
<1>1. Shows(e, ended)
  BY MarkShows
<1>2. Shows(e, e) /\ u \in BOOLEAN
  BY DEF Shows, SameText, Sound
<1>3. \E g \in {e, ended} : Highlighting(e, "Undo") = [g EXCEPT !.highlight = u]
  BY DEF Highlighting, Highlights
<1> HIDE DEF u, ended
<1>4. PICK g \in {e, ended} : Highlighting(e, "Undo") = [g EXCEPT !.highlight = u]
  BY <1>3
<1>5. Shows(e, g)
  BY <1>1, <1>2
<1> DEFINE f == [g EXCEPT !.highlight = u]
<1>6. Alike(g, f)
  BY <1>2, <1>5, HighlightAlike DEF Shows
<1> HIDE DEF f
<1>7. Shows(e, f)
  BY <1>5, <1>6 DEF Shows, Alike, SameText, SameScreen
<1>8. QED BY <1>4, <1>7 DEF f

\* The key that undoes.
LEMMA UndoKeyUndid ==
    ASSUME NEW e, Sound(e), OnScreen(e)
    PROVE  Undid(e, UndoKey(e)) /\ OnScreen(UndoKey(e))
<1> DEFINE h == Highlighting(e, "Undo")
           u == edit_do_undo(h)
           g == KeepColumn(u)
           f == edit_scroll_screen_over_cursor(g)
<1>1. UndoKey(e) = f
  BY DEF UndoKey
<1>2. Follows(e, h) /\ Shows(e, h)
  BY HighlightingFollows, HighlightShows
<1>3. u = edit_do_undo(h)
  OBVIOUS
<1> HIDE DEF h, u
<1>4. Sound(h) /\ (e.misled => h.misled) /\ Seen(h) = Seen(e) /\ OnScreen(h)
  BY <1>2, ShowsIs DEF Follows
<1>5. Sound(u) /\ u.misled = h.misled
  BY <1>3, <1>4, UndoIs
<1>6. Formed(u)
  BY <1>5 DEF Sound
<1>7. Alike(u, g)
  BY <1>6, ColumnAlike
<1> HIDE DEF g
<1>8. Sound(g) /\ g.misled = u.misled /\ (OnScreen(u) => OnScreen(g)) /\ Seen(g) = Seen(u)
  BY <1>5, <1>6, <1>7, AlikeIs DEF Alike, SameRing
<1>9. Sound(f) /\ OnScreen(f)
  BY <1>8, ShownIs
<1>10. Scrolled(g, f) /\ (OnScreen(g) => f = g)
  BY <1>8, OverCursorIs DEF Sound, OnScreen
<1> HIDE DEF f
<1>11. f.misled = h.misled
  BY <1>5, <1>8, <1>10 DEF Scrolled, SameRing
<1>12. ASSUME NEW log \in Seq(AllSeen), NEW n \in Nat, Good(e, log, n), ~f.misled
       PROVE  \/ Seen(f) = Seen(e) /\ Depth(f) = 0 /\ Good(f, log, n)
              \/ log # <<>> /\ Seen(f) = Last(log) /\ Good(f, Front(log), n)
  <2>1. Good(h, log, n)
    BY <1>2, <1>11, <1>12 DEF Follows
  <2>2. PICK m \in Nat : n <= m /\ Fits(h, View(h, log), m)
    BY <2>1 DEF Good
  <2>3. Placed(h) /\ Shape(h)
    BY <2>1 DEF Good
  <2>4. /\ Depth(h) = 0 => u = h
        /\ Depth(h) > 0 => log # <<>> /\ Undone(u, log, m)
    BY <1>3, <1>4, <2>2, <2>3, UndoIs
  <2>5. Depth(h) \in Nat
    BY <1>4, Places DEF Sound
  <2>6. CASE Depth(h) = 0
    <3>1. u = h
      BY <2>4, <2>6
    <3>2. f = g
      BY <1>4, <1>8, <1>10, <3>1
    <3>3. SameRing(u, f) /\ Alike(u, f)
      BY <1>7, <3>2 DEF Alike
    <3>4. Depth(f) = Depth(u) /\ Shape(f) /\ (\A v, k : Fits(f, v, k) <=> Fits(u, v, k))
      BY <2>3, <3>1, <3>3, SameFits
    <3>5. Placed(f) /\ Seen(f) = Seen(u) /\ View(f, log) = View(u, log)
      BY <1>6, <2>3, <3>1, <3>3, AlikeIs
    <3>6. Good(f, log, n)
      BY <2>2, <3>1, <3>4, <3>5 DEF Good
    <3>7. QED BY <1>4, <2>6, <3>1, <3>4, <3>5, <3>6
  <2>7. CASE Depth(h) > 0
    <3> DEFINE rest == Front(log)
    <3>1. log # <<>> /\ Undone(u, log, m)
      BY <2>4, <2>7
    <3>2. /\ Placed(u) /\ Shape(u) /\ OnScreen(u) /\ Seen(u) = Last(log)
          /\ Fits(u, View(u, rest), m)
      BY <3>1 DEF Undone
    <3> HIDE DEF rest
    <3>3. f = g
      BY <1>8, <1>10, <3>2
    <3>4. SameRing(u, f) /\ Alike(u, f)
      BY <1>7, <3>3 DEF Alike
    <3>5. Shape(f) /\ (\A v, k : Fits(f, v, k) <=> Fits(u, v, k))
      BY <3>2, <3>4, SameFits
    <3>6. Placed(f) /\ Seen(f) = Seen(u) /\ View(f, rest) = View(u, rest)
      BY <1>6, <3>2, <3>4, AlikeIs
    <3>7. Good(f, rest, n)
      BY <2>2, <3>2, <3>5, <3>6 DEF Good
    <3>8. QED BY <3>1, <3>2, <3>6, <3>7 DEF rest
  <2>8. QED BY <2>5, <2>6, <2>7
<1>13. Undid(e, f)
  BY <1>4, <1>9, <1>11, <1>12 DEF Undid
<1>14. QED BY <1>1, <1>9, <1>13

-----------------------------------------------------------------------------
(* The specification.                                                      *)

\* What that keeps.
LEMMA FreshIs ==
    ASSUME NEW e, Sound(e)
    PROVE  LET f == Fresh(e)
           IN  /\ Sound(f) /\ f.misled = e.misled /\ (OnScreen(e) => OnScreen(f))
               /\ Seen(f) = Seen(e) /\ Depth(f) = Depth(e)
               /\ \A log, m : Fits(e, View(e, log), m) => Fits(f, View(f, log), m)
               /\ \A log, n : Good(e, log, n) => Good(f, log, n)
<1> DEFINE f == Fresh(e)
<1>1. e \in Edits /\ Ring(e) /\ Formed(e) /\ Right(e) /\ ~e.push_action_disabled
  BY DEF Sound, Formed
<1>2. f \in Edits
  BY <1>1 DEF Edits, Fresh
<1>3. /\ f.undo_stack = e.undo_stack /\ f.stack_size = e.stack_size
      /\ f.stack_pointer = e.stack_pointer /\ f.stack_bottom = e.stack_bottom
      /\ f.misled = e.misled /\ f.push_action_disabled = e.push_action_disabled
  BY <1>1 DEF Edits, Fresh
<1>4. SameText(e, f) /\ SameScreen(e, f)
  BY <1>1 DEF Edits, Fresh, SameText, SameScreen
<1> HIDE DEF f
<1>5. Formed(f)
  BY <1>1, <1>2, <1>3 DEF Formed, Ring
<1>6. \A j : Slot(f, j) = Slot(e, j)
  BY <1>3 DEF Slot
<1>7. Depth(f) = Depth(e)
  BY <1>3, <1>6 DEF Depth
<1>8. \A j : Item(f, j) = Item(e, j)
  BY <1>3, <1>6 DEF Item, At
<1>9. \A v, m : Fits(e, v, m) => Fits(f, v, m)
  BY <1>7, <1>8 DEF Fits
<1>10. Shape(e) => Shape(f)
  BY <1>3, <1>7 DEF Shape
<1> DEFINE b == e.push_action_disabled
<1>11. Switched(e, f, b)
  BY <1>3, <1>4, <1>5, <1>7, <1>9, <1>10 DEF Switched
<1> HIDE DEF b
<1>12. /\ Right(f) /\ (Placed(e) => Placed(f)) /\ (OnScreen(e) => OnScreen(f))
       /\ Seen(f) = Seen(e) /\ \A log : View(f, log) = View(e, log)
  BY <1>1, <1>11, SwitchedIs
<1>13. Sound(f)
  BY <1>1, <1>3, <1>5, <1>12 DEF Sound
<1>14. \A log, m : Fits(e, View(e, log), m) => Fits(f, View(f, log), m)
  BY <1>9, <1>12
<1>15. \A log, n : Good(e, log, n) => Good(f, log, n)
  BY <1>10, <1>12, <1>14 DEF Good
<1>16. QED BY <1>3, <1>7, <1>12, <1>13, <1>14, <1>15 DEF f

\* The text that is opened.
LEMMA LoadedIs ==
    ASSUME NEW text \in [1..2 -> Chars]
    PROVE  LET e == Loaded(text)
               none == <<>>
           IN  /\ Sound(e) /\ OnScreen(e) /\ Depth(e) = 0 /\ ~e.misled
               /\ Placed(e) /\ Shape(e) /\ Fits(e, View(e, none), 0)
<1> DEFINE e == Loaded(text)
           lines == Cardinality({i \in DOMAIN text : text[i] = NL})
<1>1. text \in Seq(Chars) /\ Len(text) = 2 /\ DOMAIN text = 1..2
  <2>1. DOMAIN text = 1..2 /\ 2 \in Nat
    OBVIOUS
  <2>2. text \in Seq(Chars)
    BY <2>1, SeqDef
  <2>3. QED BY <2>1, <2>2, LenProperties
<1>2. /\ StartStack \in Nat /\ StartStack >= 5 /\ 0 \in 0..Lines - 1
  BY Bounds
<1>3. Text(e) = text /\ Cursor(e) = 0 /\ LastByte(e) = 2
  <2>1. e.before = <<>> /\ e.after = text
    BY DEF Loaded
  <2>2. Text(e) = text
    BY <1>1, <2>1 DEF Text
  <2>3. QED BY <1>1, <2>1, <2>2 DEF Cursor, LastByte
<1>4. lines = Feeds(text, 2) /\ lines \in Nat /\ Feeds(text, 0) = 0
  <2> DEFINE none == 0
             one == 1
             two == 2
  <2>1. /\ none \in Nat /\ one \in Int /\ one \in Nat /\ two \in Int /\ none + 1 = one
        /\ one + 1 = 2 /\ none = 0 /\ one = 1 /\ two = 2
    OBVIOUS
  <2> HIDE DEF none, one, two
  <2>2. /\ Feeds(text, none) = 0
        /\ Feeds(text, one) = Feeds(text, none) + OneLine(text[one])
        /\ Feeds(text, 2) = Feeds(text, one) + OneLine(text[2])
    BY <2>1, FeedsStep
  <2>3. Feeds(text, 2) = OneLine(text[1]) + OneLine(text[2])
    BY <2>1, <2>2 DEF OneLine, One
  <2> DEFINE S == {i \in DOMAIN text : text[i] = NL}
  <2>4. lines = Cardinality(S) /\ \A i : i \in S <=> i \in {1, 2} /\ text[i] = NL
    BY <1>1
  <2> HIDE DEF S, lines
  <2>5. CASE text[1] = NL /\ text[2] = NL
    <3>1. S = one..two
      BY <2>1, <2>4, <2>5
    <3>2. Cardinality(one..two) = IF one > two THEN 0 ELSE two - one + 1
      BY <2>1, FS_Interval
    <3>3. lines = 2
      BY <2>1, <2>4, <3>1, <3>2
    <3>4. QED BY <2>1, <2>2, <2>3, <2>5, <3>3 DEF OneLine, One
  <2>6. CASE text[1] = NL /\ text[2] # NL
    <3>1. S = {1}
      BY <2>4, <2>6
    <3>2. lines = 1
      BY <2>4, <3>1, FS_Singleton
    <3>3. QED BY <2>1, <2>2, <2>3, <2>6, <3>2 DEF OneLine, One
  <2>7. CASE text[1] # NL /\ text[2] = NL
    <3>1. S = {2}
      BY <2>4, <2>7
    <3>2. lines = 1
      BY <2>4, <3>1, FS_Singleton
    <3>3. QED BY <2>1, <2>2, <2>3, <2>7, <3>2 DEF OneLine, One
  <2>8. CASE text[1] # NL /\ text[2] # NL
    <3>1. S = {}
      BY <2>4, <2>8
    <3>2. lines = 0
      BY <2>4, <3>1, FS_EmptySet
    <3>3. QED BY <2>1, <2>2, <2>3, <2>8, <3>2 DEF OneLine, One
  <2>9. QED BY <2>5, <2>6, <2>7, <2>8
<1>5. e.curs_line = 0 /\ e.total_lines = lines
  BY DEF Loaded
<1> HIDE DEF lines
<1>6. Right(e)
  BY <1>3, <1>4, <1>5 DEF Right
<1>7. NoEntry \in Entries
  BY DEF NoEntry, Entry, Entries, Ops
<1>8. e.undo_stack \in [0..StartStack - 1 -> Entries] /\ e.undo_stack \in Stacks
  <2>1. e.undo_stack \in [0..StartStack - 1 -> Entries]
    BY <1>7 DEF Loaded
  <2>2. QED BY <1>2, <2>1 DEF Stacks
<1>9. e \in Edits
  <2>1. e.undo_stack = [i \in 0..StartStack - 1 |-> NoEntry]
    BY DEF Loaded
  <2>2. [i \in 0..StartStack - 1 |-> NoEntry] \in Stacks
    BY <1>8, <2>1
  <2>3. <<>> \in Seq(Chars) /\ text \in Seq(Chars) /\ StartStack \in Nat
    BY <1>1, <1>2
  <2>4. lines \in Int
    BY <1>4
  <2>5. QED BY <2>2, <2>3, <2>4 DEF Loaded, Edits, lines
<1>10. /\ e.stack_size = StartStack /\ e.stack_pointer = 0 /\ e.stack_bottom = 0
       /\ e.start_display = 0 /\ e.start_line = 0 /\ e.mark1 = 0 /\ e.mark2 = 0
       /\ ~e.push_action_disabled /\ ~e.misled
  BY DEF Loaded
<1> HIDE DEF e
<1>11. Formed(e)
  BY <1>2, <1>8, <1>9, <1>10 DEF Formed, Ring
<1>12. Sound(e)
  BY <1>6, <1>10, <1>11 DEF Sound
<1>13. OnScreen(e)
  BY <1>2, <1>5, <1>10 DEF OnScreen, CursorRow
<1>14. Depth(e) = 0
  BY <1>10, <1>11, Places DEF IsEmpty
<1>15. Placed(e)
  BY <1>3, <1>4, <1>10 DEF Placed, Following
<1>16. Shape(e)
  BY <1>2, <1>10, <1>11, <1>14, Places DEF Shape
<1>17. Fits(e, View(e, <<>>), 0)
  <2> DEFINE none == <<>>
             v == View(e, none)
             d == Depth(e)
             q == [j \in 0..Depth(e) - 1 |-> Item(e, j)]
  <2>1. none \in Seq(AllSeen) /\ Len(none) = 0
    OBVIOUS
  <2> HIDE DEF none
  <2>2. v \in Views /\ Len(v.past) = 0
    BY <1>11, <2>1, ViewOf
  <2> HIDE DEF v
  <2> DEFINE z == 0
  <2>3. Fit(0, q, v, z)
    BY <2>2, FitEmpty
  <2>4. Fits(e, v, z)
    BY <1>14, <2>3 DEF Fits
  <2>5. QED BY <2>4 DEF v, none
<1>18. QED BY <1>10, <1>12, <1>13, <1>14, <1>15, <1>16, <1>17 DEF e

\* A key of the editor.
LEMMA NextIs ==
    ASSUME Sound(edit), OnScreen(edit), Next
    PROVE  \E e : /\ Press(e) /\ Sound(e) /\ OnScreen(e)
                  /\ Recorded(edit, e) \/ Undid(edit, e)
<1>1. CASE Type
  <2>1. PICK c \in Chars : Press(TypeKey(edit, c))
    BY <1>1 DEF Type
  <2>2. Recorded(edit, TypeKey(edit, c)) /\ OnScreen(TypeKey(edit, c))
    BY TypeKeyRecorded
  <2>3. QED BY <2>1, <2>2 DEF Recorded
<1>2. CASE Execute
  <2>1. PICK command \in Commands, agrees \in {TRUE, ~Asked(edit)} :
            Press(CommandKey(edit, command, agrees))
    BY <1>2 DEF Execute
  <2>2. command \in EditCommands /\ agrees \in BOOLEAN
    BY <2>1, EditorAssumption
  <2>3. /\ Recorded(edit, CommandKey(edit, command, agrees))
        /\ OnScreen(CommandKey(edit, command, agrees))
    BY <2>2, CommandKeyRecorded
  <2>4. QED BY <2>1, <2>3 DEF Recorded
<1>3. CASE Undo
  <2>1. Press(UndoKey(edit))
    BY <1>3 DEF Undo
  <2>2. Undid(edit, UndoKey(edit)) /\ OnScreen(UndoKey(edit))
    BY UndoKeyUndid
  <2>3. QED BY <2>1, <2>2 DEF Undid
<1>4. QED BY <1>1, <1>2, <1>3 DEF Next

\* It holds at first.
LEMMA InvariantInit ==
    Init => Invariant
<1>1. SUFFICES ASSUME Init PROVE Invariant
  OBVIOUS
<1>2. PICK text \in [1..2 -> Chars] : edit = Loaded(text)
  BY <1>1 DEF Init
<1> DEFINE none == <<>>
           z == 0
<1>3. /\ Sound(edit) /\ OnScreen(edit)
      /\ Placed(edit) /\ Shape(edit) /\ Fits(edit, View(edit, none), z)
  BY <1>2, LoadedIs
<1>4. none \in Seq(AllSeen) /\ z \in Nat /\ z <= z
  OBVIOUS
<1> HIDE DEF none, z
<1>5. Good(edit, none, z)
  BY <1>3, <1>4 DEF Good
<1>6. keys \in 0..MaxKeys
  BY <1>1, Bounds DEF Init
<1>7. QED BY <1>3, <1>4, <1>5, <1>6 DEF Invariant, Steady, Remembers, z

\* A key keeps the log or changes it at its end.
LEMMA RemembersAfter ==
    ASSUME NEW e, NEW f, Recorded(e, f) \/ Undid(e, f), Remembers(e), ~f.misled
    PROVE  Remembers(f)
<1> DEFINE z == 0
<1>1. PICK log \in Seq(AllSeen) : Good(e, log, z)
  BY DEF Remembers
<1>2. z \in Nat
  OBVIOUS
<1> HIDE DEF z
<1>3. CASE Recorded(e, f)
  <2>1. \/ Seen(e) \in AllSeen /\ Good(f, Append(log, Seen(e)), z)
        \/ Good(f, log, z)
    BY <1>1, <1>2, <1>3 DEF Recorded
  <2>2. Seen(e) \in AllSeen => Append(log, Seen(e)) \in Seq(AllSeen)
    BY AppendProperties
  <2>3. QED BY <2>1, <2>2 DEF Remembers, z
<1>4. CASE Undid(e, f)
  <2>1. \/ Good(f, log, z)
        \/ log # <<>> /\ Good(f, Front(log), z)
    BY <1>1, <1>2, <1>4 DEF Undid
  <2>2. log # <<>> => Front(log) \in Seq(AllSeen)
    BY FrontIs
  <2>3. QED BY <2>1, <2>2 DEF Remembers, z
<1>5. QED BY <1>3, <1>4

\* Every key keeps it.
LEMMA InvariantStep ==
    Invariant /\ [Next]_vars => Invariant'
<1>1. SUFFICES ASSUME Invariant, [Next]_vars PROVE Invariant'
  OBVIOUS
<1>2. Sound(edit) /\ OnScreen(edit) /\ keys \in 0..MaxKeys
  BY <1>1 DEF Invariant, Steady
<1>3. CASE Next
  <2>1. PICK e : /\ Press(e) /\ Sound(e) /\ OnScreen(e)
                 /\ Recorded(edit, e) \/ Undid(edit, e)
    BY <1>2, <1>3, NextIs
  <2>2. edit' = Fresh(e) /\ keys' = keys + 1 /\ keys < MaxKeys
    BY <2>1 DEF Press, Fresh
  <2> DEFINE f == Fresh(e)
  <2>3. /\ Sound(f) /\ f.misled = e.misled /\ OnScreen(f)
        /\ \A log, n : Good(e, log, n) => Good(f, log, n)
    BY <2>1, FreshIs
  <2> HIDE DEF f
  <2>4. keys' \in 0..MaxKeys
    BY <1>2, <2>2, Bounds
  <2>5. f.misled \/ Remembers(f)
    <3>1. SUFFICES ASSUME ~f.misled PROVE Remembers(f)
      OBVIOUS
    <3>2. ~e.misled
      BY <2>3, <3>1
    <3>3. ~edit.misled
      BY <2>1, <3>2 DEF Recorded, Undid
    <3>4. Remembers(edit)
      BY <1>1, <3>3 DEF Invariant
    <3>5. Remembers(e)
      BY <2>1, <3>2, <3>4, RemembersAfter
    <3>6. QED BY <2>3, <3>5 DEF Remembers
  <2>6. edit' = f
    BY <2>2 DEF f
  <2>7. Sound(edit') /\ OnScreen(edit') /\ (edit'.misled \/ Remembers(edit'))
    BY <2>3, <2>5, <2>6
  <2>8. QED BY <2>4, <2>7 DEF Invariant, Steady
<1>4. CASE UNCHANGED vars
  <2>1. edit' = edit /\ keys' = keys
    BY <1>4 DEF vars
  <2>2. QED BY <1>1, <2>1 DEF Invariant, Steady
<1>5. QED BY <1>1, <1>3, <1>4

\* The invariant always holds.
THEOREM InvariantAlways == Spec => []Invariant
  BY InvariantInit, InvariantStep, PTL DEF Spec

\* After every key the cursor is on the screen (edit_scroll_screen_over_cursor at
\* the end of edit_execute_cmd), whatever the ring did to the text.
THEOREM CursorAlwaysShown == Spec => []CursorIsShown
<1>1. Invariant => CursorIsShown
  BY DEF Invariant, Steady, OnScreen, CursorIsShown
<1>2. QED BY <1>1, InvariantAlways, PTL

\* The offsets stay inside the text and the counters of lines are right through
\* every command and every undo, unless a move annihilated an entry that was
\* left in the memory of an empty ring.
THEOREM ConsistentUnlessMisled == Spec => [](edit.misled \/ Consistent)
<1>1. Invariant => edit.misled \/ Consistent
  <2>1. SUFFICES ASSUME Invariant, ~edit.misled PROVE Consistent
    OBVIOUS
  <2>2. /\ Sound(edit) /\ Formed(edit) /\ Ring(edit) /\ Right(edit) /\ keys \in 0..MaxKeys
        /\ edit \in Edits
    BY <2>1 DEF Invariant, Steady, Sound, Formed
  <2>3. Placed(edit)
    BY <2>1 DEF Invariant, Remembers, Good
  <2>4. TypeOK
    <3>1. edit.before \in Seq(Chars) /\ edit.after \in Seq(Chars)
      BY <2>2, TextIs
    <3>2. DOMAIN edit.undo_stack = 0..edit.stack_size - 1
      BY <2>2 DEF Ring
    <3>3. QED BY <2>2, <2>3, <3>1, <3>2 DEF TypeOK, Placed, Ring
  <2>5. Counted
    <3> DEFINE z == 0
               t == Text(edit)
    <3>1. Feeds(t, z) = 0
      BY FeedsStep
    <3>2. z \in Int /\ z <= z /\ z = 0
      OBVIOUS
    <3> HIDE DEF z, t
    <3>3. /\ Cursor(edit) \in 0..LastByte(edit) /\ LastByte(edit) \in 0..LastByte(edit)
          /\ edit.start_display \in 0..LastByte(edit)
      <4>1. Cursor(edit) \in 0..LastByte(edit) /\ LastByte(edit) \in Nat
        BY <2>2, TextIs
      <4>2. edit.start_display \in 0..LastByte(edit)
        BY <2>3 DEF Placed
      <4>3. QED BY <4>1, <4>2
    <3>4. \A k \in Nat : Feeds(t, k) \in Nat
      BY FeedsStep
    <3>5. ASSUME NEW k \in 0..LastByte(edit) PROVE Newlines(edit, z, k) = Feeds(t, k)
      <4>1. k \in Int /\ z <= k /\ k <= LastByte(edit) /\ k \in Nat
        BY <2>2, <3>2, <3>5, TextIs
      <4>2. Newlines(edit, z, k) = Feeds(t, k) - Feeds(t, z)
        BY <2>2, <3>2, <4>1, NewlinesIs DEF t
      <4>3. Feeds(t, k) \in Nat
        BY <3>4, <4>1
      <4>4. QED BY <3>1, <4>2, <4>3
    <3>6. QED BY <2>2, <2>3, <3>3, <3>5 DEF Counted, Right, Placed, t, z
  <2>6. QED BY <2>4, <2>5 DEF Consistent
<1>2. QED BY <1>1, InvariantAlways, PTL

-----------------------------------------------------------------------------
(* What undo would show, key after key.                                    *)

\* Older and Newer are the two parts of a sequence cut at a place.
LEMMA PartsAre ==
    ASSUME NEW S, NEW s \in Seq(S), NEW n \in 0..Len(s)
    PROVE  Parts(S, s, n, Older(s, n), Newer(s, n))
<1>1. Len(s) \in Nat /\ n \in Nat /\ n <= Len(s) /\ \A i \in 1..Len(s) : s[i] \in S
  OBVIOUS
<1> DEFINE L == Len(s)
           one == 1
           k == n + 1
<1>2. L \in Int /\ one \in Int /\ n \in Int /\ k \in Int
  BY <1>1
<1>3. (\A i \in one..n : s[i] \in S) /\ (\A i \in k..L : s[i] \in S)
  BY <1>1
<1>4. /\ SubSeq(s, one, n) \in Seq(S)
      /\ Len(SubSeq(s, one, n)) = IF one <= n THEN n - one + 1 ELSE 0
      /\ \A i \in 1..n - one + 1 : SubSeq(s, one, n)[i] = s[one + i - 1]
  <2> HIDE DEF one
  <2>1. QED BY <1>2, <1>3, SubSeqProperties
<1>5. /\ SubSeq(s, k, L) \in Seq(S)
      /\ Len(SubSeq(s, k, L)) = IF k <= L THEN L - k + 1 ELSE 0
      /\ \A i \in 1..L - k + 1 : SubSeq(s, k, L)[i] = s[k + i - 1]
  <2> HIDE DEF k, L
  <2>1. QED BY <1>2, <1>3, SubSeqProperties
<1>6. Older(s, n) \in Seq(S) /\ Newer(s, n) \in Seq(S)
  BY <1>4, <1>5 DEF Older, Newer
<1>7. Len(Older(s, n)) = n /\ Len(Newer(s, n)) = Len(s) - n
  BY <1>1, <1>4, <1>5 DEF Older, Newer
<1>8. \A i \in 1..n : Older(s, n)[i] = s[i]
  BY <1>1, <1>4 DEF Older
<1>9. \A i \in 1..Len(s) - n : Newer(s, n)[i] = s[n + i]
  BY <1>1, <1>5 DEF Newer
<1>10. QED BY <1>6, <1>7, <1>8, <1>9 DEF Parts

\* The ends of the parts.
LEMMA PartsEnd ==
    ASSUME NEW S, NEW s \in Seq(S)
    PROVE  Older(s, Len(s)) = s /\ Newer(s, Len(s)) = <<>>
<1>1. Len(s) \in 0..Len(s)
  OBVIOUS
<1>2. PICK n \in 0..Len(s) : n = Len(s)
  BY <1>1
<1>3. /\ Older(s, n) \in Seq(S) /\ Len(Older(s, n)) = n
      /\ \A i \in 1..n : Older(s, n)[i] = s[i]
      /\ Newer(s, n) \in Seq(S) /\ Len(Newer(s, n)) = Len(s) - n
  BY PartsAre DEF Parts
<1>4. Older(s, n) = s
  <2> DEFINE o == Older(s, n)
  <2>1. o \in Seq(S) /\ Len(o) = Len(s) /\ \A i \in 1..Len(o) : o[i] = s[i]
    BY <1>2, <1>3
  <2> HIDE DEF o
  <2>2. o = s
    BY <2>1, SeqEqual
  <2>3. QED BY <2>2 DEF o
<1>5. Newer(s, n) = <<>>
  <2> DEFINE o == Newer(s, n)
  <2>1. o \in Seq(S) /\ Len(o) = 0
    BY <1>2, <1>3
  <2> HIDE DEF o
  <2>2. o = <<>>
    BY <2>1, EmptySeq
  <2>3. QED BY <2>2 DEF o
<1>6. QED BY <1>2, <1>4, <1>5

\* An entry goes from the one part to the other.
LEMMA PartsShift ==
    ASSUME NEW S, NEW s \in Seq(S), NEW n \in 1..Len(s)
    PROVE  /\ Older(s, n) # <<>> /\ Last(Older(s, n)) = s[n] /\ s[n] \in S
           /\ Front(Older(s, n)) = Older(s, n - 1)
           /\ <<s[n]>> \o Newer(s, n) = Newer(s, n - 1)
<1>1. /\ Len(s) \in Nat /\ n \in 0..Len(s) /\ n - 1 \in 0..Len(s) /\ n \in Nat /\ n > 0
      /\ s[n] \in S
  OBVIOUS
<1>2. PICK p \in 0..Len(s) : p = n - 1 /\ p \in Nat
  BY <1>1
<1> DEFINE o == Older(s, n)
           q == Older(s, p)
           r == Newer(s, n)
           t == Newer(s, p)
<1>3. Parts(S, s, n, o, r)
  BY <1>1, PartsAre
<1>4. Parts(S, s, p, q, t)
  BY <1>2, PartsAre
<1> HIDE DEF o, q, r, t
<1>5. /\ o \in Seq(S) /\ Len(o) = n /\ \A i \in 1..n : o[i] = s[i]
      /\ r \in Seq(S) /\ Len(r) = Len(s) - n /\ \A i \in 1..Len(s) - n : r[i] = s[n + i]
  BY <1>3 DEF Parts
<1>6. /\ q \in Seq(S) /\ Len(q) = p /\ \A i \in 1..p : q[i] = s[i]
      /\ t \in Seq(S) /\ Len(t) = Len(s) - p /\ \A i \in 1..Len(s) - p : t[i] = s[p + i]
  BY <1>4 DEF Parts
<1>7. o # <<>>
  BY <1>1, <1>5
<1>8. /\ Front(o) \in Seq(S) /\ Len(Front(o)) = n - 1 /\ Last(o) = o[n]
      /\ \A i \in 1..n - 1 : Front(o)[i] = o[i]
  BY <1>5, <1>7, FrontIs
<1>9. Front(o) = q
  <2> DEFINE f == Front(o)
  <2>1. f \in Seq(S) /\ Len(f) = n - 1 /\ \A i \in 1..n - 1 : f[i] = o[i]
    BY <1>8
  <2> HIDE DEF f
  <2>2. \A i \in 1..n - 1 : o[i] = s[i] /\ q[i] = s[i]
    BY <1>1, <1>2, <1>5, <1>6
  <2>3. Len(f) = Len(q) /\ \A i \in 1..Len(f) : f[i] = q[i]
    BY <1>2, <1>6, <2>1, <2>2
  <2>4. f = q
    BY <1>6, <2>1, <2>3, SeqEqual
  <2>5. QED BY <2>4 DEF f
<1>10. Last(o) = s[n]
  BY <1>1, <1>5, <1>8
<1>11. <<s[n]>> \o r = t
  <2> DEFINE x == s[n]
             u == <<x>> \o r
  <2>1. x \in S
    BY <1>1
  <2> HIDE DEF x
  <2>2. /\ u \in Seq(S) /\ Len(u) = Len(r) + 1 /\ u[1] = x
        /\ \A i \in 1..Len(r) : u[i + 1] = r[i]
    <3>1. <<x>> \in Seq(S) /\ Len(<<x>>) = 1 /\ <<x>>[1] = x /\ Len(r) \in Nat
      BY <1>5, <2>1
    <3> DEFINE y == <<x>>
    <3>2. y \in Seq(S) /\ Len(y) = 1 /\ y[1] = x /\ u = y \o r
      BY <3>1
    <3> HIDE DEF y, u
    <3>3. u \in Seq(S) /\ Len(u) = Len(y) + Len(r)
      BY <1>5, <3>2, ConcatProperties
    <3>4. \A i \in 1..Len(y) + Len(r) : u[i] = IF i <= Len(y) THEN y[i] ELSE r[i - Len(y)]
      BY <1>5, <3>2, ConcatProperties
    <3>5. QED BY <3>1, <3>2, <3>3, <3>4
  <2> HIDE DEF u
  <2>3. Len(u) = Len(t)
    BY <1>1, <1>2, <1>5, <1>6, <2>2
  <2>4. ASSUME NEW i \in 1..Len(u) PROVE u[i] = t[i]
    <3>1. i \in Nat /\ i >= 1 /\ i <= Len(s) - p /\ t[i] = s[p + i]
      BY <1>1, <1>2, <1>6, <2>3
    <3>2. CASE i = 1
      BY <1>1, <1>2, <2>2, <3>1, <3>2 DEF x
    <3>3. CASE i > 1
      <4> DEFINE j == i - 1
      <4>1. j \in 1..Len(r) /\ j + 1 = i /\ n + j = p + i /\ j \in 1..Len(s) - n
        BY <1>1, <1>2, <1>5, <3>1, <3>3
      <4> HIDE DEF j
      <4>2. u[j + 1] = r[j] /\ r[j] = s[n + j]
        BY <1>5, <2>2, <4>1
      <4>3. QED BY <3>1, <4>1, <4>2
    <3>4. QED BY <3>1, <3>2, <3>3
  <2>5. u = t
    BY <1>6, <2>2, <2>3, <2>4, SeqEqual
  <2>6. QED BY <2>5 DEF u, x
<1>12. q = Older(s, n - 1) /\ t = Newer(s, n - 1)
  BY <1>2 DEF q, t
<1>13. QED BY <1>1, <1>7, <1>9, <1>10, <1>11, <1>12 DEF o, r

\* A repeated command shows nothing that a key remembers.
LEMMA ChainPast ==
    ASSUME NEW c, c.op # "key", NEW k \in Nat, NEW v \in Views, NEW w \in Views,
           Chain(c, k, v, w)
    PROVE  w.past = v.past
<1>1. PICK h \in [0..k -> Views] :
          h[0] = v /\ h[k] = w /\ \A i \in 0..k - 1 : Undoes(c, h[i], h[i + 1])
  BY DEF Chain
<1> DEFINE T == [i \in 0..k |-> {x \in Views : x.past = v.past}]
<1>2. h[0] \in T[0]
  BY <1>1
<1>3. ASSUME NEW n \in 1..k, h[n - 1] \in T[n - 1] PROVE h[n] \in T[n]
  <2> DEFINE i == n - 1
  <2>1. i \in 0..k - 1 /\ i \in 0..k /\ n \in 0..k /\ i + 1 = n
    OBVIOUS
  <2>2. h[i] \in Views /\ h[i].past = v.past
    BY <1>3, <2>1
  <2> HIDE DEF i
  <2>3. Undoes(c, h[i], h[n]) /\ h[n] \in Views
    BY <1>1, <2>1
  <2>4. h[n].past = v.past
    BY <2>2, <2>3, UndoesPast
  <2>5. QED BY <2>1, <2>3, <2>4
<1> HIDE DEF T
<1>4. \A n \in 0..k : h[n] \in T[n]
  BY <1>2, <1>3, Stepwise
<1>5. k \in 0..k
  OBVIOUS
<1>6. QED BY <1>1, <1>4, <1>5 DEF T

\* A ring remembers no more keys than it has entries.
LEMMA FitBound ==
    ASSUME NEW d \in Nat, NEW r, NEW v, NEW m, Fit(d, r, v, m),
           \A j \in 0..d - 1 : r[j].n \in Int
    PROVE  Len(v.past) <= m + d
<1>1. PICK at \in [0..d -> Views] : FitAt(d, r, at) /\ at[d] = v /\ Len(at[0].past) = m
  BY DEF Fit
<1>2. \A j \in 0..d : Len(at[j].past) \in Nat /\ at[j] \in Views
  BY ViewIs
<1>3. m \in Nat /\ 0 \in 0..d /\ d \in 0..d
  BY <1>1, <1>2
<1> DEFINE T == [j \in 0..d |-> {x \in Views : Len(x.past) <= m + j}]
<1>4. at[0] \in T[0]
  BY <1>1, <1>2, <1>3
<1>5. ASSUME NEW n \in 1..d, at[n - 1] \in T[n - 1] PROVE at[n] \in T[n]
  <2> DEFINE j == n - 1
  <2>1. j \in 0..d - 1 /\ j \in 0..d /\ n \in 0..d /\ j + 1 = n /\ j \in Nat
    OBVIOUS
  <2>2. Len(at[j].past) <= m + j
    BY <1>5, <2>1
  <2> HIDE DEF j
  <2>3. Link(r, at, j)
    BY <1>1, <2>1 DEF FitAt
  <2>4. at[j] \in Views /\ at[n] \in Views /\ Len(at[j].past) \in Nat /\ Len(at[n].past) \in Nat
    BY <1>2, <2>1
  <2>5. Len(at[n].past) <= Len(at[j].past) + 1
    <3>1. CASE r[j].op = "times"
      <4> DEFINE k == r[j].n - 1
                 c == r[j - 1]
      <4>1. r[j].n >= 2 /\ c.op # "key" /\ Chain(c, k, at[n], at[j])
        BY <2>1, <2>3, <3>1 DEF Link
      <4>2. k \in Nat
        BY <2>1, <4>1
      <4> HIDE DEF k, c
      <4>3. at[j].past = at[n].past
        BY <2>4, <4>1, <4>2, ChainPast
      <4>4. QED BY <2>4, <4>3
    <3>2. CASE r[j].op # "times"
      <4> DEFINE c == r[j]
      <4>1. Undoes(c, at[n], at[j])
        BY <2>1, <2>3, <3>2 DEF Link
      <4> HIDE DEF c
      <4>2. CASE c.op # "key"
        <5>1. at[j].past = at[n].past
          BY <2>4, <4>1, <4>2, UndoesPast
        <5>2. QED BY <2>4, <5>1
      <4>3. CASE c.op = "key"
        <5>1. at[n].past = Append(at[j].past, Shot(at[j], c.n)) /\ c.n \in 0..Length(at[j])
          BY <4>1, <4>3 DEF Undoes, Moves, MoveOps
        <5>2. c.n \in Nat
          BY <2>4, <5>1, ViewIs
        <5>3. Shot(at[j], c.n) \in AllSeen /\ at[j].past \in Seq(AllSeen)
          BY <2>4, <5>2, ViewIs
        <5>4. QED BY <5>1, <5>3, AppendProperties
      <4>4. QED BY <4>2, <4>3
    <3>3. QED BY <3>1, <3>2
  <2>6. Len(at[n].past) <= m + n
    BY <1>3, <2>1, <2>2, <2>4, <2>5
  <2>7. QED BY <2>1, <2>4, <2>6
<1> HIDE DEF T
<1>6. \A n \in 0..d : at[n] \in T[n]
  BY <1>4, <1>5, Stepwise
<1>7. QED BY <1>1, <1>3, <1>6 DEF T

\* It stays there.
LEMMA BackIn ==
    ASSUME NEW r \in Backs
    PROVE  PastStep(r) \in Backs
<1> DEFINE x == r.edit
           y == edit_do_undo(x)
           u == edit_scroll_screen_over_cursor(y)
           c == Seen(u)
           t == <<c>> \o r.seen
<1>1. Sound(x) /\ r.seen \in Seq(Sights)
  BY DEF Backs
<1>2. PastStep(r) = IF IsEmpty(x) THEN r ELSE [edit |-> u, seen |-> t]
  BY DEF PastStep
<1> HIDE DEF x
<1>3. Sound(y)
  BY <1>1, UndoIs
<1> HIDE DEF y
<1>4. Sound(u)
  BY <1>3, ShownIs
<1> HIDE DEF u
<1>5. Text(u) \in Seq(Chars) /\ Cursor(u) \in Nat /\ u.start_display \in Int /\ u \in Edits
  BY <1>4, TextIs DEF Sound, Formed, Edits
<1>6. c \in Sights
  BY <1>5 DEF Seen, Sights
<1> HIDE DEF c
<1>7. <<c>> \in Seq(Sights)
  BY <1>6
<1> DEFINE z == <<c>>
<1>8. z \in Seq(Sights) /\ t = z \o r.seen
  BY <1>7
<1> HIDE DEF z
<1>9. t \in Seq(Sights)
  BY <1>1, <1>8, ConcatProperties
<1> HIDE DEF t
<1>10. QED BY <1>2, <1>4, <1>5, <1>9 DEF Backs

\* There are as many as the ring has entries.
LEMMA PastLoops ==
    ASSUME NEW e, Sound(e)
    PROVE  e.stack_size \in Nat /\ Retraced(e, e.stack_size)
<1> DEFINE size == e.stack_size
           base == [edit |-> e, seen |-> <<>>]
           X == Backs
           F == [p \in X \X Nat |-> PastStep(p[1])]
           Body(g) == g = [i \in 0..size |-> IF i = 0 THEN base ELSE PastStep(g[i - 1])]
<1>1. size \in Nat
  BY Places DEF Sound
<1>2. base \in X
  <2>1. e \in Edits /\ <<>> \in Seq(Sights)
    BY DEF Sound, Formed
  <2>2. QED BY <2>1 DEF Backs
<1>3. Past(e) = (CHOOSE g : Body(g))[size].seen
  BY DEF Past, PastStep
<1> HIDE DEF X, size, base
<1>4. \A x \in X : PastStep(x) \in X
  BY BackIn DEF X
<1>5. F \in [X \X Nat -> X]
  <2>1. \A p \in X \X Nat : p[1] \in X
    OBVIOUS
  <2>2. QED BY <1>4, <2>1
<1>6. \A x \in X, i \in 1..size : F[<<x, i>>] = PastStep(x)
  <2>1. \A i \in 1..size : i \in Nat
    BY <1>1
  <2>2. QED BY <2>1
<1> HIDE DEF F
<1>7. PICK g \in [0..size -> X] : g[0] = base /\ \A i \in 1..size : g[i] = F[<<g[i - 1], i>>]
  <2>1. Runs(size, X, base, F) # {}
    BY <1>1, <1>2, <1>5, Iterates
  <2>2. QED BY <2>1 DEF Runs
<1>8. \A i \in 1..size : g[i] = PastStep(g[i - 1])
  <2>1. \A i \in 1..size : i - 1 \in 0..size
    BY <1>1
  <2>2. QED BY <1>6, <1>7, <2>1
<1>9. Body(g)
  <2>1. \A i \in 0..size : i # 0 => i \in 1..size
    BY <1>1
  <2>2. QED BY <1>7, <1>8, <2>1
<1>10. PICK h : h = (CHOOSE g1 : Body(g1)) /\ Body(h)
  BY <1>9
<1>11. h[0] = base /\ \A i \in 1..size : h[i] = PastStep(h[i - 1])
  <2>1. 0 \in 0..size /\ \A i \in 1..size : i \in 0..size /\ i # 0
    BY <1>1
  <2>2. QED BY <1>10, <2>1
<1>12. \A i \in 0..size : h[i] \in X
  <2> DEFINE T == [i \in 0..size |-> X]
  <2>1. h[0] \in T[0]
    BY <1>1, <1>2, <1>11
  <2>2. ASSUME NEW i \in 1..size, h[i - 1] \in T[i - 1] PROVE h[i] \in T[i]
    <3>1. i - 1 \in 0..size /\ i \in 0..size
      BY <1>1
    <3>2. h[i - 1] \in X
      BY <2>2, <3>1
    <3>3. QED BY <1>4, <1>11, <3>1, <3>2
  <2> HIDE DEF T
  <2>3. \A i \in 0..size : h[i] \in T[i]
    BY <1>1, <2>1, <2>2, Stepwise
  <2>4. QED BY <2>3 DEF T
<1>13. h \in [0..size -> X]
  <2>1. h = [i \in 0..size |-> h[i]]
    BY <1>10
  <2>2. QED BY <1>12, <2>1
<1>14. Past(e) = h[size].seen
  BY <1>3, <1>10
<1>15. Retraced(e, size)
  BY <1>11, <1>13, <1>14 DEF Retraced, X, base
<1>16. QED BY <1>1, <1>15 DEF size

\* The next undo.
LEMMA RetraceStep ==
    ASSUME NEW log \in Seq(AllSeen), NEW m, NEW i \in Nat, i > 0,
           NEW r \in Backs, Retracing(r, log, m, i - 1)
    PROVE  Retracing(PastStep(r), log, m, i)
<1> DEFINE x == r.edit
           y == edit_do_undo(x)
           u == edit_scroll_screen_over_cursor(y)
           s == PastStep(r)
<1>1. Sound(x) /\ Formed(x)
  BY DEF Backs, Sound
<1>2. PICK n \in 0..Len(log) :
          /\ Placed(x) /\ Shape(x) /\ Fits(x, View(x, Older(log, n)), m)
          /\ r.seen = Newer(log, n)
          /\ Depth(x) = 0 \/ n = Len(log) - (i - 1)
  BY DEF Retracing
<1>3. s = IF IsEmpty(x) THEN r ELSE [edit |-> u, seen |-> <<Seen(u)>> \o r.seen]
  BY DEF PastStep
<1> HIDE DEF s
<1>4. Depth(x) \in Nat /\ (IsEmpty(x) <=> Depth(x) = 0)
  BY <1>1, Places
<1>5. CASE Depth(x) = 0
  <2>1. s = r
    BY <1>3, <1>4, <1>5
  <2>2. QED BY <1>2, <1>5, <2>1 DEF Retracing, s
<1>6. CASE Depth(x) > 0
  <2> DEFINE o == Older(log, n)
  <2>1. s = [edit |-> u, seen |-> <<Seen(u)>> \o r.seen]
    BY <1>3, <1>4, <1>6
  <2> HIDE DEF x
  <2>2. o \in Seq(AllSeen) /\ Len(o) = n
    BY PartsAre DEF Parts
  <2>3. Fits(x, View(x, o), m)
    BY <1>2
  <2>4. o = Older(log, n)
    OBVIOUS
  <2> HIDE DEF o
  <2>5. Sound(y) /\ o # <<>> /\ Undone(y, o, m)
    BY <1>1, <1>2, <1>6, <2>2, <2>3, UndoIs
  <2> HIDE DEF y
  <2>6. n \in 1..Len(log)
    <3>1. Len(log) \in Nat /\ n \in Nat /\ n <= Len(log)
      OBVIOUS
    <3>2. n # 0
      BY <2>2, <2>5, EmptySeq
    <3>3. QED BY <3>1, <3>2
  <2>7. u = y
    BY <2>5, OverCursorIs DEF Undone, OnScreen, Sound
  <2> HIDE DEF u
  <2>8. /\ Last(o) = log[n] /\ Front(o) = Older(log, n - 1)
        /\ <<log[n]>> \o Newer(log, n) = Newer(log, n - 1)
    BY <2>4, <2>6, PartsShift
  <2>9. Seen(u) = log[n] /\ Placed(u) /\ Shape(u) /\ Fits(u, View(u, Older(log, n - 1)), m)
    BY <2>5, <2>7, <2>8 DEF Undone
  <2>10. s.edit = u /\ s.seen = Newer(log, n - 1)
    BY <1>2, <2>1, <2>8, <2>9
  <2>11. PICK k \in 0..Len(log) : k = n - 1 /\ k = Len(log) - i
    BY <1>2, <1>6, <2>6 DEF x
  <2>12. Retracing(s, log, m, i)
    BY <2>9, <2>10, <2>11 DEF Retracing
  <2>13. QED BY <2>12 DEF s
<1>7. QED BY <1>4, <1>5, <1>6

\* What undo would show is what the log remembers last.
LEMMA PastIs ==
    ASSUME NEW e, Sound(e), Placed(e), Shape(e), NEW log \in Seq(AllSeen), NEW m,
           Fits(e, View(e, log), m)
    PROVE  /\ m \in 0..Len(log) /\ Past(e) = Newer(log, m)
           /\ Depth(e) = 0 => m = Len(log)
<1> DEFINE size == e.stack_size
           v == View(e, log)
           d == Depth(e)
           q == [j \in 0..Depth(e) - 1 |-> Item(e, j)]
<1>1. Formed(e)
  BY DEF Sound
<1>2. size \in Nat /\ Retraced(e, size)
  BY PastLoops
<1>3. d \in Nat /\ d < size
  <2>1. Depth(e) \in 0..e.stack_size - 1 /\ e.stack_size \in Nat
    BY <1>1, Places
  <2>2. QED BY <2>1
<1>4. \A j \in 0..d - 1 : q[j].n \in Int
  <2>1. ASSUME NEW j \in 0..d - 1 PROVE q[j].n \in Int
    <3>1. At(e, j) \in 0..e.stack_size - 1 /\ q[j] = Item(e, j)
      BY <1>1, Places
    <3>2. q[j] \in Entries
      BY <1>1, <3>1 DEF Item, Formed, Ring
    <3>3. QED BY <3>2 DEF Entries
  <2>2. QED BY <2>1
<1>5. v \in Views /\ v.past = log
  BY <1>1, ViewOf
<1>6. Fit(d, q, v, m)
  BY DEF Fits
<1>7. d = Depth(e)
  OBVIOUS
<1> HIDE DEF d, q, v, size
<1>8. m \in Nat /\ m <= Len(log) /\ (d = 0 => m = Len(log)) /\ Len(log) <= m + d
  BY <1>3, <1>4, <1>5, <1>6, FitIs, FitBound
<1>9. Len(log) \in Nat /\ m \in 0..Len(log)
  BY <1>8
<1>10. PICK h \in [0..size -> Backs] :
           /\ h[0] = [edit |-> e, seen |-> <<>>] /\ Past(e) = h[size].seen
           /\ \A i \in 1..size : h[i] = PastStep(h[i - 1])
  BY <1>2 DEF Retraced
<1> DEFINE T == [i \in 0..size |-> {r \in Backs : Retracing(r, log, m, i)}]
<1>11. h[0] \in T[0]
  <2>1. Older(log, Len(log)) = log /\ Newer(log, Len(log)) = <<>>
    BY PartsEnd
  <2>2. Len(log) \in 0..Len(log) /\ Len(log) = Len(log) - 0 /\ 0 \in 0..size
    BY <1>2, <1>9
  <2>3. h[0] \in Backs /\ h[0].edit = e /\ h[0].seen = <<>>
    BY <1>10, <2>2
  <2>4. Retracing(h[0], log, m, 0)
    <3> DEFINE r == h[0]
               z == 0
    <3>1. r.edit = e /\ r.seen = <<>> /\ Len(log) = Len(log) - z
      BY <2>2, <2>3
    <3> HIDE DEF r, z
    <3>2. PICK n \in 0..Len(log) : n = Len(log)
      BY <2>2
    <3>3. Retracing(r, log, m, z)
      BY <2>1, <3>1, <3>2 DEF Retracing
    <3>4. QED BY <3>3 DEF r, z
  <2>5. QED BY <2>2, <2>3, <2>4
<1>12. ASSUME NEW i \in 1..size, h[i - 1] \in T[i - 1] PROVE h[i] \in T[i]
  <2>1. i - 1 \in 0..size /\ i \in 0..size /\ i \in Nat /\ i > 0
    BY <1>2
  <2>2. h[i - 1] \in Backs /\ Retracing(h[i - 1], log, m, i - 1)
    BY <1>12, <2>1
  <2>3. Retracing(PastStep(h[i - 1]), log, m, i)
    BY <2>1, <2>2, RetraceStep
  <2>4. QED BY <1>10, <2>1, <2>3
<1> HIDE DEF T
<1>13. \A i \in 0..size : h[i] \in T[i]
  BY <1>2, <1>11, <1>12, Stepwise
<1> DEFINE r == h[size]
           x == r.edit
<1>14. r \in Backs /\ Retracing(r, log, m, size)
  BY <1>2, <1>13 DEF T
<1>15. Past(e) = r.seen
  BY <1>10
<1> HIDE DEF r
<1>16. Formed(x)
  BY <1>14 DEF Backs, Sound
<1>17. PICK n \in 0..Len(log) :
           /\ Fits(x, View(x, Older(log, n)), m)
           /\ r.seen = Newer(log, n)
           /\ Depth(x) = 0 \/ n = Len(log) - size
  BY <1>14 DEF Retracing
<1> HIDE DEF x
<1>18. n = m
  <2> DEFINE o == Older(log, n)
             w == View(x, o)
             c == Depth(x)
             p == [j \in 0..Depth(x) - 1 |-> Item(x, j)]
  <2>1. o \in Seq(AllSeen) /\ Len(o) = n
    BY PartsAre DEF Parts
  <2>2. Fit(c, p, w, m)
    BY <1>17 DEF Fits
  <2>3. c \in Nat /\ (c = 0 \/ n = Len(log) - size)
    BY <1>16, <1>17, Places
  <2> HIDE DEF o, c, p
  <2>4. w.past = o
    BY <1>16, <2>1, ViewOf
  <2> HIDE DEF w
  <2>5. (c = 0 => m = n) /\ (c > 0 => m < n)
    BY <2>1, <2>2, <2>3, <2>4, FitIs
  <2>6. QED BY <1>2, <1>3, <1>8, <1>9, <2>3, <2>5
<1>19. QED BY <1>7, <1>8, <1>9, <1>15, <1>17, <1>18

\* A newer part of a newer part.
LEMMA NewerOfNewer ==
    ASSUME NEW s \in Seq(AllSeen), NEW j \in 0..Len(s), NEW k \in 0..Len(s), j <= k
    PROVE  Newer(s, k) \in Suffixes(Newer(s, j))
<1>1. Len(s) \in Nat /\ j \in Nat /\ k \in Nat /\ k <= Len(s)
  OBVIOUS
<1> DEFINE t == Newer(s, j)
           u == Newer(s, k)
<1>2. t \in Seq(AllSeen) /\ Len(t) = Len(s) - j /\ \A i \in 1..Len(s) - j : t[i] = s[j + i]
  BY PartsAre DEF Parts
<1>3. u \in Seq(AllSeen) /\ Len(u) = Len(s) - k /\ \A i \in 1..Len(s) - k : u[i] = s[k + i]
  BY PartsAre DEF Parts
<1> HIDE DEF t, u
<1>4. CASE k = Len(s)
  <2>1. u = <<>>
    BY <1>1, <1>3, <1>4, EmptySeq
  <2>2. QED BY <2>1 DEF Suffixes, u
<1>5. CASE k < Len(s)
  <2>1. PICK n \in 0..Len(t) : n = k - j
    BY <1>1, <1>2
  <2> DEFINE w == Newer(t, n)
  <2>2. w \in Seq(AllSeen) /\ Len(w) = Len(t) - n /\ \A i \in 1..Len(t) - n : w[i] = t[n + i]
    BY <1>2, PartsAre DEF Parts
  <2>3. w = SubSeq(t, n + 1, Len(t))
    BY DEF Newer
  <2> HIDE DEF w
  <2>4. Len(w) = Len(u)
    BY <1>1, <1>2, <1>3, <2>1, <2>2
  <2>5. ASSUME NEW i \in 1..Len(w) PROVE w[i] = u[i]
    <3>1. i \in Nat /\ i >= 1 /\ i <= Len(s) - k
      BY <1>1, <1>3, <2>4
    <3>2. i \in 1..Len(t) - n /\ n + i \in 1..Len(s) - j /\ i \in 1..Len(s) - k
      BY <1>1, <1>2, <2>1, <3>1
    <3>3. j + (n + i) = k + i
      BY <1>1, <2>1, <3>1
    <3>4. w[i] = t[n + i] /\ t[n + i] = s[j + (n + i)] /\ u[i] = s[k + i]
      BY <1>2, <1>3, <2>2, <3>2
    <3>5. QED BY <3>3, <3>4
  <2>6. w = u
    BY <1>3, <2>2, <2>4, <2>5, SeqEqual
  <2>7. PICK l \in 1..Len(t) : l = n + 1
    BY <1>1, <1>2, <1>5, <2>1
  <2>8. u = SubSeq(t, l, Len(t))
    BY <2>3, <2>6, <2>7
  <2>9. QED BY <2>8 DEF Suffixes, t, u
<1>6. QED BY <1>1, <1>4, <1>5

\* The newer part of a longer log.
LEMMA NewerOfLonger ==
    ASSUME NEW s \in Seq(AllSeen), NEW x \in AllSeen, NEW j \in 0..Len(s)
    PROVE  Newer(Append(s, x), j) = Append(Newer(s, j), x)
<1>1. Len(s) \in Nat /\ j \in Nat /\ j <= Len(s)
  OBVIOUS
<1> DEFINE t == Append(s, x)
           o == Newer(s, j)
           u == Newer(t, j)
           w == Append(o, x)
<1>2. /\ t \in Seq(AllSeen) /\ Len(t) = Len(s) + 1
      /\ t[Len(s) + 1] = x /\ \A i \in 1..Len(s) : t[i] = s[i]
  BY AppendProperties
<1> HIDE DEF t
<1>3. o \in Seq(AllSeen) /\ Len(o) = Len(s) - j /\ \A i \in 1..Len(s) - j : o[i] = s[j + i]
  BY PartsAre DEF Parts
<1>4. PICK l \in Nat : l = Len(s) - j
  BY <1>1
<1>5. l = Len(o)
  BY <1>3, <1>4
<1> HIDE DEF o
<1>6. /\ w \in Seq(AllSeen) /\ Len(w) = Len(o) + 1
      /\ w[Len(o) + 1] = x /\ \A i \in 1..Len(o) : w[i] = o[i]
  BY <1>3, AppendProperties
<1> HIDE DEF w
<1>7. j \in 0..Len(t)
  BY <1>1, <1>2
<1>8. u \in Seq(AllSeen) /\ Len(u) = Len(t) - j /\ \A i \in 1..Len(t) - j : u[i] = t[j + i]
  BY <1>2, <1>7, PartsAre DEF Parts
<1> HIDE DEF u
<1>9. Len(u) = Len(w)
  BY <1>1, <1>2, <1>3, <1>6, <1>8
<1>10. ASSUME NEW i \in 1..Len(u) PROVE u[i] = w[i]
  <2>1. i \in Nat /\ i >= 1 /\ i <= Len(o) + 1 /\ i \in 1..Len(t) - j
    BY <1>1, <1>2, <1>3, <1>8
  <2>2. u[i] = t[j + i]
    BY <1>8, <2>1
  <2>3. CASE i = Len(o) + 1
    <3>1. j + i = Len(s) + 1
      BY <1>1, <1>3, <2>3
    <3>2. QED BY <1>2, <1>6, <2>2, <2>3, <3>1
  <2>4. CASE i # Len(o) + 1
    <3>1. i \in 1..Len(o) /\ i \in 1..Len(s) - j /\ j + i \in 1..Len(s)
      <4>1. i \in Nat /\ i >= 1 /\ i <= l
        BY <1>5, <2>1, <2>4
      <4>2. i \in 1..l /\ j + i \in 1..Len(s)
        BY <1>1, <1>4, <4>1
      <4>3. QED BY <1>4, <1>5, <4>2
    <3>2. w[i] = o[i] /\ o[i] = s[j + i] /\ t[j + i] = s[j + i]
      BY <1>2, <1>3, <1>6, <3>1
    <3>3. QED BY <2>2, <3>2
  <2>5. QED BY <2>3, <2>4
<1>11. u = w
  BY <1>6, <1>8, <1>9, <1>10, SeqEqual
<1>12. QED BY <1>11 DEF u, w, t, o

\* The newer part of a log without its last entry.
LEMMA NewerOfFront ==
    ASSUME NEW s \in Seq(AllSeen), NEW j \in 0..Len(s), j < Len(s)
    PROVE  /\ s # <<>> /\ Newer(s, j) # <<>>
           /\ Front(s) \in Seq(AllSeen) /\ Len(Front(s)) = Len(s) - 1
           /\ Newer(Front(s), j) = Front(Newer(s, j))
           /\ Last(Newer(s, j)) = Last(s)
<1>1. Len(s) \in Nat /\ j \in Nat /\ j < Len(s)
  OBVIOUS
<1>2. s # <<>>
  BY <1>1
<1> DEFINE t == Front(s)
           x == Last(s)
<1>3. t \in Seq(AllSeen) /\ x \in AllSeen /\ Len(t) = Len(s) - 1
  BY <1>2, FrontIs
<1>4. s = Append(t, x)
  <2> DEFINE u == Append(t, x)
  <2>1. /\ Len(t) = Len(s) - 1 /\ x = s[Len(s)]
        /\ \A i \in 1..Len(s) - 1 : t[i] = s[i]
    BY <1>2, FrontIs
  <2> HIDE DEF t, x
  <2>2. /\ u \in Seq(AllSeen) /\ Len(u) = Len(t) + 1
        /\ u[Len(t) + 1] = x /\ \A i \in 1..Len(t) : u[i] = t[i]
    BY <1>3, AppendProperties
  <2> HIDE DEF u
  <2>3. Len(u) = Len(s) /\ \A i \in 1..Len(u) : u[i] = s[i]
    BY <1>1, <2>1, <2>2
  <2>4. u = s
    BY <2>2, <2>3, SeqEqual
  <2>5. QED BY <2>4 DEF u
<1> HIDE DEF t, x
<1>5. j \in 0..Len(t)
  BY <1>1, <1>3
<1> DEFINE o == Newer(t, j)
           w == Newer(s, j)
<1>6. o \in Seq(AllSeen)
  BY <1>3, <1>5, PartsAre DEF Parts
<1>7. w = Append(o, x)
  BY <1>3, <1>4, <1>5, NewerOfLonger
<1> HIDE DEF o, w
<1>8. w # <<>> /\ Front(w) = o /\ Last(w) = x
  BY <1>3, <1>6, <1>7, Latest
<1>9. QED BY <1>2, <1>3, <1>8 DEF t, x, o, w

\* So it is for a ring that leads back along one.
LEMMA GoodTracks ==
    ASSUME NEW e, Sound(e), NEW log \in Seq(AllSeen), NEW n \in Nat, Good(e, log, n)
    PROVE  \E m \in 0..Len(log) :
               /\ n <= m /\ Past(e) = Newer(log, m) /\ Tracks(e, Past(e))
               /\ Depth(e) = 0 => m = Len(log)
<1>1. PICK m \in Nat : n <= m /\ Fits(e, View(e, log), m)
  BY DEF Good
<1>2. Placed(e) /\ Shape(e)
  BY DEF Good
<1>3. m \in 0..Len(log) /\ Past(e) = Newer(log, m) /\ (Depth(e) = 0 => m = Len(log))
  BY <1>1, <1>2, PastIs
<1>4. Tracks(e, Past(e))
  BY <1>1, <1>2, <1>3 DEF Tracks
<1>5. QED BY <1>1, <1>3, <1>4

-----------------------------------------------------------------------------
(* Undo is exact.                                                          *)

\* It holds at first.
LEMMA ExactInit ==
    Init => Exact /\ Abstract!Init
<1>1. SUFFICES ASSUME Init PROVE Exact /\ Abstract!Init
  OBVIOUS
<1>2. PICK text \in [1..2 -> Chars] : edit = Loaded(text)
  BY <1>1 DEF Init
<1> DEFINE none == <<>>
           z == 0
<1>3. /\ Sound(edit) /\ OnScreen(edit)
      /\ Placed(edit) /\ Shape(edit) /\ Fits(edit, View(edit, none), z)
  BY <1>2, LoadedIs
<1>4. none \in Seq(AllSeen) /\ z \in Nat /\ z \in 0..Len(none)
  OBVIOUS
<1>5. past = Newer(none, z)
  <2>1. past = <<>> /\ Len(none) = z
    BY <1>1 DEF Init
  <2> HIDE DEF none
  <2>2. QED BY <1>4, <2>1, PartsEnd
<1> HIDE DEF none, z
<1>6. Tracks(edit, past)
  BY <1>3, <1>4, <1>5 DEF Tracks
<1>7. Seen(edit) \in AllSeen
  BY <1>3, <1>4, SeenIs DEF Sound
<1>8. QED BY <1>1, <1>3, <1>6, <1>7 DEF Exact, Init, Abstract!Init

\* A step of the abstract editor.
LEMMA KeyOf ==
    ASSUME Seen(edit)' \in AllSeen,
           \/ past' \in Suffixes(Append(past, Seen(edit)))
           \/ past # <<>> /\ Seen(edit) = Last(past) /\ past' \in Suffixes(past)
    PROVE  Abstract!Next
<1>1. Abstract!Key
  BY DEF Abstract!Key, Abstract!Suffixes, Abstract!Last, Suffixes, Last
<1>2. QED BY <1>1 DEF Abstract!Next

\* An undo of the abstract editor.
LEMMA UndoOf ==
    ASSUME past # <<>>, Seen(edit)' = Last(past), past' \in Suffixes(Front(past))
    PROVE  Abstract!Next
<1>1. Abstract!Undo
  BY DEF Abstract!Undo, Abstract!Suffixes, Abstract!Front, Abstract!Last, Suffixes, Front, Last
<1>2. QED BY <1>1 DEF Abstract!Next

\* What every key does to the history.
LEMMA ExactKey ==
    ASSUME NEW e, Sound(e), Recorded(edit, e) \/ Undid(edit, e),
           Sound(edit), Tracks(edit, past), ~e.misled,
           past' = Past(e), Seen(edit)' = Seen(e)
    PROVE  Abstract!Next /\ Tracks(e, past')
<1>1. PICK log \in Seq(AllSeen), n \in Nat :
          /\ Placed(edit) /\ Shape(edit) /\ Fits(edit, View(edit, log), n)
          /\ n \in 0..Len(log) /\ past = Newer(log, n)
  BY DEF Tracks
<1>2. Good(edit, log, n)
  BY <1>1 DEF Good
<1>3. Len(log) \in Nat /\ Len(log) \in 0..Len(log) /\ n <= Len(log)
  BY <1>1
<1>4. ASSUME NEW l \in Seq(AllSeen), Good(e, l, n)
      PROVE  /\ Seen(edit)' \in AllSeen /\ Tracks(e, past')
             /\ \E m \in 0..Len(l) : /\ n <= m /\ past' = Newer(l, m)
                                     /\ Depth(e) = 0 => m = Len(l)
  <2>1. PICK m \in 0..Len(l) : /\ n <= m /\ Past(e) = Newer(l, m) /\ Tracks(e, Past(e))
                               /\ Depth(e) = 0 => m = Len(l)
    BY <1>4, GoodTracks
  <2>2. Seen(e) \in AllSeen
    BY <1>4, SeenIs DEF Good, Sound
  <2>3. QED BY <2>1, <2>2
<1>5. CASE Recorded(edit, e)
  <2>1. \/ Seen(edit) \in AllSeen /\ Good(e, Append(log, Seen(edit)), n)
        \/ log # <<>> /\ Last(log) = Seen(edit) /\ Good(e, log, n)
    BY <1>2, <1>5 DEF Recorded
  <2>2. CASE Seen(edit) \in AllSeen /\ Good(e, Append(log, Seen(edit)), n)
    <3> DEFINE x == Seen(edit)
               l == Append(log, x)
    <3>1. l \in Seq(AllSeen) /\ Len(l) = Len(log) + 1
      BY <2>2, AppendProperties
    <3>2. Newer(l, n) = Append(past, x)
      BY <1>1, <2>2, NewerOfLonger
    <3>3. Good(e, l, n)
      BY <2>2
    <3> HIDE DEF x, l
    <3>4. PICK m \in 0..Len(l) : n <= m /\ past' = Newer(l, m)
      BY <1>4, <3>1, <3>3
    <3>5. n \in 0..Len(l)
      BY <1>3, <3>1
    <3>6. past' \in Suffixes(Append(past, x))
      BY <3>1, <3>2, <3>4, <3>5, NewerOfNewer
    <3>7. QED BY <1>4, <3>1, <3>3, <3>6, KeyOf DEF x
  <2>3. CASE log # <<>> /\ Last(log) = Seen(edit) /\ Good(e, log, n)
    <3>1. PICK m \in 0..Len(log) : n <= m /\ past' = Newer(log, m)
      BY <1>4, <2>3
    <3>2. past' \in Suffixes(past)
      BY <1>1, <3>1, NewerOfNewer
    <3>3. CASE n < Len(log)
      <4>1. past # <<>> /\ Last(past) = Seen(edit)
        BY <1>1, <2>3, <3>3, NewerOfFront
      <4>2. QED BY <1>4, <2>3, <3>2, <4>1, KeyOf
    <3>4. CASE n = Len(log)
      <4>1. m = Len(log)
        BY <1>3, <3>1, <3>4
      <4>2. past' = <<>>
        BY <3>1, <4>1, PartsEnd
      <4>3. past' \in Suffixes(Append(past, Seen(edit)))
        BY <4>2 DEF Suffixes
      <4>4. QED BY <1>4, <2>3, <4>3, KeyOf
    <3>5. QED BY <1>3, <3>3, <3>4
  <2>4. QED BY <2>1, <2>2, <2>3
<1>6. CASE Undid(edit, e)
  <2>1. \/ Seen(e) = Seen(edit) /\ Depth(e) = 0 /\ Good(e, log, n)
        \/ log # <<>> /\ Seen(e) = Last(log) /\ Good(e, Front(log), n)
    BY <1>2, <1>6 DEF Undid
  <2>2. CASE Seen(e) = Seen(edit) /\ Depth(e) = 0 /\ Good(e, log, n)
    <3>1. past' = <<>>
      BY <1>4, <2>2, PartsEnd
    <3>2. past' \in Suffixes(Append(past, Seen(edit)))
      BY <3>1 DEF Suffixes
    <3>3. QED BY <1>4, <2>2, <3>2, KeyOf
  <2>3. CASE log # <<>> /\ Seen(e) = Last(log) /\ Good(e, Front(log), n)
    <3> DEFINE l == Front(log)
    <3>1. l \in Seq(AllSeen) /\ Len(l) = Len(log) - 1
      BY <2>3, FrontIs
    <3>2. Good(e, l, n)
      BY <2>3
    <3>3. l = Front(log)
      OBVIOUS
    <3> HIDE DEF l
    <3>4. PICK m \in 0..Len(l) : n <= m /\ past' = Newer(l, m)
      BY <1>4, <3>1, <3>2
    <3>5. n < Len(log) /\ n \in 0..Len(l)
      BY <1>3, <3>1, <3>4
    <3>6. past # <<>> /\ Newer(l, n) = Front(past) /\ Last(past) = Last(log)
      BY <1>1, <3>3, <3>5, NewerOfFront
    <3>7. past' \in Suffixes(Front(past))
      BY <3>1, <3>4, <3>5, <3>6, NewerOfNewer
    <3>8. QED BY <1>4, <2>3, <3>1, <3>2, <3>6, <3>7, UndoOf
  <2>4. QED BY <2>1, <2>2, <2>3
<1>7. QED BY <1>5, <1>6

\* Every step keeps the invariant, and is one of the abstract editor until the
\* ring is misled.
LEMMA ExactStep ==
    Exact /\ [Next]_vars =>
        Exact' /\ (edit'.misled \/ [Abstract!Next]_<<Seen(edit), past>>)
<1>1. SUFFICES ASSUME Exact, [Next]_vars
      PROVE    Exact' /\ (edit'.misled \/ [Abstract!Next]_<<Seen(edit), past>>)
  OBVIOUS
<1>2. Sound(edit) /\ OnScreen(edit)
  BY <1>1 DEF Exact
<1>3. CASE Next
  <2>1. PICK e : /\ Press(e) /\ Sound(e) /\ OnScreen(e)
                 /\ Recorded(edit, e) \/ Undid(edit, e)
    BY <1>2, <1>3, NextIs
  <2>2. edit' = Fresh(e) /\ past' = Past(e)
    BY <2>1 DEF Press, Fresh
  <2> DEFINE f == Fresh(e)
  <2>3. /\ Sound(f) /\ f.misled = e.misled /\ OnScreen(f) /\ Seen(f) = Seen(e)
        /\ \A log, m : Fits(e, View(e, log), m) => Fits(f, View(f, log), m)
        /\ \A log, n : Good(e, log, n) => Good(f, log, n)
    BY <2>1, FreshIs
  <2>4. edit' = f
    BY <2>2
  <2> HIDE DEF f
  <2>5. Seen(edit)' = Seen(e)
    BY <2>3, <2>4
  <2>6. ASSUME ~e.misled PROVE Abstract!Next /\ Tracks(f, past')
    <3>1. ~edit.misled
      BY <2>1, <2>6 DEF Recorded, Undid
    <3>2. Tracks(edit, past)
      BY <1>1, <3>1 DEF Exact
    <3>3. Abstract!Next /\ Tracks(e, past')
      BY <1>2, <2>1, <2>2, <2>5, <2>6, <3>2, ExactKey
    <3>4. PICK log \in Seq(AllSeen), m \in Nat :
              /\ Placed(e) /\ Shape(e) /\ Fits(e, View(e, log), m)
              /\ m \in 0..Len(log) /\ past' = Newer(log, m)
      BY <3>3 DEF Tracks
    <3>5. Good(e, log, m) /\ m <= m
      BY <3>4 DEF Good
    <3>6. Placed(f) /\ Shape(f) /\ Fits(f, View(f, log), m)
      BY <2>3, <3>4, <3>5 DEF Good
    <3>7. QED BY <3>3, <3>4, <3>6 DEF Tracks
  <2>7. Exact'
    BY <2>3, <2>4, <2>6 DEF Exact
  <2>8. edit'.misled \/ Abstract!Next
    BY <2>3, <2>4, <2>6
  <2>9. QED BY <2>7, <2>8
<1>4. CASE UNCHANGED vars
  <2>1. edit' = edit /\ past' = past
    BY <1>4 DEF vars
  <2>2. QED BY <1>1, <2>1 DEF Exact
<1>5. QED BY <1>1, <1>3, <1>4

\* Undo takes back key after key what the user saw (edit.c:450-451), through
\* repetition counts, annihilation, growth of the ring and the keys that it
\* forgets, until a move annihilates an entry that was left in the memory of an
\* empty ring.
THEOREM UndoIsExactUntilMisled ==
    Spec => /\ Abstract!Init
            /\ [][edit'.misled \/ Abstract!Next]_<<Seen(edit), past>>
<1>1. Exact /\ [Next]_vars =>
          Exact' /\ [edit'.misled \/ Abstract!Next]_<<Seen(edit), past>>
  BY ExactStep
<1>2. QED BY <1>1, ExactInit, PTL DEF Spec

\* So an editor whose ring is never misled implements the abstract one: undo
\* shows what EditText says, for as long as the ring remembers (edit.c:450-451).
THEOREM UndoIsExactUnlessMisled ==
    Spec /\ [](~edit.misled) => UndoIsExact
<1>1. Exact /\ [Next]_vars /\ (~edit.misled)' =>
          Exact' /\ [Abstract!Next]_<<Seen(edit), past>>
  BY ExactStep
<1>2. QED BY <1>1, ExactInit, PTL DEF Spec, UndoIsExact, Abstract!Spec

-----------------------------------------------------------------------------
(* The block commands.                                                     *)

\* A part between two others.
LEMMA BetweenIs ==
    ASSUME NEW S, NEW s \in Seq(S), NEW j \in 0..Len(s), NEW k \in 0..Len(s), j <= k
    PROVE  /\ Between(s, j, k) \in Seq(S) /\ Len(Between(s, j, k)) = k - j
           /\ Older(s, j) \o Between(s, j, k) = Older(s, k)
           /\ Between(s, j, k) \o Newer(s, k) = Newer(s, j)
<1>1. Len(s) \in Nat /\ j \in Nat /\ k \in Nat /\ k <= Len(s) /\ \A i \in 1..Len(s) : s[i] \in S
  OBVIOUS
<1>2. PICK m \in 1..Len(s) + 1 : m = j + 1
  BY <1>1
<1>3. PICK one \in 1..Len(s) + 1 : one = 1
  BY <1>1
<1>4. m \in Int /\ k \in Int /\ one \in Int /\ \A i \in m..k : s[i] \in S
  BY <1>1, <1>2, <1>3
<1>5. /\ SubSeq(s, m, k) \in Seq(S)
      /\ Len(SubSeq(s, m, k)) = IF m <= k THEN k - m + 1 ELSE 0
  BY <1>4, SubSeqProperties
<1>6. Between(s, j, k) = SubSeq(s, m, k)
  BY <1>2 DEF Between
<1>7. Len(Between(s, j, k)) = k - j
  BY <1>1, <1>2, <1>5, <1>6
<1>8. Older(s, j) \o Between(s, j, k) = Older(s, k)
  <2>1. j \in one - 1..Len(s) /\ k \in j..Len(s)
    BY <1>1, <1>3
  <2>2. SubSeq(s, one, j) \o SubSeq(s, j + 1, k) = SubSeq(s, one, k)
    BY <2>1, ConcatAdjacentSubSeq
  <2>3. QED BY <1>3, <2>2 DEF Older, Between
<1>9. Between(s, j, k) \o Newer(s, k) = Newer(s, j)
  <2>1. PICK l \in 0..Len(s) : l = Len(s)
    BY <1>1
  <2>2. k \in m - 1..Len(s) /\ l \in k..Len(s)
    BY <1>1, <1>2, <2>1
  <2>3. SubSeq(s, m, k) \o SubSeq(s, k + 1, l) = SubSeq(s, m, l)
    BY <2>2, ConcatAdjacentSubSeq
  <2>4. QED BY <1>2, <1>6, <2>1, <2>3 DEF Newer
<1>10. QED BY <1>5, <1>6, <1>7, <1>8, <1>9

\* What that is.
LEMMA JoinIs ==
    ASSUME NEW x \in Seq(Chars), NEW y \in Seq(Chars)
    PROVE  Join(x, y) \in Seq(Chars) /\ Len(Join(x, y)) = Len(x) + Len(y)
  BY ConcatProperties DEF Join

\* Three texts.
LEMMA JoinTwice ==
    ASSUME NEW x \in Seq(Chars), NEW y \in Seq(Chars), NEW z \in Seq(Chars)
    PROVE  Join(Join(x, y), z) = Join(x, Join(y, z))
<1>1. (x \o y) \o z = x \o (y \o z)
  BY ConcatAssociative
<1>2. QED BY <1>1 DEF Join

\* A text has no other two parts of these lengths.
LEMMA JoinParts ==
    ASSUME NEW x \in Seq(Chars), NEW y \in Seq(Chars), NEW s, s = Join(x, y),
           NEW n, n = Len(x)
    PROVE  s \in Seq(Chars) /\ n \in 0..Len(s) /\ Older(s, n) = x /\ Newer(s, n) = y
<1>1. /\ s \in Seq(Chars) /\ Len(s) = Len(x) + Len(y)
      /\ \A i \in 1..Len(x) + Len(y) : s[i] = IF i <= Len(x) THEN x[i] ELSE y[i - Len(x)]
  BY ConcatProperties DEF Join
<1>2. Len(x) \in Nat /\ Len(y) \in Nat
  OBVIOUS
<1>3. n \in 0..Len(s) /\ n \in Nat
  BY <1>1, <1>2
<1> DEFINE o == Older(s, n)
           r == Newer(s, n)
<1>4. Parts(Chars, s, n, o, r)
  BY <1>1, <1>3, PartsAre
<1> HIDE DEF o, r
<1>5. /\ o \in Seq(Chars) /\ Len(o) = n /\ \A i \in 1..n : o[i] = s[i]
      /\ r \in Seq(Chars) /\ Len(r) = Len(s) - n /\ \A i \in 1..Len(s) - n : r[i] = s[n + i]
  BY <1>4 DEF Parts
<1>6. o = x
  <2>1. \A i \in 1..Len(o) : o[i] = x[i]
    <3>1. ASSUME NEW i \in 1..Len(o) PROVE o[i] = x[i]
      <4>1. i \in 1..n /\ i \in 1..Len(x) + Len(y) /\ i <= Len(x)
        BY <1>2, <1>3, <1>5
      <4>2. QED BY <1>1, <1>5, <4>1
    <3>2. QED BY <3>1
  <2>2. QED BY <1>5, <2>1, SeqEqual
<1>7. r = y
  <2>1. Len(r) = Len(y)
    BY <1>1, <1>2, <1>5
  <2>2. \A i \in 1..Len(r) : r[i] = y[i]
    <3>1. ASSUME NEW i \in 1..Len(r) PROVE r[i] = y[i]
      <4>1. i \in Nat /\ i >= 1 /\ i <= Len(y)
        BY <1>2, <2>1
      <4>2. /\ i \in 1..Len(s) - n /\ n + i \in 1..Len(x) + Len(y) /\ ~(n + i <= Len(x))
            /\ (n + i) - Len(x) = i
        BY <1>1, <1>2, <1>3, <4>1
      <4>3. r[i] = s[n + i]
        BY <1>5, <4>2
      <4>4. QED BY <1>1, <4>2, <4>3
    <3>2. QED BY <3>1
  <2>3. QED BY <1>5, <2>1, <2>2, SeqEqual
<1>8. QED BY <1>1, <1>3, <1>6, <1>7 DEF o, r

\* A text without what lies between, parted again before that.
LEMMA GapBefore ==
    ASSUME NEW s \in Seq(Chars), NEW p \in 0..Len(s), NEW j \in 0..Len(s), p <= j,
           NEW y \in Seq(Chars), NEW c, c = Join(Older(s, j), y)
    PROVE  /\ p \in 0..Len(c) /\ Older(c, p) = Older(s, p)
           /\ Newer(c, p) = Join(Between(s, p, j), y)
<1> DEFINE x == Older(s, p)
           b == Between(s, p, j)
           t == Join(b, y)
<1>1. x \in Seq(Chars) /\ Len(x) = p
  BY PartsAre DEF Parts
<1>2. b \in Seq(Chars) /\ Join(x, b) = Older(s, j)
  BY BetweenIs DEF Join
<1> HIDE DEF x, b
<1>3. t \in Seq(Chars)
  BY <1>2, JoinIs
<1>4. c = Join(x, t)
  BY <1>1, <1>2, JoinTwice
<1> HIDE DEF t
<1>5. p \in 0..Len(c) /\ Older(c, p) = x /\ Newer(c, p) = t
  BY <1>1, <1>3, <1>4, JoinParts
<1>6. QED BY <1>5 DEF x, b, t

\* And behind it.
LEMMA GapBehind ==
    ASSUME NEW s \in Seq(Chars), NEW k \in 0..Len(s), NEW a \in 0..Len(s), k <= a,
           NEW x \in Seq(Chars), NEW c, c = Join(x, Newer(s, k)),
           NEW p \in Int, p <= Len(x) + (a - k), p >= Len(x) + (a - k)
    PROVE  /\ p \in 0..Len(c) /\ Older(c, p) = Join(x, Between(s, k, a))
           /\ Newer(c, p) = Newer(s, a)
<1> DEFINE y == Newer(s, a)
           b == Between(s, k, a)
           t == Join(x, b)
<1>1. y \in Seq(Chars)
  BY PartsAre DEF Parts
<1>2. b \in Seq(Chars) /\ Len(b) = a - k /\ Join(b, y) = Newer(s, k)
  BY BetweenIs DEF Join
<1> HIDE DEF y, b
<1>3. t \in Seq(Chars) /\ Len(t) = Len(x) + Len(b)
  BY <1>2, JoinIs
<1>4. c = Join(t, y)
  BY <1>1, <1>2, JoinTwice
<1> HIDE DEF t
<1>5. p = Len(t)
  <2>1. Len(x) \in Nat /\ a \in Int /\ k \in Int
    OBVIOUS
  <2>2. Len(t) = Len(x) + (a - k) /\ Len(t) \in Int
    BY <1>2, <1>3, <2>1
  <2>3. QED BY <2>1, <2>2
<1>6. p \in 0..Len(c) /\ Older(c, p) = t /\ Newer(c, p) = y
  BY <1>1, <1>3, <1>4, <1>5, JoinParts
<1>7. QED BY <1>6 DEF y, b, t

\* The text lies around the cursor.
LEMMA CursorParts ==
    ASSUME NEW e, Formed(e), NEW t, t = Text(e), NEW at, at = Cursor(e)
    PROVE  /\ t \in Seq(Chars) /\ at \in 0..Len(t)
           /\ Stands(e, Older(t, at), Newer(t, at))
<1>1. e.before \in Seq(Chars) /\ e.after \in Seq(Chars)
  BY TextIs
<1>2. t = Join(e.before, e.after) /\ at = Len(e.before)
  BY DEF Text, Cursor, Join
<1>3. t \in Seq(Chars) /\ at \in 0..Len(t) /\ Older(t, at) = e.before /\ Newer(t, at) = e.after
  BY <1>1, <1>2, JoinParts
<1>4. QED BY <1>1, <1>3 DEF Stands

\* What scrolls does not touch the text.
LEMMA ShownStands ==
    ASSUME NEW e, NEW f, Follows(e, f), NEW x, NEW y, Stands(f, x, y)
    PROVE  LET g == edit_scroll_screen_over_cursor(f)
           IN  Follows(e, g) /\ Stands(g, x, y)
<1> DEFINE g == edit_scroll_screen_over_cursor(f)
<1>1. Follows(e, g) /\ SameText(f, g)
  BY ShownAfter
<1> HIDE DEF g
<1>2. Formed(g)
  BY <1>1 DEF Follows, Sound
<1>3. Stands(g, x, y)
  BY <1>1, <1>2 DEF Stands, SameText
<1>4. QED BY <1>1, <1>3 DEF g

\* The cursor goes to any place of the text.
LEMMA MoveStands ==
    ASSUME NEW e, NEW f, Follows(e, f), NEW x, NEW y, Stands(f, x, y),
           NEW t, t = Join(x, y), NEW at \in 0..Len(t)
    PROVE  LET g == MoveTo(f, at)
           IN  Follows(e, g) /\ Stands(g, Older(t, at), Newer(t, at))
<1> DEFINE g == MoveTo(f, at)
<1>1. Formed(f) /\ x \in Seq(Chars) /\ y \in Seq(Chars) /\ f.before = x /\ f.after = y
  BY DEF Stands
<1>2. t = Text(f) /\ t \in Seq(Chars)
  BY <1>1, JoinIs DEF Text, Join
<1>3. Len(t) = LastByte(f) /\ Len(t) \in Nat
  BY <1>1, <1>2, TextIs
<1>4. at \in Int /\ at \in 0..LastByte(f)
  BY <1>3
<1>5. Elsewhere(f, g) /\ Cursor(g) = at /\ Follows(e, g)
  BY <1>1, <1>4, MoveToIs, MoveFollows
<1> HIDE DEF g
<1>6. Formed(g) /\ t = Text(g) /\ at = Cursor(g)
  BY <1>2, <1>5 DEF Elsewhere
<1>7. Stands(g, Older(t, at), Newer(t, at))
  BY <1>6, CursorParts
<1>8. QED BY <1>5, <1>7 DEF g

\* A part behind the cursor goes.
LEMMA DeleteStands ==
    ASSUME NEW e, NEW f, Follows(e, f), NEW x, NEW y, Stands(f, x, y), NEW n \in 0..Len(y)
    PROVE  LET g == Times("delete", f, n)
           IN  Follows(e, g) /\ Stands(g, x, Newer(y, n))
<1> DEFINE g == Times("delete", f, n)
           o == Older(y, n)
           r == Newer(y, n)
<1>1. Formed(f) /\ x \in Seq(Chars) /\ y \in Seq(Chars) /\ f.before = x /\ f.after = y
  BY DEF Stands
<1>2. n \in Nat /\ n \in Int /\ n <= Len(f.after) /\ Len(y) \in Nat
  BY <1>1
<1>3. Trimmed(f, g, n)
  BY <1>1, <1>2, DeleteTimes
<1>4. Follows(e, g)
  <2>1. PICK op \in {"left", "right", "delete", "backspace"} : op = "delete"
    OBVIOUS
  <2>2. Sound(f)
    BY DEF Follows
  <2>3. Follows(f, Times(op, f, n))
    BY <1>2, <2>2, TimesFollows
  <2>4. Follows(f, g)
    BY <2>1, <2>3
  <2> HIDE DEF g
  <2>5. QED BY <2>4, FollowsChain
<1>5. Parts(Chars, y, n, o, r)
  BY <1>1, PartsAre
<1> HIDE DEF g, o, r
<1>6. /\ r \in Seq(Chars) /\ Len(r) = Len(y) - n /\ \A i \in 1..Len(y) - n : r[i] = y[n + i]
  BY <1>5 DEF Parts
<1>7. /\ Formed(g) /\ g.before = x /\ Len(g.after) = Len(y) - n
      /\ \A k \in 1..Len(y) - n : g.after[k] = y[n + k]
  BY <1>1, <1>3 DEF Trimmed
<1>8. g.after \in Seq(Chars)
  BY <1>7, TextIs
<1>9. g.after = r
  <2>1. PICK a \in Seq(Chars) : a = g.after
    BY <1>8
  <2>2. Len(a) = Len(r) /\ \A i \in 1..Len(a) : a[i] = r[i]
    BY <1>6, <1>7, <2>1
  <2>3. a = r
    BY <1>6, <2>2, SeqEqual
  <2>4. QED BY <2>1, <2>3
<1>10. Stands(g, x, r)
  BY <1>1, <1>6, <1>7, <1>9 DEF Stands
<1>11. QED BY <1>4, <1>10 DEF g, r

\* A block goes in behind the cursor.
LEMMA BlockStands ==
    ASSUME NEW e, NEW f, Follows(e, f), NEW x, NEW y, Stands(f, x, y), NEW block \in Seq(Chars)
    PROVE  LET g == InsertBlock(f, block)
           IN  Follows(e, g) /\ Stands(g, x, Join(block, y))
<1> DEFINE g == InsertBlock(f, block)
<1>1. Follows(e, g) /\ g.before = f.before /\ g.after = block \o f.after
  BY BlockAfter
<1> HIDE DEF g
<1>2. x \in Seq(Chars) /\ y \in Seq(Chars) /\ f.before = x /\ f.after = y
  BY DEF Stands
<1>3. Join(block, y) \in Seq(Chars)
  BY <1>2, JoinIs
<1>4. g.before = x /\ g.after = Join(block, y)
  BY <1>1, <1>2 DEF Join
<1>5. Formed(g)
  BY <1>1 DEF Follows, Sound
<1>6. Stands(g, x, Join(block, y))
  BY <1>2, <1>3, <1>4, <1>5 DEF Stands
<1>7. QED BY <1>1, <1>6 DEF g

\* The marks are pushed before a block command and set behind it.
LEMMA PushStands ==
    ASSUME NEW e, Sound(e), NEW x, NEW y, Stands(e, x, y)
    PROVE  LET g == edit_push_markers(e)
           IN  Follows(e, g) /\ Stands(g, x, y)
<1> DEFINE g == edit_push_markers(e)
<1>1. Follows(e, g) /\ Pushed(e, g)
  BY MarkersFollow
<1> HIDE DEF g
<1>2. Formed(g)
  BY <1>1 DEF Follows, Sound
<1>3. Stands(g, x, y)
  BY <1>1, <1>2 DEF Stands, Pushed, SameText
<1>4. QED BY <1>1, <1>3 DEF g

\* Nor do the marks touch the text.
LEMMA MarksStand ==
    ASSUME NEW e, NEW x, NEW y, Stands(e, x, y), NEW m \in Int, NEW n \in Int
    PROVE  Stands(edit_set_markers(e, m, n), x, y)
<1> DEFINE g == edit_set_markers(e, m, n)
<1>1. Formed(e)
  BY DEF Stands
<1>2. Formed(g) /\ SameText(e, g)
  BY <1>1, MarksIs
<1> HIDE DEF g
<1>3. Stands(g, x, y)
  BY <1>2 DEF Stands, SameText
<1>4. QED BY <1>3 DEF g

\* What stands is the text.
LEMMA StandsText ==
    ASSUME NEW e, NEW x, NEW y, Stands(e, x, y)
    PROVE  Text(e) = Join(x, y) /\ x \in Seq(Chars) /\ y \in Seq(Chars)
  BY DEF Stands, Text, Join

\* The end of a part that begins with the rest behind j.
LEMMA NewerTwice ==
    ASSUME NEW s \in Seq(Chars), NEW j \in 0..Len(s), NEW k \in 0..Len(s), j <= k,
           NEW n, n = k - j
    PROVE  n \in 0..Len(Newer(s, j)) /\ Newer(Newer(s, j), n) = Newer(s, k)
<1> DEFINE b == Between(s, j, k)
           y == Newer(s, k)
           z == Newer(s, j)
<1>1. b \in Seq(Chars) /\ Len(b) = n /\ z = Join(b, y)
  BY BetweenIs DEF Join
<1>2. y \in Seq(Chars)
  BY PartsAre DEF Parts
<1> HIDE DEF b, y, z
<1>3. n \in 0..Len(z) /\ Newer(z, n) = y
  BY <1>1, <1>2, JoinParts
<1>4. QED BY <1>3 DEF y, z

\* The older part of a text and its newer one.
LEMMA PartsIn ==
    ASSUME NEW s \in Seq(Chars), NEW n \in 0..Len(s)
    PROVE  Older(s, n) \in Seq(Chars) /\ Newer(s, n) \in Seq(Chars)
  BY PartsAre DEF Parts

\* And that it is so.
LEMMA BlockStart ==
    ASSUME NEW e, Sound(e), Placed(e)
    PROVE  LET b == Marked(e)
           IN  Block(e, Text(e), b.start, b.end, BlockLength(b), edit_get_block(e, b))
<1> DEFINE b == Marked(e)
           n == BlockLength(b)
           block == edit_get_block(e, b)
           t == Text(e)
<1>1. Formed(e)
  BY DEF Sound
<1>2. t \in Seq(Chars) /\ Len(t) = LastByte(e) /\ Len(t) \in Nat
  BY <1>1, TextIs
<1>3. /\ b.start \in Int /\ b.end \in Int /\ n \in Nat /\ b.end = b.start + n
      /\ 0 <= b.start /\ b.end <= LastByte(e)
  BY <1>1, MarkedIs
<1> HIDE DEF b
<1>4. block \in Seq(Chars) /\ Len(block) = n
  BY <1>1, <1>3, BlockIs
<1> HIDE DEF n, block, t
<1>5. b.start \in 0..Len(t) /\ b.end \in 0..Len(t) /\ b.start <= b.end /\ n = b.end - b.start
  BY <1>2, <1>3
<1>6. t = Text(e)
  BY DEF t
<1>7. Block(e, t, b.start, b.end, n, block)
  BY <1>2, <1>3, <1>4, <1>5, <1>6 DEF Block
<1>8. QED BY <1>7 DEF b, n, block, t

\* The copy goes in at the cursor.
LEMMA CopyText ==
    ASSUME NEW e, Sound(e), Placed(e), IsMarked(e), NEW at, at = Cursor(e), NEW t, t = Text(e)
    PROVE  Text(edit_block_copy_cmd(e)) =
               Join(Older(t, at), Join(edit_get_block(e, Marked(e)), Newer(t, at)))
<1> DEFINE b == Marked(e)
           block == edit_get_block(e, b)
           x == Older(t, at)
           y == Newer(t, at)
           pushed == edit_push_markers(e)
           filled == InsertBlock(pushed, block)
           copied == edit_scroll_screen_over_cursor(filled)
           marked == edit_set_markers(copied, b.start, b.end + BlockLength(b))
<1>1. Formed(e) /\ Stands(e, x, y)
  BY CursorParts DEF Sound
<1>2. block \in Seq(Chars)
  BY BlockStart DEF Block
<1>3. b.start \in Int /\ b.end + BlockLength(b) \in Int
  BY <1>1, MarkedIs
<1> HIDE DEF block, x, y
<1>4. Follows(e, pushed) /\ Stands(pushed, x, y)
  BY <1>1, PushStands
<1> HIDE DEF pushed
<1>5. Follows(e, filled) /\ Stands(filled, x, Join(block, y))
  BY <1>2, <1>4, BlockStands
<1> HIDE DEF filled
<1>6. Follows(e, copied) /\ Stands(copied, x, Join(block, y))
  BY <1>5, ShownStands
<1> HIDE DEF copied, b
<1>7. Stands(marked, x, Join(block, y))
  BY <1>3, <1>6, MarksStand
<1> HIDE DEF marked
<1>8. edit_block_copy_cmd(e) \in {copied, marked}
  BY DEF edit_block_copy_cmd, copied, marked, filled, pushed, block, b
<1>9. Text(copied) = Join(x, Join(block, y)) /\ Text(marked) = Join(x, Join(block, y))
  BY <1>6, <1>7, StandsText
<1>10. Text(edit_block_copy_cmd(e)) = Join(x, Join(block, y))
  BY <1>8, <1>9
<1>11. QED BY <1>10 DEF x, y, block, b

\* The block goes out of the text.
LEMMA CutStands ==
    ASSUME NEW e, Sound(e), NEW t, NEW j, NEW k, NEW n, NEW block, Block(e, t, j, k, n, block)
    PROVE  LET f == Times("delete",
                          edit_scroll_screen_over_cursor(MoveTo(edit_push_markers(e), j)), n)
           IN  Follows(e, f) /\ Stands(f, Older(t, j), Newer(t, k))
<1> DEFINE pushed == edit_push_markers(e)
           there == MoveTo(pushed, j)
           shown == edit_scroll_screen_over_cursor(there)
           cut == Times("delete", shown, n)
           x == e.before
           y == e.after
           o == Older(t, j)
           r == Newer(t, j)
<1>1. /\ t = Text(e) /\ t \in Seq(Chars) /\ j \in 0..Len(t) /\ k \in 0..Len(t)
      /\ j <= k /\ n = k - j
  BY DEF Block
<1>2. Stands(e, x, y) /\ t = Join(x, y)
  BY <1>1, TextIs DEF Stands, Sound, Text, Join
<1> HIDE DEF x, y
<1>3. Follows(e, pushed) /\ Stands(pushed, x, y)
  BY <1>2, PushStands
<1> HIDE DEF pushed
<1>4. Follows(e, there) /\ Stands(there, o, r)
  BY <1>1, <1>2, <1>3, MoveStands
<1> HIDE DEF there
<1>5. n \in 0..Len(r) /\ Newer(r, n) = Newer(t, k)
  BY <1>1, NewerTwice
<1> HIDE DEF o, r
<1>6. Follows(e, shown) /\ Stands(shown, o, r)
  BY <1>4, ShownStands
<1> HIDE DEF shown
<1>7. Follows(e, cut) /\ Stands(cut, o, Newer(r, n))
  BY <1>5, <1>6, DeleteStands
<1> HIDE DEF cut
<1>8. Stands(cut, o, Newer(t, k))
  BY <1>5, <1>7
<1>9. QED BY <1>7, <1>8 DEF cut, shown, there, pushed, o

\* A delete leaves the rest.
LEMMA RemoveText ==
    ASSUME NEW e, Sound(e), IsMarked(e), NEW t, NEW j, NEW k, NEW n, NEW block,
           Block(e, t, j, k, n, block),
           j = Marked(e).start, n = BlockLength(Marked(e))
    PROVE  Text(edit_block_delete_cmd(e, TRUE)) = Join(Older(t, j), Newer(t, k))
<1> DEFINE cut == Times("delete",
                        edit_scroll_screen_over_cursor(MoveTo(edit_push_markers(e), j)), n)
           x == Older(t, j)
           y == Newer(t, k)
<1>1. Stands(cut, x, y)
  BY CutStands
<1> HIDE DEF x, y
<1>2. edit_block_delete_cmd(e, TRUE) = edit_set_markers(cut, 0, 0)
  BY DEF edit_block_delete_cmd, edit_block_delete, Refused
<1> HIDE DEF cut
<1>3. PICK m \in Int : m = 0
  OBVIOUS
<1>4. Stands(edit_set_markers(cut, m, m), x, y)
  BY <1>1, MarksStand
<1>5. Text(edit_set_markers(cut, m, m)) = Join(x, y)
  BY <1>4, StandsText
<1>6. Text(edit_block_delete_cmd(e, TRUE)) = Join(x, y)
  BY <1>2, <1>3, <1>5
<1>7. QED BY <1>6 DEF x, y

\* The last steps of a move: the marks are set and the screen follows.
LEMMA EndStands ==
    ASSUME NEW e, NEW f, Follows(e, f), NEW x, NEW y, Stands(f, x, y),
           NEW m \in Int, NEW n \in Int
    PROVE  Text(edit_scroll_screen_over_cursor(edit_set_markers(f, m, n))) = Join(x, y)
<1> DEFINE g == edit_set_markers(f, m, n)
           h == edit_scroll_screen_over_cursor(g)
<1>1. Sound(f) /\ Formed(f) /\ Right(f) /\ ~f.push_action_disabled
  BY DEF Follows, Sound
<1>2. Formed(g) /\ SameRing(f, g) /\ SameText(f, g)
  BY <1>1, MarksIs
<1>3. Stands(g, x, y)
  BY MarksStand
<1> HIDE DEF g
<1>4. Right(g)
  BY <1>1, <1>2 DEF Right, SameText, Text, Cursor, LastByte
<1>5. Sound(g)
  BY <1>1, <1>2, <1>4 DEF Sound, SameRing
<1>6. Follows(g, g)
  BY <1>5, FollowsSelf
<1>7. Stands(h, x, y)
  BY <1>3, <1>6, ShownStands
<1> HIDE DEF h
<1>8. Text(h) = Join(x, y)
  BY <1>7, StandsText
<1>9. QED BY <1>8 DEF g, h

\* A move takes the block out and puts it in again where the cursor was.
LEMMA MoveText ==
    ASSUME NEW e, NEW t, NEW j, NEW k, NEW n, NEW block, NEW at,
           Task(e, t, j, k, n, block, at), Outside(at, j, k),
           NEW c, c = Join(Older(t, j), Newer(t, k)),
           NEW p \in 0..Len(c), p = AfterCut(at, Marked(e))
    PROVE  Text(edit_block_move_cmd(e, Agreed)) =
               Join(Older(c, p), Join(block, Newer(c, p)))
<1> DEFINE cut == Times("delete",
                        edit_scroll_screen_over_cursor(MoveTo(edit_push_markers(e), j)), n)
           shown == edit_scroll_screen_over_cursor(cut)
           there == MoveTo(shown, p)
           seen == edit_scroll_screen_over_cursor(there)
           moved == InsertBlock(seen, block)
           ended == edit_scroll_screen_over_cursor(
                        edit_set_markers(moved, Cursor(moved), Cursor(moved) + n))
           x == Older(t, j)
           y == Newer(t, k)
           o == Older(c, p)
           r == Newer(c, p)
<1>1. /\ t \in Seq(Chars) /\ j \in 0..Len(t) /\ k \in 0..Len(t)
      /\ block \in Seq(Chars) /\ n \in Nat
  BY DEF Block, Task
<1>2. Follows(e, cut) /\ Stands(cut, x, y)
  BY CutStands DEF Task
<1> HIDE DEF cut
<1>3. Follows(e, shown) /\ Stands(shown, x, y)
  BY <1>2, ShownStands
<1> HIDE DEF shown, x, y
<1>4. c = Join(x, y)
  BY DEF x, y
<1>5. Follows(e, there) /\ Stands(there, o, r)
  BY <1>3, <1>4, MoveStands
<1> HIDE DEF there, o, r
<1>6. Follows(e, seen) /\ Stands(seen, o, r)
  BY <1>5, ShownStands
<1> HIDE DEF seen
<1>7. Follows(e, moved) /\ Stands(moved, o, Join(block, r))
  BY <1>1, <1>6, BlockStands
<1> HIDE DEF moved
<1>8. Cursor(moved) \in Int /\ Cursor(moved) + n \in Int
  <2>1. Formed(moved)
    BY <1>7 DEF Stands
  <2>2. QED BY <1>1, <2>1, OffsetsIn
<1>9. Text(ended) = Join(o, Join(block, r))
  BY <1>7, <1>8, EndStands
<1> HIDE DEF ended
<1>10. edit_block_move_cmd(e, Agreed) = ended
  <2>1. ~Refused(Marked(e), Agreed)
    BY DEF Refused, Agreed
  <2>2. edit_block_move_cmd(e, Agreed) =
           edit_scroll_screen_over_cursor(
               edit_set_markers(moved, Cursor(moved), Cursor(moved) + BlockLength(Marked(e))))
    BY <2>1 DEF edit_block_move_cmd, MarkInserted, moved, seen, there, shown, cut, Task, Outside
  <2>3. QED BY <2>2 DEF ended, Task
<1>11. QED BY <1>9, <1>10 DEF o, r

\* Four texts.
LEMMA JoinThrice ==
    ASSUME NEW x \in Seq(Chars), NEW y \in Seq(Chars), NEW z \in Seq(Chars), NEW w \in Seq(Chars)
    PROVE  Join(Join(Join(x, y), z), w) = Join(x, Join(y, Join(z, w)))
<1> DEFINE xy == Join(x, y)
           zw == Join(z, w)
<1>1. xy \in Seq(Chars) /\ zw \in Seq(Chars)
  BY JoinIs
<1>2. xy = Join(x, y) /\ zw = Join(z, w)
  OBVIOUS
<1> HIDE DEF xy, zw
<1>3. Join(Join(xy, z), w) = Join(xy, zw)
  BY <1>1, <1>2, JoinTwice
<1>4. Join(Join(x, y), zw) = Join(x, Join(y, zw))
  BY <1>1, JoinTwice
<1>5. QED BY <1>2, <1>3, <1>4

\* The cursor before the block.
LEMMA MoveDown ==
    ASSUME NEW e, NEW t, NEW j, NEW k, NEW n, NEW block, NEW at,
           Task(e, t, j, k, n, block, at), Precedes(at, j)
    PROVE  Text(edit_block_move_cmd(e, Agreed)) =
               Join(Join(Join(Older(t, at), block), Between(t, at, j)), Newer(t, k))
<1> DEFINE x == Older(t, j)
           y == Newer(t, k)
           c == Join(x, y)
           o == Older(t, at)
           b == Between(t, at, j)
<1>1. /\ t \in Seq(Chars) /\ Len(t) \in Nat /\ j \in 0..Len(t) /\ k \in 0..Len(t) /\ j <= k
      /\ block \in Seq(Chars) /\ t = Text(e)
  BY DEF Block, Task
<1>2. at \in 0..Len(t)
  BY <1>1, CursorParts DEF Sound, Task
<1>3. at \in 0..Len(t) /\ at <= j /\ Outside(at, j, k) /\ ~(at > j)
  BY <1>1, <1>2 DEF Precedes, Outside
<1>4. AfterCut(at, Marked(e)) = at
  BY <1>3 DEF AfterCut, Task
<1>5. y \in Seq(Chars) /\ o \in Seq(Chars) /\ b \in Seq(Chars)
  BY <1>1, <1>3, PartsIn, BetweenIs
<1>6. c = Join(Older(t, j), y)
  OBVIOUS
<1>13. c = Join(Older(t, j), Newer(t, k))
  OBVIOUS
<1> HIDE DEF x, c
<1>7. at \in 0..Len(c) /\ Older(c, at) = Older(t, at) /\ Newer(c, at) = Join(Between(t, at, j), y)
  <2> HIDE DEF y, o, b
  <2>1. QED BY <1>1, <1>3, <1>5, <1>6, GapBefore
<1>8. Text(edit_block_move_cmd(e, Agreed)) = Join(Older(c, at), Join(block, Newer(c, at)))
  BY <1>3, <1>4, <1>13, <1>7, MoveText
<1> HIDE DEF y, o, b
<1>9. Older(c, at) = o /\ Newer(c, at) = Join(b, y)
  BY <1>7 DEF o, b
<1>10. Join(Join(Join(o, block), b), y) = Join(o, Join(block, Join(b, y)))
  BY <1>1, <1>5, JoinThrice
<1>11. Text(edit_block_move_cmd(e, Agreed)) = Join(Join(Join(o, block), b), y)
  BY <1>8, <1>9, <1>10
<1>12. QED BY <1>11 DEF o, b, y

\* The cursor behind the block.
LEMMA MoveUp ==
    ASSUME NEW e, NEW t, NEW j, NEW k, NEW n, NEW block, NEW at,
           Task(e, t, j, k, n, block, at), Precedes(k, at)
    PROVE  Text(edit_block_move_cmd(e, Agreed)) =
               Join(Join(Join(Older(t, j), Between(t, k, at)), block), Newer(t, at))
<1> DEFINE x == Older(t, j)
           y == Newer(t, k)
           c == Join(x, y)
           b == Between(t, k, at)
           r == Newer(t, at)
           xb == Join(x, b)
           p == at - n
<1>1. /\ t \in Seq(Chars) /\ Len(t) \in Nat /\ j \in 0..Len(t) /\ k \in 0..Len(t) /\ j <= k
      /\ block \in Seq(Chars) /\ t = Text(e) /\ n = k - j
  BY DEF Block, Task
<1>2. at \in 0..Len(t)
  BY <1>1, CursorParts DEF Sound, Task
<1>3. at \in 0..Len(t) /\ k <= at /\ Outside(at, j, k) /\ at > j
  BY <1>1, <1>2 DEF Precedes, Outside
<1>4. AfterCut(at, Marked(e)) = p
  BY <1>3 DEF AfterCut, Task
<1>5. x \in Seq(Chars) /\ Len(x) = j /\ r \in Seq(Chars) /\ b \in Seq(Chars)
  <2>1. x \in Seq(Chars) /\ Len(x) = j
    BY <1>1, PartsAre DEF Parts
  <2>2. r \in Seq(Chars) /\ b \in Seq(Chars)
    BY <1>1, <1>3, PartsIn, BetweenIs
  <2>3. QED BY <2>1, <2>2
<1>6. c = Join(x, Newer(t, k))
  OBVIOUS
<1>16. c = Join(Older(t, j), Newer(t, k))
  OBVIOUS
<1> HIDE DEF x, c
<1>7. p \in Int /\ p <= Len(x) + (at - k) /\ p >= Len(x) + (at - k)
  BY <1>1, <1>3, <1>5
<1> HIDE DEF p
<1>8. p \in 0..Len(c) /\ Older(c, p) = Join(x, Between(t, k, at)) /\ Newer(c, p) = Newer(t, at)
  <2> HIDE DEF y, b, r, xb
  <2>1. t \in Seq(Chars) /\ k \in 0..Len(t)
    BY <1>1
  <2>2. at \in 0..Len(t) /\ k <= at
    BY <1>3
  <2>3. x \in Seq(Chars)
    BY <1>5
  <2>4. QED BY <1>6, <1>7, <2>1, <2>2, <2>3, GapBehind
<1>9. Text(edit_block_move_cmd(e, Agreed)) = Join(Older(c, p), Join(block, Newer(c, p)))
  BY <1>3, <1>4, <1>16, <1>8, MoveText
<1> HIDE DEF b, r
<1>10. xb \in Seq(Chars)
  BY <1>5, JoinIs
<1>11. Older(c, p) = xb /\ Newer(c, p) = r
  BY <1>8 DEF b, r
<1>12. xb = Join(x, b)
  OBVIOUS
<1> HIDE DEF xb
<1>13. Join(Join(xb, block), r) = Join(xb, Join(block, r))
  BY <1>1, <1>5, <1>10, JoinTwice
<1>14. Text(edit_block_move_cmd(e, Agreed)) = Join(Join(Join(x, b), block), r)
  BY <1>9, <1>11, <1>12, <1>13
<1>15. QED BY <1>14 DEF x, b, r

\* The block commands do what the marks say, in every buffer that is sound.
LEMMA BlocksStand ==
    ASSUME Sound(edit), Placed(edit)
    PROVE  BlocksAsMarked
<1>1. SUFFICES ASSUME IsMarked(edit) PROVE BlocksAsMarked
  BY DEF BlocksAsMarked
<1> DEFINE b == Marked(edit)
           block == edit_get_block(edit, b)
           n == BlockLength(b)
<1>2. PICK at : at = Cursor(edit)
  OBVIOUS
<1>3. PICK t : t = Text(edit)
  OBVIOUS
<1>4. PICK j, k : j = b.start /\ k = b.end
  OBVIOUS
<1>5. Block(edit, t, j, k, n, block)
  BY <1>3, <1>4, BlockStart
<1>17. Task(edit, t, j, k, n, block, at)
  BY <1>1, <1>2, <1>4, <1>5 DEF Task
<1>6. Formed(edit) /\ at \in 0..Len(t) /\ t \in Seq(Chars) /\ Len(t) = LastByte(edit)
  <2>1. Formed(edit)
    BY DEF Sound
  <2>2. QED BY <1>2, <1>3, <2>1, CursorParts, TextIs
<1>7. /\ j \in 0..Len(t) /\ k \in 0..Len(t) /\ j <= k /\ block \in Seq(Chars) /\ Len(t) \in Nat
  BY <1>5 DEF Block
<1>8. /\ \A i : Before(edit, i) = Older(t, i)
      /\ \A i : Behind(edit, i) = Newer(t, i)
      /\ \A i, l : SubSeq(Text(edit), i + 1, l) = Between(t, i, l)
  BY <1>3, <1>6 DEF Before, Behind, Older, Newer, Between
<1>9. Text(edit_block_copy_cmd(edit)) = Join(Join(Older(t, at), block), Newer(t, at))
  <2>1. Text(edit_block_copy_cmd(edit)) = Join(Older(t, at), Join(block, Newer(t, at)))
    BY <1>1, <1>2, <1>3, CopyText
  <2> HIDE DEF block
  <2>2. Older(t, at) \in Seq(Chars) /\ Newer(t, at) \in Seq(Chars)
    BY <1>6, PartsIn
  <2>3. QED BY <1>7, <2>1, <2>2, JoinTwice
<1>10. Text(edit_block_delete_cmd(edit, TRUE)) = Join(Older(t, j), Newer(t, k))
  BY <1>1, <1>4, <1>5, RemoveText
<1>11. ASSUME Precedes(at, j)
       PROVE  Text(edit_block_move_cmd(edit, Agreed)) =
                  Join(Join(Join(Older(t, at), block), Between(t, at, j)), Newer(t, k))
  BY <1>17, <1>11, MoveDown
<1>12. ASSUME Precedes(k, at)
       PROVE  Text(edit_block_move_cmd(edit, Agreed)) =
                  Join(Join(Join(Older(t, j), Between(t, k, at)), block), Newer(t, at))
  BY <1>17, <1>12, MoveUp
<1>13. ASSUME ~(at < j), ~(at > k)
       PROVE  Text(edit_block_move_cmd(edit, TRUE)) = t
  <2>1. at \in j..k
    BY <1>6, <1>7, <1>13
  <2>2. Cursor(edit) \in Marked(edit).start..Marked(edit).end
    BY <1>2, <1>4, <2>1
  <2> HIDE DEF b, block, n
  <2>3. edit_block_move_cmd(edit, TRUE) = edit
    BY <2>2 DEF edit_block_move_cmd
  <2>4. QED BY <1>3, <2>3
<1>14. /\ Text(edit_block_copy_cmd(edit)) = Before(edit, at) \o block \o Behind(edit, at)
       /\ Text(edit_block_delete_cmd(edit, TRUE)) = Before(edit, j) \o Behind(edit, k)
  <2> HIDE DEF b, block, n
  <2>1. QED BY <1>8, <1>9, <1>10 DEF Join
<1>15. Text(edit_block_move_cmd(edit, TRUE)) =
         IF at < j
         THEN Before(edit, at) \o block \o SubSeq(Text(edit), at + 1, j) \o Behind(edit, k)
         ELSE IF at > k
         THEN Before(edit, j) \o SubSeq(Text(edit), k + 1, at) \o block \o Behind(edit, at)
         ELSE Text(edit)
  <2> HIDE DEF b, block, n
  <2>1. at < j => Text(edit_block_move_cmd(edit, TRUE)) =
            Before(edit, at) \o block \o SubSeq(Text(edit), at + 1, j) \o Behind(edit, k)
    BY <1>8, <1>11 DEF Join, Precedes, Agreed
  <2>2. at > k => Text(edit_block_move_cmd(edit, TRUE)) =
            Before(edit, j) \o SubSeq(Text(edit), k + 1, at) \o block \o Behind(edit, at)
    BY <1>8, <1>12 DEF Join, Precedes, Agreed
  <2>3. QED BY <1>3, <1>13, <2>1, <2>2
<1>16. QED BY <1>2, <1>4, <1>14, <1>15 DEF BlocksAsMarked

\* In every reachable state that is not misled a copy puts the marked block in
\* at the cursor, a delete takes it out and a move takes it to the cursor: the
\* arithmetic of the block commands on the offsets is right wherever the
\* cursor and the marks are.
THEOREM BlocksAlwaysAsMarked == Spec => [](edit.misled \/ BlocksAsMarked)
<1>1. Invariant => edit.misled \/ BlocksAsMarked
  <2>1. ASSUME Invariant, ~edit.misled PROVE BlocksAsMarked
    <3>1. Sound(edit) /\ Placed(edit)
      BY <2>1 DEF Invariant, Steady, Remembers, Good
    <3>2. QED BY <3>1, BlocksStand
  <2>2. QED BY <2>1
<1>2. QED BY <1>1, InvariantAlways, PTL

-----------------------------------------------------------------------------
(* The key that is typed stays in the ring.                                *)

\* Such a ring, with the same entries.
LEMMA KeptSame ==
    ASSUME NEW e, Depth(e) \in Nat, NEW f, Depth(f) = Depth(e),
           \A k \in 0..Depth(e) - 1 : IsKey(Item(e, k)) => IsKey(Item(f, k)),
           NEW j \in Nat, Kept(e, j)
    PROVE  Kept(f, j)
<1>1. PICK p \in 0..Depth(e) - 1 : IsKey(Item(e, p)) /\ Depth(e) - p <= j
  BY DEF Kept
<1>2. Depth(e) > 0 /\ IsKey(Item(e, 0))
  BY DEF Kept
<1>3. IsKey(Item(f, p)) /\ IsKey(Item(f, 0))
  BY <1>1, <1>2
<1>4. QED BY <1>1, <1>2, <1>3 DEF Kept

\* A full ring forgets older keys.
LEMMA RoomKept ==
    ASSUME NEW g, Formed(g), NEW j \in Nat, Kept(g, j), Depth(g) <= g.stack_size - 3,
           Depth(g) = g.stack_size - 3 => j < Depth(g)
    PROVE  LET f == EmptyUnlessKey(MakeRoom(g))
           IN  Kept(f, j) /\ f.misled = g.misled
<1> DEFINE h == MakeRoom(g)
           f == EmptyUnlessKey(h)
           d == Depth(g)
<1>1. g.stack_size \in Nat /\ g.stack_size >= 5 /\ d \in Nat
  BY SlotIn, Places
<1>2. /\ Formed(h) /\ h.misled = g.misled
      /\ d # g.stack_size - 3 => h = g
      /\ d = g.stack_size - 3 => h = ForgetKey(g)
  <2>1. d # g.stack_size - 2
    BY <1>1
  <2>2. QED BY <2>1, RoomIs DEF Kin
<1>3. PICK p \in 0..d - 1 : IsKey(Item(g, p)) /\ d - p <= j
  BY DEF Kept
<1>4. d > 0 /\ IsKey(Item(g, 0))
  BY DEF Kept
<1> HIDE DEF h
<1>5. Kept(h, j)
  <2>1. CASE d # g.stack_size - 3
    <3>1. h = g
      BY <1>2, <2>1
    <3>2. QED BY <3>1
  <2>2. CASE d = g.stack_size - 3
    <3>1. PICK m \in 1..d :
             /\ Depth(h) = d - m
             /\ \A i \in 0..Depth(h) - 1 : Item(h, i) = Item(g, i + m)
             /\ m < d => IsKey(Item(g, m))
             /\ \A i \in 1..m - 1 : ~IsKey(Item(g, i))
      BY <1>2, <1>4, <2>2, ForgetKeyIs
    <3>2. p \in 1..d - 1
      BY <1>1, <1>3, <2>2
    <3>3. m <= p
      <4>1. SUFFICES ASSUME ~(m <= p) PROVE FALSE
        OBVIOUS
      <4>2. p \in 1..m - 1
        BY <1>1, <3>2, <4>1
      <4>3. QED BY <1>3, <3>1, <4>2
    <3>4. PICK q \in Nat : q = p - m
      BY <3>2, <3>3
    <3>5. q \in 0..Depth(h) - 1 /\ Depth(h) - q <= j /\ Depth(h) > 0 /\ q + m = p
      BY <1>1, <1>3, <3>1, <3>2, <3>3, <3>4
    <3>6. IsKey(Item(h, q))
      BY <1>3, <3>1, <3>5
    <3>7. IsKey(Item(h, 0))
      <4>1. m < d
        BY <1>1, <3>2, <3>3
      <4>2. IsKey(Item(g, m))
        BY <3>1, <4>1
      <4>3. 0 \in 0..Depth(h) - 1 /\ 0 + m = m
        BY <1>1, <3>1, <4>1
      <4>4. Item(h, 0) = Item(g, 0 + m)
        BY <3>1, <4>3
      <4>5. QED BY <4>2, <4>3, <4>4
    <3>8. QED BY <3>5, <3>6, <3>7 DEF Kept
  <2>3. QED BY <2>1, <2>2
<1>6. IsKey(Item(h, 0))
  BY <1>5 DEF Kept
<1>7. f = h
  BY <1>2, <1>6, EmptyIs
<1>8. QED BY <1>2, <1>5, <1>7 DEF h

\* What is stored leaves it so.
LEMMA StoreKept ==
    ASSUME MaxUndo >= 11, NEW e, Formed(e), Shape(e), Roomy(e), NEW c \in Entries,
           NEW i \in 1..7, Kept(Stored(e, c), i)
    PROVE  LET f == Store(e, c)
           IN  Kept(f, i) /\ f.misled = e.misled
<1> DEFINE g == Stored(e, c)
<1>1. /\ e.stack_size \in Nat /\ e.stack_size >= 5 /\ Depth(e) \in Nat
      /\ Depth(e) <= e.stack_size - 4 /\ e.stack_pointer \in 0..e.stack_size - 1
  BY SlotIn, Places DEF Shape
<1>2. /\ Formed(g) /\ g.stack_size = e.stack_size /\ g.misled = e.misled
      /\ Depth(g) = Depth(e) + 1
  BY <1>1, StoredIs DEF Kin
<1> HIDE DEF g
<1>3. Kept(g, i) /\ i \in Nat /\ i <= 7
  BY DEF g
<1>4. Depth(g) <= g.stack_size - 3
  BY <1>1, <1>2
<1>5. Depth(g) = g.stack_size - 3 => i < Depth(g)
  <2>1. SUFFICES ASSUME Depth(g) = g.stack_size - 3 PROVE i < Depth(g)
    OBVIOUS
  <2>2. Depth(e) = e.stack_size - 4
    BY <1>1, <1>2, <2>1
  <2>3. ~(e.stack_size < MaxUndo)
    <3>1. SUFFICES ASSUME e.stack_size < MaxUndo PROVE FALSE
      OBVIOUS
    <3>2. e.stack_bottom = 0 /\ e.stack_pointer <= e.stack_size - StackMargin
      BY <3>1 DEF Shape, Roomy
    <3>3. PICK s \in Nat, q \in Int : s = e.stack_size /\ q = e.stack_pointer
      BY <1>1
    <3>4. s > 0 /\ q \in 0..s - 1
      BY <1>1, <3>3
    <3>5. q % s = q
      BY <3>4, Around
    <3>6. e.stack_pointer - e.stack_bottom = q
      BY <3>2, <3>3
    <3>7. Depth(e) = q
      BY <3>3, <3>5, <3>6 DEF Depth, Slot
    <3>8. QED BY <1>1, <2>2, <3>2, <3>3, <3>7, Bounds
  <2>4. QED BY <1>1, <1>2, <1>3, <2>1, <2>3, Bounds
<1>6. Kept(EmptyUnlessKey(MakeRoom(g)), i) /\ EmptyUnlessKey(MakeRoom(g)).misled = g.misled
  BY <1>2, <1>3, <1>4, <1>5, RoomKept
<1>7. QED BY <1>2, <1>6 DEF Store, g

\* What is stored, on top of such a ring.
LEMMA StoredKept ==
    ASSUME NEW e, Formed(e), Shape(e), NEW c \in Entries, NEW j \in Nat, Kept(e, j),
           NEW i, i = j + 1
    PROVE  Kept(Stored(e, c), i)
<1> DEFINE g == Stored(e, c)
<1>1. /\ e.stack_size \in Nat /\ Depth(e) \in Nat /\ Depth(e) <= e.stack_size - 2
  BY SlotIn, Places DEF Shape
<1>2. /\ Depth(g) = Depth(e) + 1
      /\ \A k \in 0..Depth(e) - 1 : Item(g, k) = Item(e, k)
  BY <1>1, StoredIs
<1> HIDE DEF g
<1>3. PICK p \in 0..Depth(e) - 1 : IsKey(Item(e, p)) /\ Depth(e) - p <= j
  BY DEF Kept
<1>4. Depth(e) > 0 /\ IsKey(Item(e, 0))
  BY DEF Kept
<1>5. IsKey(Item(g, p)) /\ IsKey(Item(g, 0))
  <2>1. Item(g, p) = Item(e, p)
    BY <1>2, <1>3
  <2>2. 0 \in 0..Depth(e) - 1
    BY <1>1, <1>4
  <2>3. Item(g, 0) = Item(e, 0)
    BY <1>2, <2>2
  <2>4. QED BY <1>3, <1>4, <2>1, <2>3
<1>6. p \in 0..Depth(g) - 1 /\ Depth(g) - p <= i /\ Depth(g) > 0
  BY <1>1, <1>2, <1>3
<1>7. Kept(g, i)
  BY <1>5, <1>6 DEF Kept
<1>8. QED BY <1>7 DEF g

\* A key that is stored begins one.
LEMMA StoredKey ==
    ASSUME NEW e, Formed(e), Shape(e), NEW c \in Entries, IsKey(c),
           Depth(e) > 0 => IsKey(Item(e, 0)), NEW i, i = 1
    PROVE  Kept(Stored(e, c), i)
<1> DEFINE g == Stored(e, c)
<1>1. /\ e.stack_size \in Nat /\ Depth(e) \in Nat /\ Depth(e) <= e.stack_size - 2
  BY SlotIn, Places DEF Shape
<1>2. /\ Depth(g) = Depth(e) + 1
      /\ \A k \in 0..Depth(e) - 1 : Item(g, k) = Item(e, k)
      /\ Item(g, Depth(e)) = c
  BY <1>1, StoredIs
<1> HIDE DEF g
<1>3. PICK d \in Nat : d = Depth(e)
  BY <1>1
<1>4. IsKey(Item(g, d)) /\ d \in 0..Depth(g) - 1 /\ Depth(g) - d <= i /\ Depth(g) > 0
  BY <1>2, <1>3
<1>5. IsKey(Item(g, 0))
  <2>1. CASE d = 0
    BY <1>4, <2>1
  <2>2. CASE d > 0
    <3>1. 0 \in 0..Depth(e) - 1
      BY <1>3, <2>2
    <3>2. Item(g, 0) = Item(e, 0)
      BY <1>2, <3>1
    <3>3. QED BY <1>3, <2>2, <3>2
  <2>3. QED BY <1>3, <2>1, <2>2
<1>6. Kept(g, i)
  BY <1>4, <1>5 DEF Kept
<1>7. QED BY <1>6 DEF g

\* A push of such an entry keeps the key and annihilates nothing.
LEMMA OntoKept ==
    ASSUME MaxUndo >= 11, NEW e, Formed(e), Shape(e), Roomy(e), NEW c, Plain(c),
           NEW j \in 1..6, Kept(e, j), NEW i, i = j + 1
    PROVE  LET f == PushOnto(e, c)
           IN  Kept(f, i) /\ f.misled = e.misled
<1> DEFINE top == Slot(e, e.stack_pointer - 1)
           compared == e.stack_bottom \notin {top, Slot(e, e.stack_pointer - 2)}
           last == LastEntry(e)
           same == compared /\ last = c
           d == Depth(e)
           f == PushOnto(e, c)
<1>1. f = IF same /\ IsKey(c) THEN e
          ELSE IF same /\ Repeated(e) THEN [e EXCEPT !.undo_stack[top].n = @ + 1]
          ELSE IF compared /\ Opposite(c, last) THEN Annihilate(e)
          ELSE Store(e, IF same THEN Entry("times", 2) ELSE c)
  BY DEF PushOnto
<1>2. ~IsKey(c) /\ ~Opposite(c, last) /\ c \in Entries
  BY DEF Plain, IsKey, Opposite
<1>3. /\ top \in 0..e.stack_size - 1 /\ Top(e) \in Entries
      /\ Top(e) = e.undo_stack[top]
      /\ d >= 1 => Top(e) = Item(e, d - 1)
  BY TopIs DEF Top
<1>4. d \in Nat /\ d > 0 /\ IsKey(Item(e, 0))
  BY Places DEF Kept
<1>5. i \in 1..7 /\ j \in Nat /\ j <= i /\ i \in Nat
  OBVIOUS
<1> HIDE DEF f, top, last
<1>6. CASE same /\ Repeated(e)
  <2> DEFINE n == Top(e).n + 1
  <2>1. n \in Int /\ n = Top(e).n + 1
    BY <1>3 DEF Entries
  <2>2. f = WithCount(e, top, n)
    BY <1>1, <1>2, <1>3, <1>6 DEF WithCount
  <2> HIDE DEF n
  <2>3. /\ Depth(f) = d
        /\ \A k \in 0..d - 2 : Item(f, k) = Item(e, k)
    BY <1>4, <1>6, <2>1, <2>2, CountItems DEF top
  <2>4. f.misled = e.misled
    <3>1. e.undo_stack[top].op = "times"
      BY <1>3, <1>6 DEF Repeated
    <3>2. QED BY <1>3, <2>1, <2>2, <3>1, WithCountIs
  <2>5. ~IsKey(Item(e, d - 1))
    BY <1>3, <1>4, <1>6 DEF Repeated, IsKey
  <2>6. \A k \in 0..d - 1 : IsKey(Item(e, k)) => IsKey(Item(f, k))
    <3>1. ASSUME NEW k \in 0..d - 1, IsKey(Item(e, k)) PROVE IsKey(Item(f, k))
      <4>1. k # d - 1
        BY <2>5, <3>1
      <4>2. k \in 0..d - 2
        BY <1>4, <4>1
      <4>3. QED BY <2>3, <3>1, <4>2
    <3>2. QED BY <3>1
  <2>7. Kept(f, j)
    BY <1>4, <1>5, <2>3, <2>6, KeptSame
  <2>8. PICK p \in 0..d - 1 : IsKey(Item(f, p)) /\ d - p <= j
    BY <2>3, <2>7 DEF Kept
  <2>9. Kept(f, i)
    <3>1. d - p <= i
      BY <1>4, <1>5, <2>8
    <3>2. QED BY <2>3, <2>7, <2>8, <3>1 DEF Kept
  <2>10. QED BY <2>4, <2>9 DEF f
<1>7. CASE ~(same /\ Repeated(e))
  <2> DEFINE s == IF same THEN Entry("times", 2) ELSE c
  <2>1. f = Store(e, s)
    BY <1>1, <1>2, <1>7
  <2>2. s \in Entries
    BY <1>2 DEF Entry, Entries, Ops
  <2> HIDE DEF s
  <2>3. Kept(Stored(e, s), i)
    BY <1>5, <2>2, StoredKept
  <2>4. Kept(f, i) /\ f.misled = e.misled
    BY <1>5, <2>1, <2>2, <2>3, StoreKept
  <2>5. QED BY <2>4 DEF f
<1>8. QED BY <1>6, <1>7

\* The same through the growth of the ring.
LEMMA PushKept ==
    ASSUME MaxUndo >= 11, NEW e, Formed(e), Shape(e), ~e.push_action_disabled,
           NEW c, Plain(c), NEW j \in 1..6, Kept(e, j), NEW i, i = j + 1
    PROVE  LET f == edit_push_action(e, c)
           IN  Kept(f, i) /\ f.misled = e.misled
<1> DEFINE g == Enlarge(e)
<1>1. /\ Kin(e, g) /\ Shape(g) /\ Roomy(g) /\ Depth(g) = Depth(e) /\ g.misled = e.misled
      /\ \A k \in 0..Depth(e) - 1 : Item(g, k) = Item(e, k)
  BY EnlargeFits
<1>2. edit_push_action(e, c) = PushOnto(g, c)
  BY DEF edit_push_action
<1> HIDE DEF g
<1>3. Formed(g) /\ Depth(e) \in Nat /\ j \in Nat
  BY <1>1, Places DEF Kin
<1>4. Kept(g, j)
  BY <1>1, <1>3, KeptSame
<1>5. Kept(PushOnto(g, c), i) /\ PushOnto(g, c).misled = g.misled
  BY <1>1, <1>3, <1>4, OntoKept
<1>6. QED BY <1>1, <1>2, <1>5

\* The same through a primitive.
LEMMA ViaKept ==
    ASSUME MaxUndo >= 11, NEW e, NEW f, NEW c, Plain(c), Via(e, c, f),
           Formed(e), Shape(e), ~e.push_action_disabled,
           NEW j \in 1..6, Kept(e, j), NEW i, i = j + 1
    PROVE  Kept(f, i) /\ f.misled = e.misled
<1>1. PICK g : Formed(g) /\ SameRing(e, g) /\ SameRing(edit_push_action(g, c), f)
  BY DEF Via
<1> DEFINE h == edit_push_action(g, c)
<1>2. /\ Shape(g) /\ Depth(g) = Depth(e) /\ \A k : Item(g, k) = Item(e, k)
  BY <1>1, SameFits
<1>3. ~g.push_action_disabled /\ g.misled = e.misled
  BY <1>1 DEF SameRing
<1>4. Depth(e) \in Nat /\ j \in Nat
  BY Places
<1>5. Kept(g, j)
  BY <1>2, <1>4, KeptSame
<1>6. Kept(h, i) /\ h.misled = g.misled
  BY <1>1, <1>2, <1>3, <1>5, PushKept
<1> HIDE DEF h
<1>7. SameRing(h, f)
  BY <1>1 DEF h
<1>8. f.misled = e.misled /\ Kept(f, i)
  <2>1. Depth(f) = Depth(h) /\ \A k : Item(f, k) = Item(h, k)
    BY <1>7, SameFits
  <2>2. Kept(f, i)
    BY <1>6, <2>1 DEF Kept
  <2>3. QED BY <1>3, <1>6, <1>7, <2>2 DEF SameRing
<1>9. QED BY <1>8

\* The key itself: it is the newest entry, or in the memory of an empty ring.
LEMMA KeyKept ==
    ASSUME MaxUndo >= 11, NEW e, Formed(e), Shape(e), ~e.push_action_disabled,
           Depth(e) > 0 => IsKey(Item(e, 0)), ~StaleKey(e),
           NEW c, c = Entry("key", e.start_display), NEW i, i = 2
    PROVE  LET f == edit_push_action(e, c)
           IN  Kept(f, i) /\ f.misled = e.misled
<1> DEFINE g == Enlarge(e)
           top == Slot(g, g.stack_pointer - 1)
           compared == g.stack_bottom \notin {top, Slot(g, g.stack_pointer - 2)}
           last == LastEntry(g)
           same == compared /\ last = c
           d == Depth(g)
           f == PushOnto(g, c)
<1>1. /\ Kin(e, g) /\ Shape(g) /\ Roomy(g) /\ d = Depth(e) /\ g.misled = e.misled
      /\ \A k \in 0..Depth(e) - 1 : Item(g, k) = Item(e, k)
  BY EnlargeFits
<1>2. edit_push_action(e, c) = f
  BY DEF edit_push_action
<1>3. f = IF same /\ IsKey(c) THEN g
          ELSE IF same /\ Repeated(g) THEN [g EXCEPT !.undo_stack[top].n = @ + 1]
          ELSE IF compared /\ Opposite(c, last) THEN Annihilate(g)
          ELSE Store(g, IF same THEN Entry("times", 2) ELSE c)
  BY DEF PushOnto
<1>4. IsKey(c) /\ c \in Entries /\ ~Opposite(c, last)
  <2>1. e.start_display \in Int
    BY DEF Formed, Edits
  <2>2. c.op = "key" /\ c.n = e.start_display /\ c \in Entries
    BY <2>1 DEF Entry, Entries, Ops
  <2>3. QED BY <2>2 DEF IsKey, Opposite
<1>5. ~(IsEmpty(e) /\ last = c)
  BY DEF StaleKey
<1> HIDE DEF g, f
<1>6. Formed(g)
  BY <1>1 DEF Kin
<1>7. /\ d \in Nat /\ (compared => d = 0 \/ d >= 3) /\ (IsEmpty(e) <=> d = 0)
  BY <1>1, <1>6, Places
<1>8. d > 0 => IsKey(Item(g, 0))
  <2>1. SUFFICES ASSUME d > 0 PROVE IsKey(Item(g, 0))
    OBVIOUS
  <2>2. 0 \in 0..Depth(e) - 1 /\ Depth(e) > 0
    BY <1>1, <1>7, <2>1
  <2>3. QED BY <1>1, <2>2
<1>9. CASE same
  <2>1. f = g /\ d >= 3
    BY <1>3, <1>4, <1>5, <1>7, <1>9
  <2>2. /\ Top(g) = Item(g, d - 1) /\ UnderTop(g) = Item(g, d - 2)
    <3>1. d >= 1 => Top(g) = Item(g, d - 1)
      BY <1>6, TopIs
    <3>2. d >= 2 => UnderTop(g) = Item(g, d - 2)
      BY <1>6, TopIs
    <3>3. QED BY <1>7, <2>1, <3>1, <3>2
  <2>3. IsKey(Item(g, d - 1)) \/ IsKey(Item(g, d - 2))
    BY <1>4, <1>9, <2>2 DEF LastEntry
  <2> HIDE DEF d, same
  <2>4. PICK q \in 0..d - 1 : IsKey(Item(g, q)) /\ d - q <= i
    <3>1. PICK y \in 0..d - 1, z \in 0..d - 1 : y = d - 1 /\ z = d - 2
      BY <1>7, <2>1
    <3>2. d - y <= i /\ d - z <= i
      BY <1>7, <3>1
    <3>3. IsKey(Item(g, y)) \/ IsKey(Item(g, z))
      BY <2>3, <3>1
    <3>4. QED BY <3>2, <3>3
  <2>5. Kept(g, i)
    BY <1>7, <1>8, <2>1, <2>4 DEF Kept, d
  <2>6. QED BY <1>1, <1>2, <2>1, <2>5
<1>10. CASE ~same
  <2>1. f = Store(g, c)
    BY <1>3, <1>4, <1>10
  <2> HIDE DEF d, same, last, compared
  <2>2. PICK one \in 1..7 : one = 1
    OBVIOUS
  <2>3. Kept(Stored(g, c), one)
    BY <1>1, <1>4, <1>6, <1>8, <2>2, StoredKey DEF d
  <2>4. Kept(f, one) /\ f.misled = g.misled
    BY <1>1, <1>4, <1>6, <2>1, <2>2, <2>3, StoreKept
  <2>5. PICK p \in 0..Depth(f) - 1 : IsKey(Item(f, p)) /\ Depth(f) - p <= one
    BY <2>4 DEF Kept
  <2>6. Formed(f)
    <3>1. Kin(g, f)
      BY <1>4, <1>6, <2>1, StoreKin
    <3>2. QED BY <3>1 DEF Kin
  <2>7. Depth(f) \in Int /\ Depth(f) - p <= i
    <3>1. Depth(f) \in Int
      BY <2>6, Places
    <3>2. QED BY <2>2, <2>5, <3>1
  <2>8. Kept(f, i)
    BY <2>4, <2>5, <2>7 DEF Kept
  <2>9. QED BY <1>1, <1>2, <2>4, <2>8
<1>11. QED BY <1>9, <1>10

\* A key can be as far down as one likes.
LEMMA KeptMore ==
    ASSUME NEW e, Formed(e), NEW j \in Nat, NEW i \in Nat, j <= i, Kept(e, j)
    PROVE  Kept(e, i)
<1>1. PICK p \in 0..Depth(e) - 1 : IsKey(Item(e, p)) /\ Depth(e) - p <= j
  BY DEF Kept
<1>2. Depth(e) \in Nat
  BY Places
<1>3. Depth(e) - p <= i
  BY <1>1, <1>2
<1>4. Depth(e) > 0 /\ IsKey(Item(e, 0))
  BY DEF Kept
<1>5. QED BY <1>1, <1>3, <1>4 DEF Kept

\* What that is.
LEMMA IntactIs ==
    ASSUME NEW e, NEW j, Intact(e, j)
    PROVE  /\ Sound(e) /\ Formed(e) /\ Placed(e) /\ Shape(e) /\ ~e.push_action_disabled
           /\ Kept(e, j) /\ ~e.misled /\ Remembers(e)
  BY DEF Intact, Sound, Remembers, Good

\* What follows remembers as well.
LEMMA IntactAfter ==
    ASSUME NEW e, NEW j, Intact(e, j), NEW f, Follows(e, f), NEW i, Kept(f, i),
           f.misled = e.misled
    PROVE  Intact(f, i)
<1>1. Remembers(e) /\ ~e.misled /\ ~f.misled
  BY IntactIs
<1>2. PICK log \in Seq(AllSeen) : Good(e, log, 0)
  BY <1>1 DEF Remembers
<1>3. Sound(f) /\ Good(f, log, 0)
  BY <1>1, <1>2 DEF Follows
<1>4. Remembers(f)
  BY <1>3 DEF Remembers
<1>5. QED BY <1>1, <1>3, <1>4 DEF Intact

\* What does not touch the ring.
LEMMA IntactRing ==
    ASSUME NEW e, NEW j, Intact(e, j), NEW f, Follows(e, f), SameRing(e, f)
    PROVE  Intact(f, j)
<1>1. Kept(e, j)
  BY IntactIs
<1>2. Depth(f) = Depth(e) /\ \A k : Item(f, k) = Item(e, k)
  BY SameFits
<1>3. Kept(f, j)
  BY <1>1, <1>2 DEF Kept
<1>4. f.misled = e.misled
  BY DEF SameRing
<1>5. QED BY <1>3, <1>4, IntactAfter

\* A mark that is pushed.
LEMMA IntactMark ==
    ASSUME MaxUndo >= 11, NEW e, NEW j \in 1..6, Intact(e, j), NEW i, i = j + 1, NEW c,
           c = Entry("mark1", e.mark1) \/ c = Entry("mark2", e.mark2)
    PROVE  LET f == edit_push_action(e, c)
           IN  Intact(f, i) /\ Pushed(e, f)
<1> DEFINE f == edit_push_action(e, c)
<1>1. Sound(e) /\ Formed(e) /\ Shape(e) /\ ~e.push_action_disabled /\ Kept(e, j)
  BY IntactIs
<1>2. Follows(e, f) /\ Pushed(e, f)
  BY <1>1, MarkFollows
<1>3. Plain(c)
  <2>1. e.mark1 \in Int /\ e.mark2 \in Int
    BY <1>1 DEF Formed, Edits
  <2>2. QED BY <2>1 DEF Plain, Entry, Entries, Ops
<1>4. Kept(f, i) /\ f.misled = e.misled
  BY <1>1, <1>3, PushKept
<1> HIDE DEF f
<1>5. Intact(f, i)
  BY <1>2, <1>4, IntactAfter
<1>6. QED BY <1>2, <1>5 DEF f

\* Both marks.
LEMMA IntactMarkers ==
    ASSUME MaxUndo >= 11, NEW e, NEW j \in 1..5, Intact(e, j), NEW i, i = j + 2
    PROVE  Intact(edit_push_markers(e), i)
<1> DEFINE c == Entry("mark1", e.mark1)
           d == Entry("mark2", e.mark2)
           f == edit_push_action(e, c)
           g == edit_push_action(f, d)
<1>1. PICK k \in 1..6 : k = j + 1
  OBVIOUS
<1>2. j \in 1..6 /\ i = k + 1
  BY <1>1
<1>3. Intact(f, k) /\ Pushed(e, f)
  BY <1>1, <1>2, IntactMark
<1> HIDE DEF f
<1>4. d = Entry("mark2", f.mark2)
  BY <1>3 DEF Pushed, SameScreen
<1> HIDE DEF d
<1>5. Intact(g, i)
  BY <1>2, <1>3, <1>4, IntactMark
<1>6. edit_push_markers(e) = g
  BY DEF edit_push_markers, f, d
<1>7. QED BY <1>5, <1>6

\* The end of a marking.
LEMMA IntactMarked ==
    ASSUME MaxUndo >= 11, NEW e, NEW j \in 1..5, Intact(e, j), NEW i, i = j + 2
    PROVE  Intact(edit_mark_cmd(e, FALSE), i)
<1> DEFINE g == edit_push_markers(e)
           f == SetMark(g, FALSE)
<1>1. Sound(e)
  BY IntactIs
<1>2. Follows(e, g)
  BY <1>1, MarkersFollow
<1>3. Follows(e, f)
  <2>1. PICK u \in BOOLEAN : u = FALSE
    OBVIOUS
  <2>2. Follows(e, edit_mark_cmd(e, u))
    BY <1>1, MarkCommandFollows
  <2>3. QED BY <2>1, <2>2 DEF edit_mark_cmd
<1>4. Intact(g, i)
  BY IntactMarkers
<1> HIDE DEF g
<1>5. Formed(g) /\ Kept(g, i)
  BY <1>4, IntactIs
<1>6. SameRing(g, f)
  <2>1. Cursor(g) \in Int /\ Following \in Int /\ g.mark1 \in Int
    BY <1>5, OffsetsIn DEF Following, Formed, Edits
  <2>2. /\ SameRing(g, edit_set_markers(g, Cursor(g), Following))
        /\ SameRing(g, edit_set_markers(g, g.mark1, Cursor(g)))
    BY <1>5, <2>1, MarksIs
  <2>3. QED BY <2>2 DEF SetMark
<1> HIDE DEF f
<1>7. Kept(f, i)
  <2>1. Depth(f) = Depth(g) /\ \A k : Item(f, k) = Item(g, k)
    BY <1>6, SameFits
  <2>2. QED BY <1>5, <2>1 DEF Kept
<1>8. f.misled = e.misled
  <2>1. ~g.misled /\ ~e.misled /\ e.misled \in BOOLEAN /\ g.misled \in BOOLEAN
    BY <1>1, <1>4, <1>5, IntactIs DEF Sound, Formed, Edits
  <2>2. f.misled = g.misled
    BY <1>6 DEF SameRing
  <2>3. QED BY <2>1, <2>2
<1>9. Intact(f, i)
  BY <1>3, <1>7, <1>8, IntactAfter
<1>10. QED BY <1>9 DEF edit_mark_cmd, f, g

\* The marking by shifted arrows ends with a typed byte.
LEMMA IntactHighlight ==
    ASSUME MaxUndo >= 11, NEW e, NEW j \in 1..5, Intact(e, j), NEW i, i = j + 2
    PROVE  Intact(Highlighting(e, "Type"), i)
<1> DEFINE g == IF e.highlight THEN edit_mark_cmd(e, FALSE) ELSE e
           f == [g EXCEPT !.highlight = FALSE]
<1>1. Sound(e) /\ Formed(e) /\ Kept(e, j) /\ Remembers(e) /\ ~e.misled
  BY IntactIs
<1>2. Intact(g, i)
  <2>1. CASE e.highlight
    BY <2>1, IntactMarked
  <2>2. CASE ~e.highlight
    <3>1. j \in Nat /\ i \in Nat /\ j <= i
      OBVIOUS
    <3>2. Kept(e, i)
      BY <1>1, <3>1, KeptMore
    <3>3. Intact(e, i)
      BY <1>1, <3>2 DEF Intact
    <3>4. QED BY <2>2, <3>3
  <2>3. QED BY <2>1, <2>2
<1> HIDE DEF g
<1>3. Sound(g) /\ Formed(g)
  BY <1>2, IntactIs
<1>4. Follows(g, f)
  <2>1. Follows(g, g)
    BY <1>3, FollowsSelf
  <2>2. PICK u \in BOOLEAN : u = FALSE
    OBVIOUS
  <2>3. Follows(g, [g EXCEPT !.highlight = u])
    BY <2>1, OneModeAfter
  <2>4. QED BY <2>2, <2>3
<1>5. SameRing(g, f)
  <2>1. PICK u \in BOOLEAN : u = FALSE
    OBVIOUS
  <2>2. Alike(g, [g EXCEPT !.highlight = u])
    BY <1>3, HighlightAlike
  <2>3. QED BY <2>1, <2>2 DEF Alike
<1> HIDE DEF f
<1>6. Intact(f, i)
  BY <1>2, <1>4, <1>5, IntactRing
<1>7. Highlighting(e, "Type") = f
  BY DEF Highlighting, Highlights, f, g
<1>8. QED BY <1>6, <1>7

\* The byte.
LEMMA IntactTyped ==
    ASSUME MaxUndo >= 11, NEW e, NEW j \in 1..5, Intact(e, j), NEW i, i = j + 2,
           NEW x \in Chars
    PROVE  Intact(Typed(e, x), i)
<1> DEFINE g == IF e.overwrite /\ Byte(e, Cursor(e)) # NL THEN edit_delete(e) ELSE e
           f == edit_insert(g, x)
<1>1. Sound(e) /\ Formed(e) /\ Shape(e) /\ ~e.push_action_disabled /\ Kept(e, j)
      /\ Remembers(e) /\ ~e.misled
  BY IntactIs
<1>2. PICK k \in 1..6 : k = j + 1
  OBVIOUS
<1>3. j \in 1..6 /\ i = k + 1 /\ j \in Nat /\ k \in Nat /\ j <= k
  BY <1>2
<1>4. Intact(e, k)
  <2>1. Kept(e, k)
    BY <1>1, <1>3, KeptMore
  <2>2. QED BY <1>1, <2>1 DEF Intact
<1>5. Intact(edit_delete(e), k)
  <2>1. CASE e.after = <<>>
    <3>1. edit_delete(e) = e
      BY <2>1 DEF edit_delete
    <3>2. QED BY <1>4, <3>1
  <2>2. CASE e.after # <<>>
    <3> DEFINE y == Head(e.after)
               d == Entry("ahead", y)
               c == Entry("delete", 0)
               h == edit_delete(e)
    <3>1. y \in Chars
      <4>1. e.after \in Seq(Chars)
        BY <1>1, TextIs
      <4>2. QED BY <2>2, <4>1, Taken
    <3>2. Plain(d)
      <4> HIDE DEF y
      <4>1. y \in Int
        BY <3>1, Bounds
      <4>2. QED BY <3>1, <4>1 DEF Plain, Entry, Entries, Ops
    <3>3. Done(e, c, d, h)
      BY <1>1, <2>2, DeleteDone DEF Entry
    <3>4. Via(e, d, h)
      BY <3>3 DEF Done, Primitive
    <3>5. Follows(e, h)
      BY <1>1, RemoveFollows
    <3> HIDE DEF d, h
    <3>6. Kept(h, k) /\ h.misled = e.misled
      BY <1>1, <1>2, <1>3, <3>2, <3>4, ViaKept
    <3>7. Intact(h, k)
      BY <3>5, <3>6, IntactAfter
    <3>8. QED BY <3>7 DEF h
  <2>3. QED BY <2>1, <2>2
<1>6. Intact(g, k)
  BY <1>4, <1>5
<1> HIDE DEF g
<1>7. Sound(g) /\ Formed(g) /\ Shape(g) /\ ~g.push_action_disabled /\ Kept(g, k)
  BY <1>6, IntactIs
<1>8. Intact(f, i)
  <2> DEFINE d == Entry("backspace", 0)
  <2>1. Plain(d)
    BY DEF Plain, Entry, Entries, Ops
  <2>2. Via(g, d, f)
    BY <1>7, InsertIs DEF Primitive
  <2>3. Follows(g, f)
    BY <1>7, InsertFollows
  <2> HIDE DEF d, f
  <2>4. Kept(f, i) /\ f.misled = g.misled
    BY <1>2, <1>3, <1>7, <2>1, <2>2, ViaKept
  <2>5. QED BY <1>6, <2>3, <2>4, IntactAfter
<1>9. QED BY <1>8 DEF Typed, g

\* A typed byte leaves its key in the ring.
LEMMA TypeIntact ==
    ASSUME MaxUndo >= 11, NEW e, Sound(e), OnScreen(e), Remembers(e), ~e.misled,
           ~StaleKey(e), NEW x \in Chars
    PROVE  \E i \in Nat : Intact(TypeKey(e, x), i)
<1> DEFINE c == Entry("key", e.start_display)
           d == Entry("mark1", e.mark1)
           first == edit_push_action(e, c)
           second == edit_push_action(first, d)
           pressed == edit_push_key_press(e)
           lit == Highlighting(pressed, "Type")
           typed == Typed(lit, x)
           column == KeepColumn(typed)
           shown == edit_scroll_screen_over_cursor(column)
<1>1. PICK two \in 1..5, three \in 1..5, five \in 1..5, seven \in Nat :
         /\ two = 2 /\ three = two + 1 /\ five = three + 2 /\ seven = five + 2
         /\ two \in 1..6 /\ two \in Nat /\ three \in Nat /\ two <= three
  <2>1. 2 \in 1..5 /\ 3 \in 1..5 /\ 5 \in 1..5 /\ 7 \in Nat
    OBVIOUS
  <2>2. 3 = 2 + 1 /\ 5 = 3 + 2 /\ 7 = 5 + 2 /\ 2 \in 1..6 /\ 2 \in Nat /\ 3 \in Nat /\ 2 <= 3
    OBVIOUS
  <2>3. QED BY <2>1, <2>2
<1>2. PICK log \in Seq(AllSeen) : Good(e, log, 0)
  BY DEF Remembers
<1>3. Formed(e) /\ Shape(e) /\ ~e.push_action_disabled
  BY <1>2 DEF Sound, Good
<1>4. Depth(e) > 0 => IsKey(Item(e, 0))
  <2> DEFINE r == [k \in 0..Depth(e) - 1 |-> Item(e, k)]
             v == View(e, log)
  <2>1. PICK m \in Nat : Fits(e, v, m)
    BY <1>2 DEF Good
  <2> HIDE DEF v
  <2>2. Fit(Depth(e), r, v, m) /\ Depth(e) \in Nat
    BY <1>3, <2>1, Places DEF Fits
  <2>3. Depth(e) > 0 => r[0] = Item(e, 0)
    BY <2>2
  <2> HIDE DEF r
  <2>4. Depth(e) > 0 => IsKey(r[0])
    BY <2>2, FitIs
  <2>5. QED BY <2>3, <2>4
<1>5. Recorded(e, first) /\ Pushed(e, first)
  BY KeyRecorded
<1>6. Kept(first, two) /\ first.misled = e.misled
  <2>1. c = Entry("key", e.start_display)
    OBVIOUS
  <2> HIDE DEF c
  <2>2. QED BY <1>1, <1>3, <1>4, <2>1, KeyKept
<1> HIDE DEF first
<1>7. Intact(first, two)
  <2>1. Sound(first) /\ ~first.misled
    BY <1>5, <1>6 DEF Recorded
  <2>2. Remembers(first)
    BY <1>5, <2>1, RemembersAfter
  <2>3. QED BY <1>6, <2>1, <2>2 DEF Intact
<1>8. Intact(pressed, three)
  <2>1. Intact(second, three)
    <3>1. d = Entry("mark1", first.mark1)
      BY <1>5 DEF Pushed, SameScreen
    <3> HIDE DEF d
    <3>2. QED BY <1>1, <1>7, <3>1, IntactMark
  <2>2. Intact(first, three)
    <3>1. Formed(first) /\ Kept(first, two)
      BY <1>7, IntactIs
    <3>2. Kept(first, three)
      BY <1>1, <3>1, KeptMore
    <3>3. QED BY <1>7, <3>2 DEF Intact
  <2>3. pressed = IF e.mark2 = Following THEN second ELSE first
    BY DEF edit_push_key_press, first
  <2> HIDE DEF pressed, second
  <2>4. QED BY <2>1, <2>2, <2>3
<1> HIDE DEF pressed
<1>9. Intact(lit, five)
  BY <1>1, <1>8, IntactHighlight
<1> HIDE DEF lit
<1>10. Intact(typed, seven)
  BY <1>1, <1>9, IntactTyped
<1> HIDE DEF typed
<1>11. Intact(column, seven)
  <2>1. Sound(typed) /\ Formed(typed)
    BY <1>10, IntactIs
  <2>2. Follows(typed, column)
    BY <2>1, FollowsSelf, OneModeAfter
  <2>3. SameRing(typed, column)
    BY <2>1, ColumnAlike DEF Alike
  <2> HIDE DEF column
  <2>4. QED BY <1>10, <2>2, <2>3, IntactRing
<1> HIDE DEF column
<1>12. Intact(shown, seven)
  <2>1. Sound(column) /\ Formed(column) /\ Right(column)
    BY <1>11, IntactIs DEF Sound
  <2>2. Follows(column, shown)
    BY <2>1, OverCursorFollows
  <2>3. SameRing(column, shown)
    BY <2>1, OverCursorIs DEF Scrolled
  <2> HIDE DEF shown
  <2>4. QED BY <1>11, <2>2, <2>3, IntactRing
<1> HIDE DEF shown
<1>13. TypeKey(e, x) = shown
  BY DEF TypeKey, shown, column, typed, lit, pressed
<1>14. QED BY <1>1, <1>12, <1>13

\* What undo would show last is what the user saw when the key was pressed.
LEMMA LastIsSeen ==
    ASSUME NEW e, NEW f, Recorded(e, f), Remembers(e), NEW i, Intact(f, i)
    PROVE  Past(f) # <<>> /\ Last(Past(f)) = Seen(e)
<1>1. Sound(f) /\ Formed(f) /\ ~f.misled /\ Kept(f, i)
  BY IntactIs
<1>2. PICK z \in Nat : z = 0
  OBVIOUS
<1>3. PICK log \in Seq(AllSeen) : Good(e, log, z)
  BY <1>2 DEF Remembers
<1>4. PICK l \in Seq(AllSeen) : Good(f, l, z) /\ l # <<>> /\ Last(l) = Seen(e)
  <2>1. CASE Seen(e) \in AllSeen /\ Good(f, Append(log, Seen(e)), z)
    <3>1. PICK l : l = Append(log, Seen(e))
      OBVIOUS
    <3>2. l \in Seq(AllSeen) /\ l # <<>> /\ Last(l) = Seen(e)
      BY <2>1, <3>1, Latest
    <3>3. QED BY <2>1, <3>1, <3>2
  <2>2. CASE log # <<>> /\ Last(log) = Seen(e) /\ Good(f, log, z)
    BY <2>2
  <2>3. QED BY <1>1, <1>3, <2>1, <2>2 DEF Recorded
<1> DEFINE v == View(f, l)
<1>5. PICK m \in Nat : Fits(f, v, m)
  BY <1>4 DEF Good
<1>6. m \in 0..Len(l) /\ Past(f) = Newer(l, m)
  BY <1>1, <1>4, <1>5, PastIs DEF Good
<1>7. m < Len(l)
  <2>1. v.past = l
    BY <1>1, ViewOf
  <2> HIDE DEF v
  <2> DEFINE r == [k \in 0..Depth(f) - 1 |-> Item(f, k)]
  <2>2. Fit(Depth(f), r, v, m) /\ Depth(f) \in Nat /\ Depth(f) > 0
    BY <1>1, <1>5, Places DEF Fits, Kept
  <2> HIDE DEF r
  <2>3. m < Len(v.past)
    BY <2>2, FitIs
  <2>4. QED BY <2>1, <2>3
<1>8. Newer(l, m) # <<>> /\ Last(Newer(l, m)) = Last(l)
  BY <1>6, <1>7, NewerOfFront
<1>9. QED BY <1>4, <1>6, <1>8

\* In every reachable state that is not misled, a typed byte can be taken back:
\* the full ring forgets older keys, never the one just typed.  The code sees
\* to it that the ring has at least 256 entries (edit.c:464-465); 11 are
\* enough, for the key, the marks and the bytes that one typed byte pushes.
THEOREM TypedAlwaysKept ==
    ASSUME MaxUndo >= 11
    PROVE  Spec => [](edit.misled \/ TypedIsKept)
<1>1. Invariant => edit.misled \/ TypedIsKept
  <2>1. ASSUME Invariant, ~edit.misled, ~StaleKey(edit)
        PROVE  Past(TypeKey(edit, NL)) # <<>> /\ Last(Past(TypeKey(edit, NL))) = Seen(edit)
    <3>1. Sound(edit) /\ OnScreen(edit) /\ Remembers(edit)
      BY <2>1 DEF Invariant, Steady
    <3>2. NL \in Chars
      BY Bounds
    <3> DEFINE f == TypeKey(edit, NL)
    <3>3. Recorded(edit, f)
      BY <3>1, <3>2, TypeKeyRecorded
    <3>4. PICK i \in Nat : Intact(f, i)
      BY <2>1, <3>1, <3>2, TypeIntact
    <3> HIDE DEF f
    <3>5. Past(f) # <<>> /\ Last(Past(f)) = Seen(edit)
      BY <3>1, <3>3, <3>4, LastIsSeen
    <3>6. QED BY <3>5 DEF f
  <2>2. QED BY <2>1 DEF TypedIsKept
<1>2. QED BY <1>1, InvariantAlways, PTL

=============================================================================
