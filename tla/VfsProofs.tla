------------------------------ MODULE VfsProofs ------------------------------
(***************************************************************************)
(* That archives in use, or shown, stay in memory, that their counts are   *)
(* right, and that the sweep follows no freed stamp, for every nesting of  *)
(* archives and any number of handles and local copies.                    *)
(***************************************************************************)
EXTENDS Vfs, SequenceTheorems, FiniteSetTheorems, TLAPS

Stamps == [id : Archives, old : BOOLEAN]
Memories == [loaded : SUBSET Archives, fd : [Archives -> Int],
             stamps : Seq(Stamps), current_dir : Places,
             cwd : [Panels -> Places], listing : [Panels -> BOOLEAN],
             owed : SUBSET Archives, lost : SUBSET Archives,
             gone : SUBSET Archives]

Shown(s) == {s.cwd[p] : p \in {p \in Panels : s.listing[p]}}

\* The archives inside one that use it.
Inside(s, a) == {b \in s.loaded : Outer[b] = a /\ (b \in Tars \/ KeepsCopy(b))}

\* What the archives are used for besides those inside them; a tar archive
\* does not count the copies it lends.
Needs == [Archives -> Nat]
InUse == [a \in Archives |-> handles[a] + IF a \in Tars THEN 0 ELSE copies[a]]

\* An archive lies in a loaded one.
Rooted(s) == \A a \in s.loaded : Outer[a] # Local => Outer[a] \in s.loaded

\* A tar archive is never without a use, the inode of its root.
Counted(s, need) ==
    \A a \in Archives :
        /\ a \notin Tars => s.fd[a] >= need[a] + Cardinality(Inside(s, a))
        /\ a \in Tars \cap s.loaded =>
              s.fd[a] >= 1 + need[a] + Cardinality(Inside(s, a))
        /\ need[a] > 0 => a \in s.loaded

Distinct(list) ==
    \A i \in 1..Len(list) : \A j \in 1..(i - 1) : list[j].id # list[i].id

\* Stamps are for what nobody uses or shows, except for the one that is being
\* freed.
Listed(s, freed) ==
    /\ Distinct(s.stamps)
    /\ \A i \in 1..Len(s.stamps) :
          /\ s.stamps[i].id \in s.loaded \cup freed
          /\ s.fd[s.stamps[i].id] <= 0 /\ s.stamps[i].id \notin Shown(s)

Sound(s, need, freed) ==
    /\ s \in Memories /\ Rooted(s) /\ Counted(s, need) /\ Listed(s, freed)
    /\ Shown(s) \subseteq s.loaded \cup {Local}

Settled(s) == s.current_dir \in Shown(s) \cup {Local}

IInv ==
    /\ TypeOK
    /\ Sound(Now, InUse, {}) /\ Settled(Now)
    /\ \A a \in Tars : copies[a] > 0 => a \in loaded
    /\ ~dangling

-----------------------------------------------------------------------------
(* Counting up.                                                             *)

\* A set of numbers that has no least element is empty.
LEMMA NoLeast ==
    ASSUME NEW S \in SUBSET Nat, \A x \in S : \E y \in S : y < x
    PROVE  S = {}
<1> SUFFICES ASSUME S # {} PROVE FALSE
  OBVIOUS
<1>1. PICK x \in S : \A y \in S : ~(<<y, x>> \in OpToRel(<, Nat))
  BY NatLessThanWellFounded, WFMin
<1>2. PICK y \in S : y < x
  OBVIOUS
<1>3. QED
  BY <1>1, <1>2 DEF OpToRel

\* What holds at first and stays holds at each step; T has what may be there
\* at each step.
LEMMA Stepwise ==
    ASSUME NEW L \in Nat, NEW f, NEW T, f[0] \in T[0],
           \A n \in 1..L : f[n - 1] \in T[n - 1] => f[n] \in T[n]
    PROVE  \A n \in 0..L : f[n] \in T[n]
<1> DEFINE S == {n \in 0..L : f[n] \notin T[n]}
<1>1. ASSUME NEW n \in S PROVE \E m \in S : m < n
  <2>1. n \in 1..L
    OBVIOUS
  <2>2. n - 1 \in 0..L /\ n - 1 < n
    BY <2>1
  <2>3. f[n - 1] \notin T[n - 1]
    BY <2>1
  <2>4. QED
    BY <2>2, <2>3
<1>2. S \in SUBSET Nat
  OBVIOUS
<1> HIDE DEF S
<1>3. S = {}
  BY <1>1, <1>2, NoLeast
<1>4. QED
  BY <1>3 DEF S

\* What is built up from base in L steps of F.
Runs(L, X, base, F) ==
    {g \in [0..L -> X] :
        g[0] = base /\ \A n \in 1..L : g[n] = F[<<g[n - 1], n>>]}

\* What is built up step by step exists.
LEMMA Iterates ==
    ASSUME NEW L \in Nat, NEW X, NEW base \in X, NEW F \in [X \X Nat -> X]
    PROVE  Runs(L, X, base, F) # {}
<1> DEFINE Built(k, g) == g = [n \in 0..k |-> IF n = 0 THEN base
                                              ELSE F[<<g[n - 1], n>>]]
           S == {k \in Nat : ~\E g \in [0..k -> X] : Built(k, g)}
<1>1. ASSUME NEW k \in S PROVE \E m \in S : m < k
  <2>1. CASE k = 0
    <3>1. PICK g \in [0..0 -> X] : g = [n \in 0..0 |-> base]
      OBVIOUS
    <3>2. \A n \in 0..0 : n = 0
      OBVIOUS
    <3>3. Built(0, g)
      BY <3>1, <3>2
    <3>4. QED
      BY <2>1, <3>3
  <2>2. CASE k > 0
    <3>1. k - 1 \in Nat /\ k - 1 < k /\ k \in Nat
      BY <2>2
    <3>2. SUFFICES ASSUME k - 1 \notin S PROVE FALSE
      BY <3>1
    <3>3. PICK g \in [0..(k - 1) -> X] : Built(k - 1, g)
      BY <3>1, <3>2
    <3>4. \A n \in 0..(k - 1) : g[n] = IF n = 0 THEN base ELSE F[<<g[n - 1], n>>]
      BY <3>3
    <3> DEFINE h == [n \in 0..k |-> IF n = k THEN F[<<g[k - 1], k>>] ELSE g[n]]
    <3>5. k - 1 \in 0..(k - 1) /\ g[k - 1] \in X
      BY <3>1
    <3>6. F[<<g[k - 1], k>>] \in X
      BY <3>5, <3>1
    <3>7. \A n \in 0..k : n # k => n \in 0..(k - 1)
      BY <3>1
    <3>8. h \in [0..k -> X]
      BY <3>6, <3>7
    <3>9. ASSUME NEW n \in 0..k
          PROVE  h[n] = IF n = 0 THEN base ELSE F[<<h[n - 1], n>>]
      <4>1. CASE n = k
        <5>1. n # 0 /\ n - 1 \in 0..k /\ n - 1 # k
          BY <4>1, <2>2, <3>1
        <5>2. QED
          BY <4>1, <5>1
      <4>2. CASE n # k
        <5>1. n \in 0..(k - 1)
          BY <4>2, <3>7
        <5>2. n # 0 => n - 1 \in 0..k /\ n - 1 # k
          BY <5>1, <3>1
        <5>3. QED
          BY <4>2, <5>1, <5>2, <3>4
      <4>3. QED
        BY <4>1, <4>2
    <3>10. Built(k, h)
      <4> HIDE DEF h
      <4>1. h = [n \in 0..k |-> h[n]]
        BY <3>8
      <4>2. QED
        BY <4>1, <3>9
    <3>11. QED
      BY <3>8, <3>10, <3>1
  <2>3. QED
    BY <2>1, <2>2
<1>2. S \in SUBSET Nat
  OBVIOUS
<1>3. S = {}
  <2> HIDE DEF S
  <2>1. QED
    BY <1>1, <1>2, NoLeast
<1>4. PICK g \in [0..L -> X] : Built(L, g)
  BY <1>3
<1>5. \A n \in 0..L : g[n] = IF n = 0 THEN base ELSE F[<<g[n - 1], n>>]
  BY <1>4
<1>6. 0 \in 0..L /\ \A n \in 1..L : n \in 0..L /\ n # 0
  OBVIOUS
<1>7. QED
  BY <1>5, <1>6 DEF Runs

-----------------------------------------------------------------------------
(* Paths.                                                                   *)

\* What the assumption says of the constants.
LEMMA Layout ==
    /\ IsFiniteSet(Archives) /\ Tars \subseteq Archives
    /\ Local \notin Archives /\ Outer \in [Archives -> Places]
    /\ \A a \in Archives : Outer[a] # Local => Outer[a] \in Archives
BY ArchiveAssumption DEF Places

\* How deep an archive lies.
Depth == CHOOSE depth \in [Places -> 0..Cardinality(Archives)] :
            \A a \in Archives : depth[Outer[a]] < depth[a]

\* An archive lies deeper than the one it is in.
LEMMA DepthOf ==
    /\ Cardinality(Archives) \in Nat
    /\ Depth \in [Places -> 0..Cardinality(Archives)]
    /\ \A a \in Archives : Depth[a] \in Nat /\ Depth[Outer[a]] \in Nat
    /\ \A a \in Archives : Depth[Outer[a]] < Depth[a]
    /\ \A a \in Archives : Outer[a] # a
<1>1. Cardinality(Archives) \in Nat
  BY ArchiveAssumption, FS_CardinalityType
<1>2. /\ Depth \in [Places -> 0..Cardinality(Archives)]
      /\ \A a \in Archives : Depth[Outer[a]] < Depth[a]
  BY ArchiveAssumption DEF Depth
<1>3. \A a \in Archives : a \in Places /\ Outer[a] \in Places
  BY Layout DEF Places
<1>4. \A a \in Archives : Depth[a] \in Nat /\ Depth[Outer[a]] \in Nat
  BY <1>1, <1>2, <1>3
<1>5. QED
  BY <1>1, <1>2, <1>4

\* The recursive definition of Path has a solution, and is one.
LEMMA PathFrom ==
    /\ Path \in [Archives -> Seq(Archives)]
    /\ \A a \in Archives :
          Path[a] = IF Outer[a] = Local THEN <<a>> ELSE <<a>> \o Path[Outer[a]]
<1> DEFINE Down(g, a) == IF Outer[a] = Local THEN <<a>>
                         ELSE <<a>> \o g[Outer[a]]
           Solves(k, g) == \A a \in Archives :
                              Depth[a] <= k => g[a] = Down(g, a)
           All == [Archives -> Seq(Archives)]
           S == {k \in Nat : ~\E g \in All : Solves(k, g)}
<1>1. \A a \in Archives : Depth[a] \in Nat /\ Depth[Outer[a]] \in Nat
  BY DepthOf
<1>2. ASSUME NEW g \in All, NEW a \in Archives PROVE Down(g, a) \in Seq(Archives)
  BY <1>2, Layout
<1>3. ASSUME NEW k \in S PROVE \E m \in S : m < k
  <2>1. k \in Nat
    OBVIOUS
  <2>2. CASE k = 0
    <3>1. \A a \in Archives : ~(Depth[a] <= 0)
      BY <1>1, DepthOf
    <3>2. [a \in Archives |-> <<>>] \in All
      OBVIOUS
    <3>3. Solves(0, [a \in Archives |-> <<>>])
      BY <3>1
    <3>4. QED
      BY <2>2, <3>2, <3>3
  <2>3. CASE k > 0
    <3>1. k - 1 \in Nat /\ k - 1 < k /\ k \in Nat
      BY <2>3
    <3>2. SUFFICES ASSUME k - 1 \notin S PROVE FALSE
      BY <3>1
    <3>3. PICK g \in All : Solves(k - 1, g)
      BY <3>1, <3>2
    <3> DEFINE h == [a \in Archives |-> Down(g, a)]
    <3>4. h \in All
      BY <1>2
    <3>5. ASSUME NEW a \in Archives, Depth[a] <= k PROVE h[a] = Down(h, a)
      <4>1. CASE Outer[a] = Local
        BY <4>1
      <4>2. CASE Outer[a] # Local
        <5>1. Outer[a] \in Archives /\ Depth[Outer[a]] <= k - 1
          BY <4>2, <3>5, <3>1, <1>1, DepthOf, Layout
        <5>2. g[Outer[a]] = h[Outer[a]]
          BY <5>1, <3>3
        <5>3. QED
          BY <4>2, <5>2
      <4>3. QED
        BY <4>1, <4>2
    <3>6. QED
      <4> HIDE DEF h
      <4>1. Solves(k, h)
        BY <3>5
      <4>2. QED
        BY <3>4, <4>1
  <2>4. k = 0 \/ k > 0
    BY <2>1
  <2> HIDE DEF S
  <2>5. QED
    BY <2>2, <2>3, <2>4
<1>4. S = {}
  <2>1. S \in SUBSET Nat
    OBVIOUS
  <2> HIDE DEF S
  <2>2. QED
    BY <2>1, <1>3, NoLeast
<1>5. \A a \in Archives : Depth[a] <= Cardinality(Archives)
  BY DepthOf, Layout DEF Places
<1>6. PICK g \in All : Solves(Cardinality(Archives), g)
  BY <1>4, DepthOf
<1> DEFINE Body(f) == [a \in Archives |-> Down(f, a)]
<1>7. \A a \in Archives : g[a] = Body(g)[a]
  BY <1>5, <1>6
<1>8. g = Body(g)
  <2> HIDE DEF Down
  <2>1. QED
    BY <1>7
<1>9. Path = Body(Path)
  BY <1>8 DEF Path
<1>10. \A a \in Archives : Path[a] = Down(Path, a)
  <2> HIDE DEF Down
  <2>1. QED
    BY <1>9
<1> DEFINE T == {n \in Nat : \E a \in Archives : Depth[a] = n /\ Path[a] \notin Seq(Archives)}
<1>11. ASSUME NEW n \in T PROVE \E m \in T : m < n
  <2>1. PICK a \in Archives : Depth[a] = n /\ Path[a] \notin Seq(Archives)
    OBVIOUS
  <2>2. Outer[a] = Local => Path[a] = <<a>>
    BY <1>10
  <2>3. <<a>> \in Seq(Archives)
    OBVIOUS
  <2>4. Outer[a] # Local
    BY <2>2, <2>3, <2>1
  <2>5. Outer[a] \in Archives /\ Path[a] = <<a>> \o Path[Outer[a]]
    BY <1>10, <2>4, Layout
  <2>6. Path[Outer[a]] \notin Seq(Archives)
    BY <2>1, <2>5
  <2>7. QED
    BY <2>1, <2>5, <2>6, DepthOf
<1>12. T = {}
  <2>1. T \in SUBSET Nat
    OBVIOUS
  <2> HIDE DEF T
  <2>2. QED
    BY <2>1, <1>11, NoLeast
<1>13. \A a \in Archives : Path[a] \in Seq(Archives)
  BY <1>1, <1>12
<1>14. Path \in [Archives -> Seq(Archives)]
  <2> HIDE DEF Down
  <2>1. Path = [a \in Archives |-> Path[a]]
    BY <1>9
  <2>2. QED
    BY <2>1, <1>13
<1>15. QED
  BY <1>10, <1>14

\* The path of an archive begins with it; each archive on it but the last
\* lies in the next one, and the last one on the disk.
LEMMA PathSteps ==
    ASSUME NEW a \in Archives
    PROVE  /\ Path[a] \in Seq(Archives) /\ Len(Path[a]) > 0 /\ Path[a][1] = a
           /\ Outer[Path[a][Len(Path[a])]] = Local
           /\ \A i \in 1..(Len(Path[a]) - 1) : Path[a][i + 1] = Outer[Path[a][i]]
<1> DEFINE Steps(b) ==
              /\ Path[b] \in Seq(Archives) /\ Len(Path[b]) > 0 /\ Path[b][1] = b
              /\ Outer[Path[b][Len(Path[b])]] = Local
              /\ \A i \in 1..(Len(Path[b]) - 1) : Path[b][i + 1] = Outer[Path[b][i]]
           T == {n \in Nat : \E b \in Archives : Depth[b] = n /\ ~Steps(b)}
<1>1. ASSUME NEW n \in T PROVE \E m \in T : m < n
  <2>1. PICK b \in Archives : Depth[b] = n /\ ~Steps(b)
    OBVIOUS
  <2>2. CASE Outer[b] = Local
    <3>1. Path[b] = <<b>>
      BY <2>2, PathFrom
    <3>2. Steps(b)
      BY <3>1, <2>2
    <3>3. QED
      BY <3>2, <2>1
  <2>3. CASE Outer[b] # Local
    <3>1. SUFFICES ASSUME Steps(Outer[b]) PROVE Steps(b)
      BY <2>1, <2>3, Layout, DepthOf
    <3>2. PICK q : q = Path[Outer[b]]
      OBVIOUS
    <3>3. q \in Seq(Archives) /\ Len(q) > 0 /\ <<b>> \in Seq(Archives)
      BY <3>1, <3>2
    <3>4. Path[b] = <<b>> \o q
      BY <3>2, <2>3, PathFrom
    <3>5. /\ Path[b] \in Seq(Archives) /\ Len(Path[b]) = 1 + Len(q)
          /\ Path[b][1] = b
          /\ \A i \in 1..Len(q) : Path[b][i + 1] = q[i]
      BY <3>3, <3>4
    <3>6. ASSUME NEW i \in 1..(Len(Path[b]) - 1)
          PROVE  Path[b][i + 1] = Outer[Path[b][i]]
      <4>1. CASE i = 1
        BY <4>1, <3>5, <3>3, <3>1, <3>2
      <4>2. CASE i # 1
        <5>1. i - 1 \in 1..(Len(q) - 1) /\ i - 1 \in 1..Len(q) /\ i \in 1..Len(q)
          BY <4>2, <3>3, <3>5
        <5>2. q[(i - 1) + 1] = Outer[q[i - 1]]
          BY <5>1, <3>1, <3>2
        <5>3. Path[b][i + 1] = q[i] /\ Path[b][(i - 1) + 1] = q[i - 1]
          BY <5>1, <3>5
        <5>4. (i - 1) + 1 = i
          OBVIOUS
        <5>5. QED
          BY <5>2, <5>3, <5>4
      <4>3. QED
        BY <4>1, <4>2
    <3>7. Outer[Path[b][Len(Path[b])]] = Local
      <4>1. Path[b][Len(q) + 1] = q[Len(q)]
        BY <3>3, <3>5
      <4>2. QED
        BY <4>1, <3>1, <3>2, <3>3, <3>5
    <3>8. QED
      BY <3>3, <3>5, <3>6, <3>7
  <2>4. QED
    BY <2>2, <2>3
<1>2. T = {}
  <2>1. T \in SUBSET Nat
    OBVIOUS
  <2> HIDE DEF T
  <2>2. QED
    BY <2>1, <1>1, NoLeast
<1>3. QED
  BY <1>2, DepthOf

\* All archives around a loaded one are loaded.
LEMMA PathLoaded ==
    ASSUME NEW s, Rooted(s), s.loaded \subseteq Archives, NEW a \in s.loaded,
           NEW i \in 1..Len(Path[a])
    PROVE  Path[a][i] \in s.loaded
<1>1. a \in Archives
  OBVIOUS
<1>2. PICK L \in Nat : L = Len(Path[a]) - 1
  <2>1. Len(Path[a]) - 1 \in Nat
    BY <1>1, PathSteps
  <2>2. QED
    BY <2>1
<1> DEFINE f == [n \in 0..L |-> Path[a][n + 1]]
           T == [n \in 0..L |-> s.loaded]
<1>3. f[0] \in T[0]
  BY <1>1, <1>2, PathSteps
<1>4. ASSUME NEW n \in 1..L, f[n - 1] \in T[n - 1] PROVE f[n] \in T[n]
  <2>1. n - 1 \in 0..L /\ (n - 1) + 1 = n /\ n \in 1..(Len(Path[a]) - 1)
    BY <1>2
  <2>2. Path[a][n] \in s.loaded
    BY <2>1, <1>4
  <2>3. Path[a][n + 1] = Outer[Path[a][n]]
    BY <2>1, <1>1, PathSteps
  <2>4. Path[a][n + 1] \in Archives
    <3>1. n + 1 \in 1..Len(Path[a])
      BY <2>1, <1>1, PathSteps
    <3>2. QED
      BY <3>1, <1>1, PathSteps
  <2>5. Outer[Path[a][n]] \in s.loaded
    BY <2>2, <2>3, <2>4, Layout DEF Rooted
  <2>6. QED
    BY <2>3, <2>5
<1>5. \A n \in 0..L : f[n] \in T[n]
  <2> HIDE DEF f, T
  <2>1. QED
    BY <1>3, <1>4, Stepwise
<1>6. i - 1 \in 0..L /\ (i - 1) + 1 = i
  BY <1>1, <1>2, PathSteps
<1>7. QED
  BY <1>5, <1>6

-----------------------------------------------------------------------------
(* The list of stamps.                                                      *)

\* What is left of a list is in it, and not what was to go.
LEMMA WithoutOut ==
    ASSUME NEW list \in Seq(Stamps), NEW out
    PROVE  /\ Without(list, out) \in Seq(Stamps)
           /\ \A i \in 1..Len(Without(list, out)) :
                 /\ \E j \in 1..Len(list) : Without(list, out)[i] = list[j]
                 /\ Without(list, out)[i].id \notin out
           /\ Distinct(list) => Distinct(Without(list, out))
<1> DEFINE L == Len(list)
           X == Seq(Stamps)
           F == [y \in X \X Nat |->
                   IF y[2] \in 1..L /\ list[y[2]].id \notin out
                   THEN Append(y[1], list[y[2]]) ELSE y[1]]
           Step(w, n) == IF list[n].id \in out THEN w ELSE Append(w, list[n])
           Body(f) == [n \in 0..L |-> IF n = 0 THEN <<>>
                                      ELSE IF list[n].id \in out THEN f[n - 1]
                                      ELSE Append(f[n - 1], list[n])]
           Left(w, n) ==
               /\ \A i \in 1..Len(w) :
                     /\ \E j \in 1..n : w[i] = list[j]
                     /\ w[i].id \notin out
               /\ Distinct(list) => Distinct(w)
           T == [n \in 0..L |-> {w \in X : Left(w, n)}]
<1>1. L \in Nat /\ <<>> \in X
  OBVIOUS
<1>2. F \in [X \X Nat -> X]
  OBVIOUS
<1>3. PICK g \in [0..L -> X] :
         g[0] = <<>> /\ \A n \in 1..L : g[n] = F[<<g[n - 1], n>>]
  <2> HIDE DEF F, X, L
  <2>1. PICK g : g \in Runs(L, X, <<>>, F)
    BY <1>1, <1>2, Iterates
  <2>2. QED
    BY <2>1 DEF Runs
<1>4. ASSUME NEW n \in 0..L PROVE g[n] = Body(g)[n]
  <2>1. CASE n = 0
    BY <1>3, <2>1
  <2>2. CASE n # 0
    <3>1. n \in 1..L /\ n - 1 \in 0..L /\ n \in Nat
      BY <2>2
    <3>2. g[n] = F[<<g[n - 1], n>>]
      BY <1>3, <3>1
    <3>3. g[n - 1] \in X /\ <<g[n - 1], n>> \in X \X Nat
      BY <3>1
    <3>4. F[<<g[n - 1], n>>] = Step(g[n - 1], n)
      BY <3>1, <3>3
    <3>5. QED
      BY <2>2, <3>2, <3>4
  <2>3. QED
    BY <2>1, <2>2
<1>5. g = Body(g)
  <2>1. DOMAIN g = 0..L /\ g = [n \in 0..L |-> g[n]]
    BY <1>3
  <2> HIDE DEF F, X, L
  <2>2. QED
    BY <1>4, <2>1
<1>6. PICK k : k = Body(k) /\ Without(list, out) = k[L]
  <2>1. Without(list, out) = (CHOOSE f : f = Body(f))[L]
    BY DEF Without
  <2> HIDE DEF Body
  <2>2. QED
    BY <1>5, <2>1
<1>7. k[0] = <<>> /\ \A n \in 1..L : k[n] = Step(k[n - 1], n)
  <2>1. \A n \in 0..L : k[n] = Body(k)[n]
    BY <1>6
  <2>2. 0 \in 0..L /\ \A n \in 1..L : n \in 0..L /\ n # 0
    BY <1>1
  <2> HIDE DEF L
  <2>3. QED
    BY <2>1, <2>2
<1>8. k[0] \in T[0]
  BY <1>1, <1>7 DEF Distinct
<1>9. ASSUME NEW n \in 1..L, k[n - 1] \in T[n - 1] PROVE k[n] \in T[n]
  <2>1. n - 1 \in 0..L /\ n \in 0..L /\ n \in Nat /\ list[n] \in Stamps
    BY <1>1
  <2>2. PICK w \in X : w = k[n - 1] /\ Left(w, n - 1)
    BY <2>1, <1>9
  <2>3. Left(w, n)
    <3>1. \A j \in 1..(n - 1) : j \in 1..n
      BY <2>1
    <3>2. QED
      BY <2>2, <3>1
  <2>4. CASE list[n].id \in out
    BY <2>1, <2>2, <2>3, <2>4, <1>7
  <2>5. CASE list[n].id \notin out
    <3>1. PICK v \in X : v = Append(w, list[n])
      BY <2>1
    <3>2. /\ Len(v) = Len(w) + 1 /\ v[Len(w) + 1] = list[n] /\ Len(w) \in Nat
          /\ \A i \in 1..Len(w) : v[i] = w[i]
      BY <3>1, <2>1
    <3>3. ASSUME NEW i \in 1..Len(v)
          PROVE  (\E j \in 1..n : v[i] = list[j]) /\ v[i].id \notin out
      <4>1. CASE i = Len(w) + 1
        BY <4>1, <3>2, <2>5, <2>1
      <4>2. CASE i # Len(w) + 1
        <5>1. i \in 1..Len(w)
          BY <4>2, <3>2
        <5>2. QED
          BY <5>1, <3>2, <2>3
      <4>3. QED
        BY <4>1, <4>2
    <3>4. ASSUME Distinct(list) PROVE Distinct(v)
      <4>1. SUFFICES ASSUME NEW i \in 1..Len(v), NEW j \in 1..(i - 1)
                     PROVE  v[j].id # v[i].id
        BY DEF Distinct
      <4>2. j \in 1..Len(w) /\ v[j] = w[j]
        BY <3>2
      <4>3. CASE i = Len(w) + 1
        <5>1. PICK m \in 1..(n - 1) : w[j] = list[m]
          BY <4>2, <2>2
        <5>2. list[m].id # list[n].id
          BY <3>4, <2>1, <5>1 DEF Distinct
        <5>3. QED
          BY <4>2, <4>3, <3>2, <5>1, <5>2
      <4>4. CASE i # Len(w) + 1
        <5>1. i \in 1..(Len(w) + 1)
          BY <3>2
        <5>2. Len(w) \in Nat
          BY <3>2
        <5>3. i \in 1..Len(w)
          BY ONLY <4>4, <5>1, <5>2
        <5>4. Distinct(w)
          BY <3>4, <2>2
        <5>5. QED
          BY <4>2, <5>3, <5>4, <3>2 DEF Distinct
      <4>5. QED
        BY <4>3, <4>4
    <3>5. Left(v, n)
      BY <3>3, <3>4
    <3>6. k[n] = v
      BY <1>7, <2>2, <2>5, <3>1
    <3> HIDE DEF Left, L, X
    <3>7. QED
      BY <3>5, <3>6, <2>1
  <2>6. QED
    BY <2>4, <2>5
<1>10. k[L] \in T[L]
  <2>1. \A n \in 0..L : k[n] \in T[n]
    <3> HIDE DEF L, T
    <3>1. QED
      BY <1>1, <1>8, <1>9, Stepwise
  <2>2. QED
    BY <2>1, <1>1
<1>11. Left(k[L], L) /\ k[L] \in X
  BY <1>10, <1>1
<1>12. QED
  <2> HIDE DEF T, Body
  <2>1. QED
    BY <1>6, <1>11

-----------------------------------------------------------------------------
(* Stamps come and go.                                                      *)


\* All but the stamps is as before.
Keeps(s, t) ==
    /\ t.loaded = s.loaded /\ t.fd = s.fd /\ t.current_dir = s.current_dir
    /\ t.cwd = s.cwd /\ t.listing = s.listing

\* Another list of the same stamps, or of fewer, or with one for an archive
\* that is idle, keeps the state sound.
LEMMA Restamped ==
    ASSUME NEW s, NEW need, NEW freed, Sound(s, need, freed),
           NEW t \in Memories, Keeps(s, t), Distinct(t.stamps),
           \A i \in 1..Len(t.stamps) :
              \/ Stamped(s, t.stamps[i].id)
              \/ /\ t.stamps[i].id \in s.loaded /\ s.fd[t.stamps[i].id] <= 0
                 /\ t.stamps[i].id \notin Shown(s)
    PROVE  Sound(t, need, freed)
<1>1. Shown(t) = Shown(s) /\ \A a : Inside(t, a) = Inside(s, a)
  BY DEF Shown, Inside, Keeps
<1>2. Rooted(t) /\ Counted(t, need) /\ Shown(t) \subseteq t.loaded \cup {Local}
  BY <1>1 DEF Sound, Rooted, Counted, Keeps
<1>3. ASSUME NEW i \in 1..Len(t.stamps)
      PROVE  /\ t.stamps[i].id \in t.loaded \cup freed
             /\ t.fd[t.stamps[i].id] <= 0 /\ t.stamps[i].id \notin Shown(t)
  <2>1. CASE Stamped(s, t.stamps[i].id)
    <3>1. PICK j \in 1..Len(s.stamps) : s.stamps[j].id = t.stamps[i].id
      BY <2>1 DEF Stamped
    <3>2. QED
      BY <3>1, <1>1 DEF Sound, Listed, Keeps
  <2>2. CASE ~Stamped(s, t.stamps[i].id)
    BY <2>2, <1>1 DEF Keeps
  <2>3. QED
    BY <2>1, <2>2
<1>4. QED
  BY <1>2, <1>3 DEF Sound, Listed

\* The stamped archives that follow an archive on its path.
LEMMA RunOf ==
    ASSUME NEW s, NEW a \in Archives
    PROVE  /\ StampedRun(s, a) \subseteq Archives
           /\ Stamped(s, a) => a \in StampedRun(s, a)
           /\ ~Stamped(s, a) => StampedRun(s, a) = {}
           /\ \A x \in StampedRun(s, a) : Stamped(s, x)
<1>1. /\ Path[a] \in Seq(Archives) /\ Len(Path[a]) \in Nat /\ Len(Path[a]) > 0
      /\ Path[a][1] = a
  BY PathSteps
<1>2. \A i \in 1..Len(Path[a]) : Path[a][i] \in Archives /\ 1 \in 1..i /\ i \in 1..i
  BY <1>1
<1>3. 1 \in 1..Len(Path[a]) /\ \A j \in 1..1 : j = 1
  BY <1>1
<1> HIDE DEF Stamped
<1>4. Stamped(s, a) => a \in StampedRun(s, a)
  BY <1>1, <1>3 DEF StampedRun
<1>5. ASSUME NEW x \in StampedRun(s, a)
      PROVE  x \in Archives /\ Stamped(s, x) /\ Stamped(s, a)
  <2>1. PICK i \in 1..Len(Path[a]) :
           x = Path[a][i] /\ \A j \in 1..i : Stamped(s, Path[a][j])
    BY DEF StampedRun
  <2>2. QED
    BY <2>1, <1>1, <1>2
<1>6. QED
  BY <1>4, <1>5

\* vfs_rmstamp.
LEMMA Removes ==
    ASSUME NEW s, NEW need, NEW freed, Sound(s, need, freed),
           NEW a \in Archives, NEW removeparents \in BOOLEAN,
           NEW t, t = vfs_rmstamp(s, a, removeparents)
    PROVE  /\ Sound(t, need, freed) /\ Keeps(s, t)
           /\ t.owed = s.owed /\ t.lost = s.lost
           /\ ~Stamped(t, a)
           /\ \A x : Stamped(t, x) => Stamped(s, x)
           /\ ~Stamped(s, a) => t.gone = s.gone
           /\ ~removeparents => t.gone \subseteq s.gone \cup {a}
<1> DEFINE out == IF removeparents THEN StampedRun(s, a) ELSE {a}
           w == Without(s.stamps, out)
<1>1. s \in Memories /\ s.stamps \in Seq(Stamps) /\ Distinct(s.stamps)
  BY DEF Sound, Memories, Listed
<1>2. out \subseteq Archives /\ (Stamped(s, a) => a \in out)
  BY RunOf
<1>3. t = [s EXCEPT !.stamps = w, !.gone = @ \cup {x \in out : Stamped(s, x)}]
  BY DEF vfs_rmstamp
<1> HIDE DEF out
<1>4. w \in Seq(Stamps) /\ Distinct(w)
  BY <1>1, WithoutOut
<1>5. ASSUME NEW i \in 1..Len(w)
      PROVE  /\ w[i].id \notin out /\ Stamped(s, w[i].id)
  BY <1>1, WithoutOut DEF Stamped
<1> HIDE DEF w
<1>6. t \in Memories /\ t.stamps = w
  BY <1>1, <1>2, <1>3, <1>4 DEF Memories
<1>7. Keeps(s, t) /\ t.owed = s.owed /\ t.lost = s.lost
  BY <1>1, <1>3 DEF Keeps, Memories
<1>8. Sound(t, need, freed)
  BY <1>4, <1>5, <1>6, <1>7, Restamped
<1>9. \A x : Stamped(t, x) => Stamped(s, x) /\ x \notin out
  BY <1>5, <1>6 DEF Stamped
<1>10. t.gone = s.gone \cup {x \in out : Stamped(s, x)}
  BY <1>1, <1>3 DEF Memories
<1>11. ~Stamped(s, a) => \A x \in out : ~Stamped(s, x)
  BY RunOf DEF out
<1>12. ~removeparents => out = {a}
  BY DEF out
<1>13. QED
  BY <1>2, <1>7, <1>8, <1>9, <1>10, <1>11, <1>12

\* A renewed stamp is a stamp of the same archive.
LEMMA Fresh ==
    ASSUME NEW x \in Stamps
    PROVE  /\ [x EXCEPT !.old = FALSE] \in Stamps
           /\ [x EXCEPT !.old = FALSE].id = x.id
BY DEF Stamps

\* vfs_stamp.
LEMMA Touches ==
    ASSUME NEW s, NEW need, NEW freed, Sound(s, need, freed),
           NEW a \in Archives, NEW t, t = vfs_stamp(s, a)
    PROVE  /\ Sound(t, need, freed) /\ Keeps(s, t)
           /\ t.owed = s.owed /\ t.lost = s.lost /\ t.gone = s.gone
           /\ \A x : Stamped(t, x) => Stamped(s, x)
<1> DEFINE q == s.stamps
           w == [i \in DOMAIN q |-> IF q[i].id \in StampedRun(s, a)
                                    THEN [q[i] EXCEPT !.old = FALSE] ELSE q[i]]
<1>1. s \in Memories /\ q \in Seq(Stamps) /\ Distinct(q)
  BY DEF Sound, Memories, Listed
<1>2. t = [s EXCEPT !.stamps = w]
  BY DEF vfs_stamp
<1>3. DOMAIN q = 1..Len(q) /\ Len(q) \in Nat
  BY <1>1
<1>4. ASSUME NEW i \in 1..Len(q) PROVE w[i] \in Stamps /\ w[i].id = q[i].id
  <2>1. PICK x \in Stamps : x = q[i]
    BY <1>1
  <2>2. w[i] = IF x.id \in StampedRun(s, a) THEN [x EXCEPT !.old = FALSE] ELSE x
    BY <2>1, <1>3
  <2>3. QED
    BY <2>1, <2>2, Fresh
<1>5. w = [i \in 1..Len(q) |-> w[i]]
  BY <1>3
<1> HIDE DEF w, q
<1>6. w \in Seq(Stamps) /\ Len(w) = Len(q)
  BY <1>3, <1>4, <1>5
<1>7. t \in Memories /\ t.stamps = w /\ Keeps(s, t) /\ t.owed = s.owed
      /\ t.lost = s.lost /\ t.gone = s.gone
  BY <1>1, <1>2, <1>6 DEF Memories, Keeps
<1>8. Distinct(w)
  BY <1>1, <1>3, <1>4, <1>6 DEF Distinct
<1>9. \A i \in 1..Len(w) : Stamped(s, w[i].id)
  BY <1>4, <1>6 DEF Stamped, q
<1>10. Sound(t, need, freed)
  BY <1>7, <1>8, <1>9, Restamped
<1>11. QED
  BY <1>7, <1>9, <1>10 DEF Stamped

\* vfs_addstamp, for an archive that is idle.
LEMMA Adds ==
    ASSUME NEW s, NEW need, NEW freed, Sound(s, need, freed),
           NEW a \in s.loaded, s.fd[a] <= 0, a \notin Shown(s),
           NEW t, t = vfs_addstamp(s, a)
    PROVE  /\ Sound(t, need, freed) /\ Keeps(s, t)
           /\ t.owed = s.owed /\ t.lost = s.lost /\ t.gone = s.gone
           /\ \A x : Stamped(t, x) => Stamped(s, x) \/ x = a
<1> DEFINE q == s.stamps
<1>1. s \in Memories /\ q \in Seq(Stamps) /\ Distinct(q) /\ a \in Archives
  BY DEF Sound, Memories, Listed
<1>2. DOMAIN q = 1..Len(q) /\ Len(q) \in Nat
  BY <1>1
<1>3. CASE Stamped(s, a)
  <2> DEFINE w == [i \in DOMAIN q |-> IF q[i].id = a
                                      THEN [q[i] EXCEPT !.old = FALSE] ELSE q[i]]
  <2>1. t = [s EXCEPT !.stamps = w]
    BY <1>3 DEF vfs_addstamp
  <2>2. ASSUME NEW i \in 1..Len(q) PROVE w[i] \in Stamps /\ w[i].id = q[i].id
    <3>1. PICK x \in Stamps : x = q[i]
      BY <1>1
    <3>2. w[i] = IF x.id = a THEN [x EXCEPT !.old = FALSE] ELSE x
      BY <3>1, <1>2
    <3>3. QED
      BY <3>1, <3>2, Fresh
  <2>3. w = [i \in 1..Len(q) |-> w[i]]
    BY <1>2
  <2> HIDE DEF w, q
  <2>4. w \in Seq(Stamps) /\ Len(w) = Len(q)
    BY <1>2, <2>2, <2>3
  <2>5. t \in Memories /\ t.stamps = w /\ Keeps(s, t) /\ t.owed = s.owed
        /\ t.lost = s.lost /\ t.gone = s.gone
    BY <1>1, <2>1, <2>4 DEF Memories, Keeps
  <2>6. Distinct(w)
    BY <1>1, <1>2, <2>2, <2>4 DEF Distinct
  <2>7. \A i \in 1..Len(w) : Stamped(s, w[i].id)
    BY <2>2, <2>4 DEF Stamped, q
  <2>8. Sound(t, need, freed)
    BY <2>5, <2>6, <2>7, Restamped
  <2>9. QED
    BY <2>5, <2>7, <2>8 DEF Stamped
<1>4. CASE ~Stamped(s, a)
  <2> DEFINE e == [id |-> a, old |-> FALSE]
             w == Append(q, e)
  <2>1. t = [s EXCEPT !.stamps = w]
    BY <1>4 DEF vfs_addstamp
  <2>2. e \in Stamps /\ e.id = a
    BY <1>1 DEF Stamps
  <2>3. /\ w \in Seq(Stamps) /\ Len(w) = Len(q) + 1 /\ w[Len(q) + 1] = e
        /\ \A i \in 1..Len(q) : w[i] = q[i]
    BY <1>1, <2>2
  <2> HIDE DEF w, e
  <2>4. t \in Memories /\ t.stamps = w /\ Keeps(s, t) /\ t.owed = s.owed
        /\ t.lost = s.lost /\ t.gone = s.gone
    BY <1>1, <2>1, <2>3 DEF Memories, Keeps
  <2>5. \A i \in 1..Len(q) : q[i].id # a
    BY <1>4 DEF Stamped
  <2>6. ASSUME NEW i \in 1..Len(w)
        PROVE  i \in 1..Len(q) \/ i = Len(q) + 1
    BY <2>3, <1>2
  <2>7. Distinct(w)
    <3>1. SUFFICES ASSUME NEW i \in 1..Len(w), NEW j \in 1..(i - 1)
                   PROVE  w[j].id # w[i].id
      BY DEF Distinct
    <3>2. j \in 1..Len(q) /\ w[j] = q[j]
      BY <2>3, <1>2
    <3>3. QED
      BY <3>2, <2>2, <2>3, <2>5, <2>6, <1>1 DEF Distinct
  <2>8. \A i \in 1..Len(w) : Stamped(s, w[i].id) \/ w[i].id = a
    BY <2>2, <2>3, <2>6 DEF Stamped
  <2>9. Sound(t, need, freed)
    BY <2>4, <2>7, <2>8, Restamped
  <2>10. QED
    BY <2>4, <2>8, <2>9 DEF Stamped
<1>5. QED
  BY <1>3, <1>4

\* AddStamps, for archives that are idle.
LEMMA AddsAll ==
    ASSUME NEW s, NEW need, NEW freed, Sound(s, need, freed),
           NEW list \in Seq(Archives),
           \A i \in 1..Len(list) : /\ list[i] \in s.loaded /\ s.fd[list[i]] <= 0
                                   /\ list[i] \notin Shown(s),
           NEW t, t = AddStamps(s, list)
    PROVE  /\ Sound(t, need, freed) /\ Keeps(s, t)
           /\ t.owed = s.owed /\ t.lost = s.lost /\ t.gone = s.gone
           /\ \A x : Stamped(t, x) =>
                 Stamped(s, x) \/ \E i \in 1..Len(list) : list[i] = x
<1> DEFINE L == Len(list)
           Good(v) ==
              /\ Sound(v, need, freed) /\ Keeps(s, v)
              /\ v.owed = s.owed /\ v.lost = s.lost /\ v.gone = s.gone
              /\ \A x : Stamped(v, x) =>
                    Stamped(s, x) \/ \E i \in 1..L : list[i] = x
           G == {v \in Memories : Good(v)}
           F == [y \in G \X Nat |->
                   IF y[2] \in 1..L THEN vfs_addstamp(y[1], list[y[2]]) ELSE y[1]]
           Body(f) == [n \in 0..L |-> IF n = 0 THEN s
                                      ELSE vfs_addstamp(f[n - 1], list[n])]
           T == [n \in 0..L |-> G]
<1>1. L \in Nat /\ s \in G
  BY DEF Sound, Keeps
<1>2. ASSUME NEW v \in G, NEW n \in 1..L PROVE vfs_addstamp(v, list[n]) \in G
  <2>1. PICK w : w = vfs_addstamp(v, list[n])
    OBVIOUS
  <2>2. Sound(v, need, freed) /\ Keeps(s, v) /\ Shown(v) = Shown(s)
    BY DEF Keeps, Shown
  <2>3. list[n] \in v.loaded /\ v.fd[list[n]] <= 0 /\ list[n] \notin Shown(v)
    BY <2>2 DEF Keeps
  <2>4. /\ Sound(w, need, freed) /\ Keeps(v, w)
        /\ w.owed = v.owed /\ w.lost = v.lost /\ w.gone = v.gone
        /\ \A x : Stamped(w, x) => Stamped(v, x) \/ x = list[n]
    BY <2>1, <2>2, <2>3, Adds
  <2>5. w \in Memories /\ Keeps(s, w)
    BY <2>2, <2>4 DEF Sound, Keeps
  <2>6. \A x : Stamped(w, x) => Stamped(s, x) \/ \E i \in 1..L : list[i] = x
    BY <2>4
  <2>7. Good(w)
    BY <2>4, <2>5, <2>6
  <2>8. QED
    BY <2>1, <2>5, <2>7
<1> HIDE DEF G, L
<1>3. F \in [G \X Nat -> G]
  BY <1>2
<1>4. PICK g : g \in Runs(L, G, s, F)
  <2> HIDE DEF F
  <2>1. QED
    BY <1>1, <1>3, Iterates
<1>5. /\ g \in [0..L -> G] /\ g[0] = s
      /\ \A n \in 1..L : g[n] = F[<<g[n - 1], n>>]
  BY <1>4 DEF Runs
<1>6. ASSUME NEW n \in 0..L PROVE g[n] = Body(g)[n]
  <2>1. CASE n = 0
    BY <1>5, <2>1
  <2>2. CASE n # 0
    <3>1. n \in 1..L /\ n - 1 \in 0..L /\ n \in Nat
      BY <1>1, <2>2
    <3>2. g[n - 1] \in G /\ <<g[n - 1], n>> \in G \X Nat
      BY <3>1, <1>5
    <3>3. F[<<g[n - 1], n>>] = vfs_addstamp(g[n - 1], list[n])
      BY <3>1, <3>2
    <3>4. QED
      BY <2>2, <3>1, <3>3, <1>5
  <2>3. QED
    BY <2>1, <2>2
<1>7. g = Body(g)
  <2>1. g = [n \in 0..L |-> g[n]]
    BY <1>5
  <2> HIDE DEF F
  <2>2. QED
    BY <1>6, <2>1
<1>8. PICK k : k = Body(k) /\ t = k[L]
  <2>1. t = (CHOOSE f : f = Body(f))[L]
    BY DEF AddStamps, L
  <2> HIDE DEF Body
  <2>2. QED
    BY <1>7, <2>1
<1>9. k[0] = s /\ \A n \in 1..L : k[n] = vfs_addstamp(k[n - 1], list[n])
  <2>1. \A n \in 0..L : k[n] = Body(k)[n]
    BY <1>8
  <2>2. 0 \in 0..L /\ \A n \in 1..L : n \in 0..L /\ n # 0
    BY <1>1
  <2>3. QED
    BY <2>1, <2>2
<1>10. k[0] \in T[0]
  BY <1>1, <1>9
<1>11. ASSUME NEW n \in 1..L, k[n - 1] \in T[n - 1] PROVE k[n] \in T[n]
  <2>1. n - 1 \in 0..L /\ n \in 0..L
    BY <1>1
  <2>2. QED
    BY <2>1, <1>2, <1>9, <1>11
<1>12. \A n \in 0..L : k[n] \in T[n]
  <2> HIDE DEF T
  <2>1. QED
    BY <1>1, <1>10, <1>11, Stepwise
<1>13. t \in G
  BY <1>1, <1>8, <1>12
<1>14. QED
  BY <1>13 DEF G, L

\* The archives around one that are stamped with it are idle.
LEMMA ParentsIdle ==
    ASSUME NEW s, NEW need, NEW freed, Sound(s, need, freed), NEW a \in s.loaded
    PROVE  /\ StampedParents(s, a) \in Seq(Archives)
           /\ \A i \in 1..Len(StampedParents(s, a)) :
                 LET x == StampedParents(s, a)[i]
                 IN  /\ x \in s.loaded /\ s.fd[x] <= 0
                     /\ x \notin Shown(s) /\ x # s.current_dir
<1>1. a \in Archives /\ s.loaded \subseteq Archives /\ Rooted(s)
  BY DEF Sound, Memories
<1> DEFINE up == Tail(Path[a])
           Idle(x) == x \notin Innermost(s) /\ nothingisopen(s, x)
           I == {i \in 1..Len(up) : \A j \in 1..i : Idle(up[j])}
           m == Cardinality(I)
<1>2. /\ up \in Seq(Archives) /\ Len(up) \in Nat /\ Len(up) = Len(Path[a]) - 1
      /\ \A i \in 1..Len(up) : up[i] = Path[a][i + 1]
  BY <1>1, PathSteps
<1>3. \A i \in 1..Len(up) : up[i] \in s.loaded
  <2>1. \A i \in 1..Len(up) : i + 1 \in 1..Len(Path[a])
    BY <1>2
  <2>2. QED
    BY <2>1, <1>1, <1>2, PathLoaded
<1>4. StampedParents(s, a) = SubSeq(up, 1, m)
  BY DEF StampedParents
<1> HIDE DEF up, Idle
<1>5. IsFiniteSet(1..Len(up)) /\ Cardinality(1..Len(up)) = Len(up)
  <2>1. PICK n \in Nat : n = Len(up)
    BY <1>2
  <2>2. /\ IsFiniteSet(1..n)
        /\ Cardinality(1..n) = IF 1 > n THEN 0 ELSE n - 1 + 1
    BY FS_Interval
  <2>3. QED
    BY <2>1, <2>2
<1>6. IsFiniteSet(I) /\ m \in Nat /\ m <= Len(up)
  BY <1>5, FS_Subset, FS_CardinalityType
<1>7. ASSUME NEW j \in 1..m PROVE Idle(up[j]) /\ j \in 1..Len(up)
  <2>1. j \in 1..Len(up)
    BY <1>2, <1>6
  <2>2. SUFFICES ASSUME ~Idle(up[j]) PROVE FALSE
    BY <2>1
  <2>3. I \subseteq 1..(j - 1)
    <3>1. SUFFICES ASSUME NEW i \in I, ~(i < j) PROVE FALSE
      BY <2>1
    <3>2. j \in 1..i
      BY <3>1, <2>1
    <3>3. QED
      BY <3>2, <2>2
  <2>4. IsFiniteSet(1..(j - 1)) /\ Cardinality(1..(j - 1)) = j - 1
    BY <2>1, FS_Interval
  <2> HIDE DEF I
  <2>5. Cardinality(I) <= j - 1
    BY <2>3, <2>4, FS_Subset
  <2>6. QED
    BY <2>5, <1>6
<1> HIDE DEF m
<1>8. /\ SubSeq(up, 1, m) \in Seq(Archives) /\ Len(SubSeq(up, 1, m)) = m
      /\ \A i \in 1..m : SubSeq(up, 1, m)[i] = up[i]
  BY <1>2, <1>6
<1>9. QED
  BY <1>3, <1>4, <1>7, <1>8
    DEF Idle, nothingisopen, Innermost, Shown

\* What is current is not stamped.
LEMMA CurrentOnes ==
    ASSUME NEW s, NEW need, NEW freed, Sound(s, need, freed),
           NEW a \in s.loaded \ Current(s)
    PROVE  a \notin Shown(s) /\ a # s.current_dir
<1>1. s.loaded \subseteq Archives /\ Shown(s) \subseteq s.loaded \cup {Local}
  BY DEF Sound, Memories
<1>2. ASSUME NEW d \in s.loaded PROVE d \in Ids(s, d)
  <2>1. d = Path[d][1] /\ 1 \in DOMAIN Path[d]
    BY <1>1, PathSteps
  <2>2. QED
    BY <2>1 DEF Ids, Range
<1>3. a # s.current_dir
  BY <1>2 DEF Current
<1>4. ASSUME NEW p \in Panels, s.listing[p], a = s.cwd[p] PROVE FALSE
  BY <1>2, <1>4 DEF Current
<1>5. QED
  BY <1>3, <1>4 DEF Shown

\* vfs_add_noncurrent_stamps.
LEMMA AddsNoncurrent ==
    ASSUME NEW s, NEW need, NEW freed, Sound(s, need, freed), NEW a,
           NEW t, t = vfs_add_noncurrent_stamps(s, a)
    PROVE  /\ Sound(t, need, freed) /\ Keeps(s, t)
           /\ t.owed = s.owed /\ t.lost = s.lost
           /\ s.current_dir \in s.loaded => ~Stamped(t, s.current_dir)
           /\ ~(s.current_dir \in s.loaded /\ Stamped(s, s.current_dir))
                 => t.gone = s.gone
<1>1. PICK r : r = IF s.current_dir \in s.loaded
                   THEN vfs_rmstamp(s, s.current_dir, TRUE) ELSE s
  OBVIOUS
<1>2. s.loaded \subseteq Archives
  BY DEF Sound, Memories
<1>3. /\ Sound(r, need, freed) /\ Keeps(s, r)
      /\ r.owed = s.owed /\ r.lost = s.lost
      /\ s.current_dir \in s.loaded => ~Stamped(r, s.current_dir)
      /\ ~(s.current_dir \in s.loaded /\ Stamped(s, s.current_dir))
            => r.gone = s.gone
  <2>1. CASE s.current_dir \in s.loaded
    <3>1. PICK d \in Archives, b \in BOOLEAN : d = s.current_dir /\ b = TRUE
      BY <1>2, <2>1
    <3>2. r = vfs_rmstamp(s, d, b)
      BY <1>1, <2>1, <3>1
    <3>3. /\ Sound(r, need, freed) /\ Keeps(s, r)
          /\ r.owed = s.owed /\ r.lost = s.lost /\ ~Stamped(r, d)
          /\ ~Stamped(s, d) => r.gone = s.gone
      BY <3>2, Removes
    <3>4. QED
      BY <3>1, <3>3, <2>1
  <2>2. CASE s.current_dir \notin s.loaded
    BY <1>1, <2>2 DEF Keeps
  <2>3. QED
    BY <2>1, <2>2
<1>4. CASE a \in s.loaded \ Current(s) /\ nothingisopen(s, a)
  <2>1. a \notin Shown(s) /\ a # s.current_dir /\ s.fd[a] <= 0 /\ a \in Archives
    BY <1>2, <1>4, CurrentOnes DEF nothingisopen
  <2>2. Shown(r) = Shown(s) /\ a \in r.loaded /\ r.fd = s.fd
        /\ r.current_dir = s.current_dir
    BY <1>3, <1>4 DEF Keeps, Shown
  <2>3. PICK q : q = StampedParents(r, a)
    OBVIOUS
  <2>4. /\ q \in Seq(Archives)
        /\ \A i \in 1..Len(q) :
              /\ q[i] \in r.loaded /\ r.fd[q[i]] <= 0
              /\ q[i] \notin Shown(r) /\ q[i] # r.current_dir
    BY <1>3, <2>2, <2>3, ParentsIdle
  <2>5. PICK list : list = <<a>> \o q
    OBVIOUS
  <2>6. /\ list \in Seq(Archives) /\ Len(list) = Len(q) + 1 /\ list[1] = a
        /\ \A i \in 1..Len(q) : list[i + 1] = q[i]
    BY <2>1, <2>4, <2>5
  <2>7. ASSUME NEW i \in 1..Len(list)
        PROVE  /\ list[i] \in r.loaded /\ r.fd[list[i]] <= 0
               /\ list[i] \notin Shown(r) /\ list[i] # r.current_dir
    <3>1. CASE i = 1
      BY <3>1, <2>1, <2>2, <2>6
    <3>2. CASE i # 1
      <4>1. i - 1 \in 1..Len(q) /\ (i - 1) + 1 = i
        BY <3>2, <2>4, <2>6
      <4>2. list[i] = q[i - 1]
        BY <4>1, <2>6
      <4>3. QED
        BY <4>1, <4>2, <2>4
    <3>3. QED
      BY <3>1, <3>2
  <2>8. t = AddStamps(r, list)
    BY <1>1, <1>4, <2>3, <2>5 DEF vfs_add_noncurrent_stamps
  <2>9. /\ Sound(t, need, freed) /\ Keeps(r, t)
        /\ t.owed = r.owed /\ t.lost = r.lost /\ t.gone = r.gone
        /\ \A x : Stamped(t, x) =>
              Stamped(r, x) \/ \E i \in 1..Len(list) : list[i] = x
    BY <1>3, <2>6, <2>7, <2>8, AddsAll
  <2>10. s.current_dir \in s.loaded => ~Stamped(t, s.current_dir)
    BY <1>3, <2>2, <2>7, <2>9
  <2>11. Keeps(s, t)
    BY <1>3, <2>9 DEF Keeps
  <2>12. QED
    BY <1>3, <2>9, <2>10, <2>11
<1>5. CASE ~(a \in s.loaded \ Current(s) /\ nothingisopen(s, a))
  <2>1. t = r
    BY <1>1, <1>5 DEF vfs_add_noncurrent_stamps
  <2>2. QED
    BY <2>1, <1>3
<1>6. QED
  BY <1>4, <1>5

-----------------------------------------------------------------------------
(* The counts of uses.                                                      *)

More(need, a) == [need EXCEPT ![a] = need[a] + 1]

\* One use more changes the need of one archive.
LEMMA MoreNeeds ==
    ASSUME NEW need \in Needs, NEW a \in Archives
    PROVE  /\ More(need, a) \in Needs /\ More(need, a)[a] = need[a] + 1
           /\ \A b \in Archives : b # a => More(need, a)[b] = need[b]
BY DEF More, Needs

\* The archives that are loaded, and where the panels are, stay.
Same(s, t) ==
    /\ t.loaded = s.loaded /\ t.current_dir = s.current_dir
    /\ t.cwd = s.cwd /\ t.listing = s.listing

\* The archives read in from inside one are finitely many.
LEMMA InsideFinite ==
    ASSUME NEW s, s.loaded \subseteq Archives, NEW a
    PROVE  /\ IsFiniteSet(Inside(s, a)) /\ Cardinality(Inside(s, a)) \in Nat
           /\ Inside(s, a) # {} => Cardinality(Inside(s, a)) > 0
<1>1. Inside(s, a) \in SUBSET Archives
  BY DEF Inside
<1>2. IsFiniteSet(Inside(s, a))
  BY <1>1, Layout, FS_Subset
<1>3. Cardinality(Inside(s, a)) \in Nat
  BY <1>2, FS_CardinalityType
<1>4. Cardinality(Inside(s, a)) = 0 <=> Inside(s, a) = {}
  BY <1>2, FS_EmptySet
<1>5. QED
  BY <1>2, <1>3, <1>4

\* Another count of the uses of one archive.
LEMMA Recounted ==
    ASSUME NEW s, NEW need \in Needs, NEW freed, Sound(s, need, freed),
           NEW other \in Needs, NEW a \in Archives,
           \A b \in Archives : b # a => other[b] = need[b],
           NEW t \in Memories, Same(s, t), t.stamps = s.stamps,
           \A b \in Archives : b # a => t.fd[b] = s.fd[b],
           t.fd[a] - s.fd[a] >= other[a] - need[a],
           other[a] > 0 => a \in s.loaded,
           Stamped(s, a) => t.fd[a] <= 0
    PROVE  Sound(t, other, freed)
<1>1. Shown(t) = Shown(s) /\ \A x : Inside(t, x) = Inside(s, x)
  BY DEF Shown, Inside, Same
<1>2. Rooted(t) /\ Shown(t) \subseteq t.loaded \cup {Local}
  BY <1>1 DEF Sound, Rooted, Same
<1>3. s \in Memories /\ Listed(s, freed) /\ Counted(s, need)
  BY DEF Sound
<1>4. ASSUME NEW b \in Archives
      PROVE  /\ b \notin Tars =>
                   t.fd[b] >= other[b] + Cardinality(Inside(t, b))
             /\ b \in Tars \cap t.loaded =>
                   t.fd[b] >= 1 + other[b] + Cardinality(Inside(t, b))
             /\ other[b] > 0 => b \in t.loaded
  <2>1. /\ Cardinality(Inside(s, b)) \in Nat
        /\ s.fd[b] \in Int /\ t.fd[b] \in Int
        /\ need[b] \in Nat /\ other[b] \in Nat
    <3>1. s.loaded \subseteq Archives
      BY <1>3 DEF Memories
    <3>2. QED
      BY <1>3, <3>1, InsideFinite DEF Memories, Needs
  <2>2. /\ b \notin Tars => s.fd[b] >= need[b] + Cardinality(Inside(s, b))
        /\ b \in Tars \cap s.loaded =>
              s.fd[b] >= 1 + need[b] + Cardinality(Inside(s, b))
        /\ need[b] > 0 => b \in s.loaded
    BY <1>3 DEF Counted
  <2>3. t.fd[b] - s.fd[b] >= other[b] - need[b] /\ t.loaded = s.loaded
    BY <2>1 DEF Same
  <2>4. other[b] > 0 => b \in t.loaded
    BY <2>2, <2>3
  <2>5. QED
    BY <2>1, <2>2, <2>3, <2>4, <1>1
<1>5. ASSUME NEW i \in 1..Len(t.stamps)
      PROVE  /\ t.stamps[i].id \in t.loaded \cup freed
             /\ t.fd[t.stamps[i].id] <= 0 /\ t.stamps[i].id \notin Shown(t)
  <2>1. s.stamps \in Seq(Stamps)
    BY <1>3 DEF Memories
  <2>2. t.stamps[i] \in Stamps
    BY <2>1
  <2>3. t.stamps[i].id \in Archives
    BY <2>2 DEF Stamps
  <2>4. /\ t.stamps[i].id \in s.loaded \cup freed
        /\ s.fd[t.stamps[i].id] <= 0 /\ t.stamps[i].id \notin Shown(s)
    BY <1>3 DEF Listed
  <2>5. t.stamps[i].id = a => Stamped(s, a)
    BY DEF Stamped
  <2>6. QED
    BY <2>3, <2>4, <2>5, <1>1 DEF Same
<1>6. QED
  BY <1>2, <1>3, <1>4, <1>5 DEF Sound, Counted, Listed

\* extfs_open and vfs_s_open.
LEMMA Holds ==
    ASSUME NEW s, NEW need \in Needs, NEW freed, Sound(s, need, freed),
           NEW a \in Archives, a \in s.loaded, NEW t, t = Hold(s, a)
    PROVE  /\ Sound(t, More(need, a), freed) /\ Same(s, t)
           /\ t.owed = s.owed /\ t.lost = s.lost
           /\ t.fd = [s.fd EXCEPT ![a] = s.fd[a] + 1]
           /\ \A x : Stamped(t, x) => Stamped(s, x)
           /\ ~Stamped(t, a)
           /\ ~Stamped(s, a) => t.gone = s.gone
<1>1. PICK yes \in BOOLEAN : yes = TRUE
  OBVIOUS
<1>2. PICK r : r = vfs_rmstamp(s, a, yes)
  OBVIOUS
<1>3. /\ Sound(r, need, freed) /\ Keeps(s, r)
      /\ r.owed = s.owed /\ r.lost = s.lost
      /\ ~Stamped(r, a)
      /\ \A x : Stamped(r, x) => Stamped(s, x)
      /\ ~Stamped(s, a) => r.gone = s.gone
  BY <1>2, Removes
<1>4. r \in Memories /\ s \in Memories
  BY <1>3 DEF Sound
<1>5. PICK fd \in [Archives -> Int] :
         fd = [r.fd EXCEPT ![a] = r.fd[a] + 1]
  <2>1. r.fd \in [Archives -> Int] /\ r.fd[a] + 1 \in Int
    BY <1>4 DEF Memories
  <2>2. QED
    BY <2>1
<1>6. t = [r EXCEPT !.fd = fd]
  BY <1>1, <1>2, <1>5 DEF Hold
<1>7. /\ t \in Memories /\ t.fd = [r.fd EXCEPT ![a] = r.fd[a] + 1]
      /\ t.stamps = r.stamps /\ t.gone = r.gone
      /\ t.owed = r.owed /\ t.lost = r.lost
      /\ t.loaded = r.loaded /\ t.current_dir = r.current_dir
      /\ t.cwd = r.cwd /\ t.listing = r.listing
  BY <1>4, <1>5, <1>6 DEF Memories
<1>8. Same(r, t) /\ Same(s, t) /\ r.loaded = s.loaded
  BY <1>3, <1>7 DEF Same, Keeps
<1>9. /\ \A b \in Archives : b # a => t.fd[b] = r.fd[b]
      /\ r.fd[a] \in Int /\ t.fd[a] = r.fd[a] + 1
  BY <1>4, <1>7 DEF Memories
<1>10. /\ need[a] \in Nat /\ More(need, a) \in Needs
       /\ More(need, a)[a] = need[a] + 1
       /\ \A b \in Archives : b # a => More(need, a)[b] = need[b]
  BY MoreNeeds DEF Needs
<1>11. a \in r.loaded /\ Same(r, t)
  BY <1>8
<1>12. t.fd[a] - r.fd[a] >= More(need, a)[a] - need[a]
  BY <1>9, <1>10
<1>13. Sound(t, More(need, a), freed)
  <2>1. PICK m \in Needs : m = More(need, a)
    BY <1>10
  <2>2. \A b \in Archives : b # a => m[b] = need[b]
    BY <2>1, <1>10
  <2>3. t.fd[a] - r.fd[a] >= m[a] - need[a]
    BY <2>1, <1>12
  <2>4. t \in Memories /\ t.stamps = r.stamps
    BY <1>7
  <2>5. \A b \in Archives : b # a => t.fd[b] = r.fd[b]
    BY <1>9
  <2>6. Sound(t, m, freed)
    BY <1>3, <1>11, <2>2, <2>3, <2>4, <2>5, Recounted
  <2>7. QED
    BY <2>1, <2>6
<1>14. \A x : Stamped(t, x) <=> Stamped(r, x)
  BY <1>7 DEF Stamped
<1>15. QED
  BY <1>3, <1>7, <1>8, <1>13, <1>14 DEF Keeps

\* One use less is counted.
LEMMA Drops ==
    ASSUME NEW s, NEW need \in Needs, NEW freed, NEW a \in Archives,
           Sound(s, More(need, a), freed),
           NEW t \in Memories, Same(s, t), t.stamps = s.stamps,
           \A b \in Archives : b # a => t.fd[b] = s.fd[b],
           t.fd[a] = s.fd[a] - 1
    PROVE  Sound(t, need, freed)
<1>1. s \in Memories /\ Counted(s, More(need, a)) /\ Listed(s, freed)
  BY DEF Sound
<1>2. s.fd[a] \in Int
  BY <1>1 DEF Memories
<1>3. /\ need[a] \in Nat /\ More(need, a) \in Needs
      /\ More(need, a)[a] = need[a] + 1
      /\ \A b \in Archives : b # a => need[b] = More(need, a)[b]
  BY MoreNeeds DEF Needs
<1>4. a \in s.loaded
  BY <1>1, <1>3 DEF Counted
<1>5. t.fd[a] - s.fd[a] >= need[a] - More(need, a)[a]
  BY <1>2, <1>3
<1>6. Stamped(s, a) => t.fd[a] <= 0
  BY <1>1, <1>2 DEF Stamped, Listed
<1>7. PICK m \in Needs : m = More(need, a)
  BY <1>3
<1>8. \A b \in Archives : b # a => need[b] = m[b]
  BY <1>3, <1>7
<1>9. t.fd[a] - s.fd[a] >= need[a] - m[a] /\ Sound(s, m, freed)
  BY <1>5, <1>7
<1>10. QED
  BY <1>4, <1>6, <1>8, <1>9, Recounted

\* A use that is not given back leaves the count too high.
LEMMA NotGivenBack ==
    ASSUME NEW s, NEW need \in Needs, NEW freed, NEW a \in Archives,
           Sound(s, More(need, a), freed)
    PROVE  Sound(s, need, freed)
<1>1. s \in Memories
  BY DEF Sound
<1>2. /\ need[a] \in Nat /\ More(need, a) \in Needs
      /\ More(need, a)[a] = need[a] + 1
      /\ \A b \in Archives : b # a => need[b] = More(need, a)[b]
  BY MoreNeeds DEF Needs
<1>3. a \in s.loaded /\ s.fd[a] \in Int
  BY <1>1, <1>2 DEF Sound, Counted, Memories
<1>4. Same(s, s)
  BY DEF Same
<1>5. Stamped(s, a) => s.fd[a] <= 0
  BY DEF Sound, Stamped, Listed
<1>6. s.fd[a] - s.fd[a] >= need[a] - More(need, a)[a]
  BY <1>2, <1>3
<1>7. QED
  BY <1>1, <1>2, <1>3, <1>4, <1>5, <1>6, Recounted

\* extfs_close and vfs_s_close.
LEMMA Releases ==
    ASSUME NEW s, NEW need \in Needs, NEW freed, NEW a \in Archives,
           Sound(s, More(need, a), freed), NEW t, t = Release(s, a)
    PROVE  /\ Sound(t, need, freed) /\ Same(s, t)
           /\ t.owed = s.owed /\ t.lost = s.lost
           /\ ~(s.current_dir \in s.loaded /\ Stamped(s, s.current_dir))
                 => t.gone = s.gone
<1>1. s \in Memories /\ s.owed \in SUBSET Archives
  BY DEF Sound, Memories
<1>2. PICK r : r = [s EXCEPT !.fd[a] = s.fd[a] - 1]
  OBVIOUS
<1>3. PICK counts \in [Archives -> Int] :
         counts = [s.fd EXCEPT ![a] = s.fd[a] - 1]
  <2>1. s.fd \in [Archives -> Int] /\ s.fd[a] - 1 \in Int
    BY <1>1 DEF Memories
  <2>2. QED
    BY <2>1
<1>4. r = [s EXCEPT !.fd = counts]
  BY <1>2, <1>3
<1>5. /\ r \in Memories /\ Same(s, r)
      /\ r.owed = s.owed /\ r.lost = s.lost /\ r.gone = s.gone
      /\ r.stamps = s.stamps /\ r.fd = counts
  BY <1>1, <1>3, <1>4 DEF Memories, Same
<1>6. /\ \A b \in Archives : b # a => r.fd[b] = s.fd[b]
      /\ r.fd[a] = s.fd[a] - 1
  BY <1>1, <1>3, <1>5 DEF Memories
<1>7. Sound(r, need, freed)
  BY <1>5, <1>6, Drops
<1>8. t = IF r.fd[a] = 0 THEN vfs_add_noncurrent_stamps(r, a) ELSE r
  BY <1>2 DEF Release
<1>9. CASE r.fd[a] = 0
  <2>1. t = vfs_add_noncurrent_stamps(r, a)
    BY <1>8, <1>9
  <2>2. /\ Sound(t, need, freed) /\ Keeps(r, t)
        /\ t.owed = r.owed /\ t.lost = r.lost
        /\ ~(r.current_dir \in r.loaded /\ Stamped(r, r.current_dir))
              => t.gone = r.gone
    BY <1>7, <2>1, AddsNoncurrent
  <2>3. Stamped(r, r.current_dir) <=> Stamped(s, s.current_dir)
    BY <1>5 DEF Same, Stamped
  <2>4. QED
    BY <1>5, <2>2, <2>3 DEF Same, Keeps
<1>10. CASE r.fd[a] # 0
  BY <1>5, <1>8, <1>10, <1>7
<1>11. QED
  BY <1>9, <1>10

\* extfs_ungetlocalcopy.
LEMMA Ungets ==
    ASSUME NEW s, NEW need \in Needs, NEW freed, NEW a \in Archives,
           Sound(s, More(need, a), freed),
           NEW has_changed \in BOOLEAN, NEW opens \in BOOLEAN,
           NEW t, t = extfs_ungetlocalcopy(s, a, has_changed, opens)
    PROVE  /\ Sound(t, need, freed) /\ Same(s, t)
           /\ ~Stamped(s, a)
              /\ ~(s.current_dir \in s.loaded /\ Stamped(s, s.current_dir))
                 => t.gone = s.gone
<1>1. CASE ~opens
  <2>1. t = s
    BY <1>1 DEF extfs_ungetlocalcopy
  <2>2. Sound(s, need, freed) /\ Same(s, s)
    BY NotGivenBack DEF Same
  <2>3. QED
    BY <2>1, <2>2
<1>2. CASE opens
  <2>1. PICK m \in Needs : m = More(need, a)
    BY MoreNeeds
  <2>2. a \in s.loaded
    <3>1. m[a] > 0
      BY <2>1, MoreNeeds DEF Needs
    <3>2. QED
      BY <2>1, <3>1 DEF Sound, Counted
  <2>3. PICK h : h = Hold(s, a)
    OBVIOUS
  <2>4. /\ Sound(h, More(m, a), freed) /\ Same(s, h)
        /\ \A x : Stamped(h, x) => Stamped(s, x)
        /\ ~Stamped(s, a) => h.gone = s.gone
    BY ZenonT(60), <2>1, <2>2, <2>3, Holds
  <2>5. h \in Memories
    BY <2>4 DEF Sound
  <2>6. PICK counts \in [Archives -> Int] :
           counts = [h.fd EXCEPT ![a] = h.fd[a] - 1]
    <3>1. h.fd \in [Archives -> Int] /\ h.fd[a] - 1 \in Int
      BY <2>5 DEF Memories
    <3>2. QED
      BY <3>1
  <2>7. PICK debts \in SUBSET Archives :
           debts = IF has_changed THEN h.owed \cup {a} ELSE h.owed
    BY <2>5 DEF Memories
  <2>8. PICK r : r = [h EXCEPT !.fd = counts, !.owed = debts]
    OBVIOUS
  <2>9. t = Release(r, a)
    BY <1>2, <2>3, <2>6, <2>7, <2>8 DEF extfs_ungetlocalcopy
  <2>10. /\ r \in Memories /\ Same(h, r) /\ r.gone = h.gone
         /\ r.stamps = h.stamps /\ r.fd = counts
    BY <2>5, <2>6, <2>7, <2>8 DEF Memories, Same
  <2>11. /\ \A b \in Archives : b # a => r.fd[b] = h.fd[b]
         /\ r.fd[a] = h.fd[a] - 1
    BY <2>5, <2>6, <2>10 DEF Memories
  <2>12. Sound(r, m, freed)
    BY <2>4, <2>10, <2>11, Drops
  <2>13. /\ Sound(t, need, freed) /\ Same(r, t)
         /\ ~(r.current_dir \in r.loaded /\ Stamped(r, r.current_dir))
               => t.gone = r.gone
    BY <2>1, <2>9, <2>12, Releases
  <2>14. \A x : Stamped(r, x) <=> Stamped(h, x)
    BY <2>10 DEF Stamped
  <2>15. QED
    BY <2>4, <2>10, <2>13, <2>14 DEF Same
<1>3. QED
  BY <1>1, <1>2

\* An archive with a loaded one in it is in use and has no stamp.
LEMMA Around ==
    ASSUME NEW s, NEW need \in Needs, NEW freed, Sound(s, need, freed),
           NEW b \in s.loaded, Outer[b] # Local
    PROVE  /\ Outer[b] \in s.loaded /\ s.fd[Outer[b]] > 0
           /\ ~Stamped(s, Outer[b])
<1>1. PICK o : o = Outer[b]
  OBVIOUS
<1>2. s \in Memories /\ s.loaded \subseteq Archives /\ o \in s.loaded
  BY <1>1 DEF Sound, Rooted, Memories
<1>3. /\ o \notin Tars => s.fd[o] >= need[o] + Cardinality(Inside(s, o))
      /\ o \in Tars => s.fd[o] >= 1 + need[o] + Cardinality(Inside(s, o))
  BY <1>2 DEF Sound, Counted
<1>4. o \notin Tars => Inside(s, o) # {}
  BY <1>1, <1>2 DEF Inside, KeepsCopy
<1>5. /\ Cardinality(Inside(s, o)) \in Nat
      /\ Inside(s, o) # {} => Cardinality(Inside(s, o)) > 0
  BY <1>2, InsideFinite
<1>6. need[o] \in Nat /\ s.fd[o] \in Int
  BY <1>2 DEF Needs, Memories
<1>7. s.fd[o] > 0
  BY <1>3, <1>4, <1>5, <1>6
<1>8. ~Stamped(s, o)
  BY <1>6, <1>7 DEF Sound, Listed, Stamped
<1>9. QED
  BY <1>1, <1>2, <1>7, <1>8

-----------------------------------------------------------------------------
(* Freeing.                                                                 *)

\* One idle archive less is loaded; what it used has a use on it to give back.
LEMMA Unloads ==
    ASSUME NEW s, NEW need \in Needs, Sound(s, need, {}),
           NEW a \in s.loaded, s.fd[a] <= 0, a \notin Shown(s),
           NEW r \in Memories, r.loaded = s.loaded \ {a},
           r.cwd = s.cwd, r.listing = s.listing, r.stamps = s.stamps,
           r.fd[a] = 0, \A b \in Archives : b # a => r.fd[b] = s.fd[b],
           NEW other \in Needs,
           \A b \in Archives :
              other[b] = need[b] + IF KeepsCopy(a) /\ b = Outer[a] THEN 1 ELSE 0
    PROVE  Sound(r, other, {a})
<1>1. /\ s \in Memories /\ s.loaded \subseteq Archives /\ a \in Archives
      /\ Rooted(s) /\ Counted(s, need) /\ Listed(s, {})
      /\ Shown(s) \subseteq s.loaded \cup {Local}
  BY DEF Sound, Memories
<1>2. \A b \in Archives : /\ Cardinality(Inside(s, b)) \in Nat
                          /\ IsFiniteSet(Inside(s, b))
                          /\ Inside(s, b) # {} => Cardinality(Inside(s, b)) > 0
                          /\ need[b] \in Nat /\ s.fd[b] \in Int
  BY <1>1, InsideFinite DEF Needs, Memories
<1>3. a \notin Tars /\ need[a] = 0 /\ Inside(s, a) = {}
  BY <1>1, <1>2 DEF Counted
<1>4. \A b \in s.loaded : Outer[b] # a
  <2>1. SUFFICES ASSUME NEW b \in s.loaded, Outer[b] = a PROVE FALSE
    OBVIOUS
  <2>2. Outer[b] # Local
    BY <2>1, <1>1, Layout
  <2>3. s.fd[a] > 0
    BY <2>1, <2>2, Around
  <2>4. QED
    BY <2>3, <1>1, <1>2
<1>5. Rooted(r)
  BY <1>1, <1>4 DEF Rooted
<1>6. ASSUME NEW b \in Archives
      PROVE  /\ Inside(r, b) = Inside(s, b) \ {a}
             /\ Cardinality(Inside(r, b)) \in Nat
             /\ Cardinality(Inside(s, b)) = Cardinality(Inside(r, b))
                   + IF KeepsCopy(a) /\ b = Outer[a] THEN 1 ELSE 0
  <2>1. Inside(r, b) = Inside(s, b) \ {a}
    BY DEF Inside
  <2>2. a \in Inside(s, b) <=> KeepsCopy(a) /\ b = Outer[a]
    BY <1>3 DEF Inside
  <2>3. CASE a \in Inside(s, b)
    <3>1. /\ Cardinality(Inside(s, b) \ {a}) = Cardinality(Inside(s, b)) - 1
          /\ IsFiniteSet(Inside(s, b) \ {a})
      BY <1>2, <2>3, FS_RemoveElement
    <3>2. Cardinality(Inside(s, b) \ {a}) \in Nat
      BY <3>1, FS_CardinalityType
    <3>3. QED
      BY <3>1, <3>2, <2>1, <2>2, <2>3, <1>2
  <2>4. CASE a \notin Inside(s, b)
    <3>1. Inside(r, b) = Inside(s, b)
      BY <2>1, <2>4
    <3>2. PICK n \in Nat : n = Cardinality(Inside(s, b))
      BY <1>2
    <3>3. Cardinality(Inside(r, b)) = n
      BY <3>1, <3>2
    <3>4. n = n + IF KeepsCopy(a) /\ b = Outer[a] THEN 1 ELSE 0
      BY <2>2, <2>4, <3>2
    <3>5. QED
      BY <2>1, <3>2, <3>3, <3>4
  <2>5. QED
    BY <2>3, <2>4
<1>7. ASSUME NEW b \in Archives
      PROVE  /\ b \notin Tars =>
                   r.fd[b] >= other[b] + Cardinality(Inside(r, b))
             /\ b \in Tars \cap r.loaded =>
                   r.fd[b] >= 1 + other[b] + Cardinality(Inside(r, b))
             /\ other[b] > 0 => b \in r.loaded
  <2>1. CASE b = a
    <3>1. Outer[a] # a
      BY <1>1, DepthOf
    <3>2. other[a] = 0 /\ Inside(r, a) = {}
      BY <3>1, <1>1, <1>3, <1>6
    <3>3. Cardinality(Inside(r, a)) = 0
      BY <3>2, FS_EmptySet
    <3>4. QED
      BY <2>1, <3>2, <3>3, <1>3
  <2>2. CASE b # a
    <3>1. /\ b \notin Tars => s.fd[b] >= need[b] + Cardinality(Inside(s, b))
          /\ b \in Tars \cap s.loaded =>
                s.fd[b] >= 1 + need[b] + Cardinality(Inside(s, b))
          /\ need[b] > 0 => b \in s.loaded
      BY <1>1 DEF Counted
    <3>2. need[b] + Cardinality(Inside(s, b))
             = other[b] + Cardinality(Inside(r, b))
      BY <1>2, <1>6
    <3>3. other[b] > 0 => b \in r.loaded
      <4>1. CASE KeepsCopy(a) /\ b = Outer[a]
        BY <4>1, <2>2, <1>1 DEF KeepsCopy, Rooted
      <4>2. CASE ~(KeepsCopy(a) /\ b = Outer[a])
        BY <4>2, <2>2, <3>1, <1>2
      <4>3. QED
        BY <4>1, <4>2
    <3>4. r.fd[b] = s.fd[b] /\ (b \in r.loaded => b \in s.loaded)
      BY <2>2
    <3>5. other[b] \in Nat
      BY DEF Needs
    <3>6. QED
      BY <3>1, <3>2, <3>3, <3>4, <3>5, <1>2, <1>6
  <2>3. QED
    BY <2>1, <2>2
<1>8. Shown(r) = Shown(s)
  BY DEF Shown
<1>9. Listed(r, {a})
  <2>1. SUFFICES ASSUME NEW i \in 1..Len(r.stamps)
                 PROVE  /\ r.stamps[i].id \in r.loaded \cup {a}
                        /\ r.fd[r.stamps[i].id] <= 0
                        /\ r.stamps[i].id \notin Shown(r)
    BY <1>1 DEF Listed
  <2>2. PICK x : x = r.stamps[i].id
    OBVIOUS
  <2>3. x \in s.loaded /\ s.fd[x] <= 0 /\ x \notin Shown(s)
    BY <1>1, <2>2 DEF Listed
  <2>4. r.fd[x] <= 0
    BY <2>3, <1>1
  <2>5. QED
    BY <2>2, <2>3, <2>4, <1>8
<1>10. QED
  BY <1>1, <1>5, <1>7, <1>8, <1>9 DEF Sound, Counted

\* a has been freed.
Freed(s, t, need, a) ==
    /\ Sound(t, need, {a}) /\ Settled(t) /\ t.loaded = s.loaded \ {a}
    /\ t.cwd = s.cwd /\ t.listing = s.listing
    /\ t.gone = {} /\ a \in Archives \ Tars

\* extfs_free and vfs_s_free_super, for an archive with a stamp.
LEMMA Frees ==
    ASSUME NEW s, NEW need \in Needs, Sound(s, need, {}), Settled(s),
           s.gone = {}, NEW a, Stamped(s, a), NEW opens \in BOOLEAN,
           NEW t, t = Free(s, a, opens)
    PROVE  Freed(s, t, need, a)
<1>1. /\ s \in Memories /\ s.loaded \subseteq Archives /\ Counted(s, need)
      /\ Shown(s) \subseteq s.loaded \cup {Local} /\ Rooted(s)
  BY DEF Sound, Memories
<1>2. a \in s.loaded /\ s.fd[a] <= 0 /\ a \notin Shown(s)
  BY DEF Sound, Listed, Stamped
<1>3. a \in Archives /\ a \notin Tars
  <2>1. a \in Archives /\ need[a] \in Nat /\ s.fd[a] \in Int
    BY <1>1, <1>2 DEF Needs, Memories
  <2>2. Cardinality(Inside(s, a)) \in Nat
    BY <1>1, <2>1, InsideFinite
  <2>3. QED
    BY <1>1, <1>2, <2>1, <2>2 DEF Counted
<1>4. PICK counts \in [Archives -> Int] : counts = [s.fd EXCEPT ![a] = 0]
  <2>1. s.fd \in [Archives -> Int] /\ 0 \in Int
    BY <1>1 DEF Memories
  <2>2. QED
    BY <2>1
<1>5. PICK losses \in SUBSET Archives :
         losses = IF a \in s.owed THEN s.lost \cup {a} ELSE s.lost
  BY <1>1, <1>3 DEF Memories
<1>6. PICK r : r = [s EXCEPT !.loaded = s.loaded \ {a}, !.fd = counts,
                             !.owed = s.owed \ {a}, !.lost = losses]
  OBVIOUS
<1>7. /\ r \in Memories /\ r.loaded = s.loaded \ {a}
      /\ r.cwd = s.cwd /\ r.listing = s.listing /\ r.stamps = s.stamps
      /\ r.current_dir = s.current_dir /\ r.gone = {}
      /\ r.fd = counts
  BY <1>1, <1>4, <1>5, <1>6 DEF Memories
<1>8. r.fd[a] = 0 /\ \A b \in Archives : b # a => r.fd[b] = s.fd[b]
  BY <1>1, <1>3, <1>4, <1>7 DEF Memories
<1>9. t = IF KeepsCopy(a)
          THEN extfs_ungetlocalcopy(r, Outer[a], a \in changed, opens) ELSE r
  BY <1>3, <1>4, <1>5, <1>6 DEF Free
<1>10. Shown(r) = Shown(s) /\ Settled(r)
  BY <1>7 DEF Shown, Settled
<1>11. ~(r.current_dir \in r.loaded /\ Stamped(r, r.current_dir))
  <2>1. r.current_dir \in Shown(s) \/ r.current_dir = Local
    BY <1>10 DEF Settled
  <2>2. Local \notin r.loaded
    BY <1>1, <1>7, Layout
  <2>3. \A x \in Shown(s) : ~Stamped(s, x)
    BY DEF Sound, Listed, Stamped
  <2>4. QED
    BY <2>1, <2>2, <2>3, <1>7 DEF Stamped
<1>12. CASE KeepsCopy(a)
  <2>1. PICK o \in Archives : o = Outer[a]
    BY <1>3, <1>12, Layout DEF KeepsCopy
  <2>2. PICK m \in Needs : m = More(need, o)
    BY MoreNeeds
  <2>3. \A b \in Archives :
           m[b] = need[b] + IF KeepsCopy(a) /\ b = Outer[a] THEN 1 ELSE 0
    BY <1>12, <2>1, <2>2, MoreNeeds DEF Needs
  <2>4. Sound(r, m, {a})
    BY <1>2, <1>7, <1>8, <2>3, Unloads
  <2>5. ~Stamped(r, o)
    BY <1>2, <1>7, <1>12, <2>1, Around DEF KeepsCopy, Stamped
  <2>6. PICK has_changed \in BOOLEAN : has_changed <=> a \in changed
    <3>1. CASE a \in changed
      BY <3>1
    <3>2. CASE a \notin changed
      BY <3>2
    <3>3. QED
      BY <3>1, <3>2
  <2>7. t = extfs_ungetlocalcopy(r, o, has_changed, opens)
    BY <1>9, <1>12, <2>1, <2>6 DEF extfs_ungetlocalcopy
  <2>8. Sound(t, need, {a}) /\ Same(r, t) /\ t.gone = r.gone
    BY <2>2, <2>4, <2>5, <2>7, <1>11, Ungets
  <2>9. QED
    BY <2>8, <1>3, <1>7, <1>10 DEF Freed, Same, Settled, Shown
<1>13. CASE ~KeepsCopy(a)
  <2>1. PICK m \in Needs : m = need
    OBVIOUS
  <2>2. \A b \in Archives :
           m[b] = need[b] + IF KeepsCopy(a) /\ b = Outer[a] THEN 1 ELSE 0
    BY <1>13, <2>1 DEF Needs
  <2>3. Sound(r, m, {a})
    BY ONLY need \in Needs, m \in Needs, Sound(s, need, {}),
       <1>2, <1>7, <1>8, <2>2, Unloads
  <2>4. Sound(r, need, {a})
    BY <2>1, <2>3
  <2>5. QED
    BY <2>4, <1>3, <1>7, <1>9, <1>10, <1>13 DEF Freed
<1>14. QED
  BY <1>12, <1>13

\* A state that a sweep from another may lead to: what is used and shown stays.
Swept(s, t, need) ==
    /\ Sound(t, need, {}) /\ Settled(t)
    /\ t.cwd = s.cwd /\ t.listing = s.listing
    /\ s.loaded \cap Tars \subseteq t.loaded

Round(v, r, w, need) ==
    Swept(v, w.s, need) /\ (w = r \/ w = [s |-> w.s, dangling |-> FALSE])

\* One round of the loop frees no stamp but its own.
LEMMA SweepsOne ==
    ASSUME NEW v, NEW need \in Needs, Sound(v, need, {}), Settled(v),
           stamps \in Seq(Stamps), Distinct(stamps),
           NEW i \in 1..Len(stamps), NEW opens \in BOOLEAN,
           NEW r, r.s = v, r.dangling = FALSE,
           NEW w, w = SweepOne(opens, r, i)
    PROVE  Round(v, r, w, need)
<1>1. CASE ~Old(v, stamps[i].id)
  <2>1. w = r
    BY <1>1 DEF SweepOne
  <2>2. QED
    BY <2>1 DEF Swept, Round
<1>2. CASE Old(v, stamps[i].id)
  <2>1. PICK a : a = stamps[i].id
    OBVIOUS
  <2>2. Stamped(v, a)
    BY <1>2, <2>1 DEF Old, Stamped
  <2>3. v \in Memories
    BY DEF Sound
  <2>4. PICK u : u = [v EXCEPT !.gone = {}]
    OBVIOUS
  <2>5. u \in Memories /\ u.gone = {} /\ u.stamps = v.stamps /\ Keeps(v, u)
    BY <2>3, <2>4 DEF Memories, Keeps
  <2>6. Sound(u, need, {})
    <3>1. Distinct(u.stamps)
      BY <2>5 DEF Sound, Listed
    <3>2. \A j \in 1..Len(u.stamps) : Stamped(v, u.stamps[j].id)
      BY <2>5 DEF Stamped
    <3>3. QED
      BY <2>5, <3>1, <3>2, Restamped
  <2>7. Settled(u) /\ Stamped(u, a)
    BY <2>2, <2>5 DEF Settled, Shown, Keeps, Stamped
  <2>8. PICK f : f = Free(u, a, opens)
    OBVIOUS
  <2>9. Freed(u, f, need, a)
    BY <2>5, <2>6, <2>7, <2>8, Frees, Zenon
  <2>10. /\ Sound(f, need, {a}) /\ Settled(f) /\ f.loaded = u.loaded \ {a}
         /\ f.cwd = u.cwd /\ f.listing = u.listing
         /\ f.gone = {} /\ a \in Archives \ Tars
    BY <2>9 DEF Freed
  <2>11. PICK no \in BOOLEAN : no = FALSE
    OBVIOUS
  <2>12. PICK t : t = vfs_rmstamp(f, a, no)
    OBVIOUS
  <2>13. /\ Sound(t, need, {a}) /\ Keeps(f, t) /\ ~Stamped(t, a)
         /\ t.gone \subseteq {a}
    BY <2>10, <2>11, <2>12, Removes
  <2>14. Sound(t, need, {})
    <3>1. ASSUME NEW j \in 1..Len(t.stamps) PROVE t.stamps[j].id \in t.loaded
      <4>1. t.stamps[j].id # a
        BY <2>13 DEF Stamped
      <4>2. QED
        BY <2>13, <4>1 DEF Sound, Listed
    <3>2. QED
      BY <2>13, <3>1 DEF Sound, Listed
  <2>15. Settled(t)
    BY <2>10, <2>13 DEF Settled, Shown, Keeps
  <2>16. Swept(v, t, need)
    BY <2>5, <2>10, <2>13, <2>14, <2>15 DEF Swept, Keeps
  <2>17. ~(i < Len(stamps) /\ stamps[i + 1].id \in t.gone)
    <3>1. SUFFICES ASSUME i < Len(stamps), stamps[i + 1].id = a PROVE FALSE
      BY <2>13
    <3>2. i + 1 \in 1..Len(stamps) /\ i \in 1..((i + 1) - 1)
      BY <3>1
    <3>3. QED
      BY <2>1, <3>1, <3>2 DEF Distinct
  <2>18. w = [s |-> t, dangling |-> i < Len(stamps) /\ stamps[i + 1].id \in t.gone]
    BY <1>2, <2>1, <2>4, <2>8, <2>11, <2>12 DEF SweepOne
  <2>19. w = [s |-> t, dangling |-> FALSE]
    BY <2>17, <2>18
  <2>20. QED
    BY <2>16, <2>19 DEF Round
<1>3. QED
  BY <1>1, <1>2

\* The loop of vfs_timeout_handler.
SweepFrom(opens) ==
    LET swept[i \in 0..Len(stamps)] ==
            IF i = 0 THEN [s |-> Now, dangling |-> FALSE]
            ELSE SweepOne(opens, swept[i - 1], i)
    IN  swept[Len(stamps)]

\* The whole sweep frees only what is idle, and follows no freed stamp.
LEMMA Sweeps ==
    ASSUME NEW need \in Needs, Sound(Now, need, {}), Settled(Now),
           NEW opens \in BOOLEAN, NEW r, r = SweepFrom(opens)
    PROVE  Swept(Now, r.s, need) /\ r.dangling = FALSE
<1> DEFINE L == Len(stamps)
           base == [s |-> Now, dangling |-> FALSE]
           G == {x \in [s : Memories, dangling : {FALSE}] : Swept(Now, x.s, need)}
           F == [y \in G \X Nat |->
                   IF y[2] \in 1..L THEN SweepOne(opens, y[1], y[2]) ELSE y[1]]
           Body(f) == [i \in 0..L |-> IF i = 0 THEN base
                                      ELSE SweepOne(opens, f[i - 1], i)]
           T == [i \in 0..L |-> G]
<1>1. stamps \in Seq(Stamps) /\ Distinct(stamps) /\ Now \in Memories
  <2>1. Now.stamps \in Seq(Stamps) /\ Distinct(Now.stamps) /\ Now \in Memories
    BY DEF Sound, Memories, Listed
  <2>2. QED
    BY <2>1 DEF Now
<1>2. L \in Nat
  BY <1>1
<1>3. base \in G
  BY <1>1 DEF Swept
<1>4. ASSUME NEW x \in G, NEW n \in 1..L PROVE SweepOne(opens, x, n) \in G
  <2>1. PICK w : w = SweepOne(opens, x, n)
    OBVIOUS
  <2>2. PICK v : v = x.s
    OBVIOUS
  <2>3. Sound(v, need, {}) /\ Settled(v) /\ x.dangling = FALSE
        /\ Swept(Now, v, need)
    BY <2>2 DEF Swept
  <2>4. Swept(v, w.s, need) /\ (w = x \/ w = [s |-> w.s, dangling |-> FALSE])
    <3>1. n \in 1..Len(stamps)
      OBVIOUS
    <3>2. Round(v, x, w, need)
      BY <3>1, <1>1, <2>1, <2>2, <2>3, SweepsOne, Zenon
    <3>3. QED
      BY <3>2 DEF Round
  <2>5. Swept(Now, w.s, need) /\ w.s \in Memories
    BY <2>3, <2>4 DEF Swept, Sound
  <2>6. CASE w = x
    BY <2>1, <2>6
  <2>7. CASE w # x
    <3>1. PICK y : y = w.s
      OBVIOUS
    <3>2. w = [s |-> y, dangling |-> FALSE] /\ y \in Memories
          /\ Swept(Now, y, need)
      BY <2>4, <2>5, <2>7, <3>1
    <3>3. QED
      BY <2>1, <3>2
  <2>8. QED
    BY <2>6, <2>7
<1> HIDE DEF G, L, base
<1>5. F \in [G \X Nat -> G]
  BY <1>4
<1>6. PICK g : g \in Runs(L, G, base, F)
  <2> HIDE DEF F
  <2>1. QED
    BY <1>2, <1>3, <1>5, Iterates
<1>7. /\ g \in [0..L -> G] /\ g[0] = base
      /\ \A n \in 1..L : g[n] = F[<<g[n - 1], n>>]
  BY <1>6 DEF Runs
<1>8. ASSUME NEW n \in 0..L PROVE g[n] = Body(g)[n]
  <2>1. CASE n = 0
    BY <1>7, <2>1
  <2>2. CASE n # 0
    <3>1. n \in 1..L /\ n - 1 \in 0..L /\ n \in Nat
      BY <1>2, <2>2
    <3>2. g[n - 1] \in G /\ <<g[n - 1], n>> \in G \X Nat
      BY <3>1, <1>7
    <3>3. F[<<g[n - 1], n>>] = SweepOne(opens, g[n - 1], n)
      BY <3>1, <3>2
    <3>4. QED
      BY <2>2, <3>1, <3>3, <1>7
  <2>3. QED
    BY <2>1, <2>2
<1>9. g = Body(g)
  <2>1. g = [n \in 0..L |-> g[n]]
    BY <1>7
  <2> HIDE DEF F
  <2>2. QED
    BY <1>8, <2>1
<1>10. PICK k : k = Body(k) /\ r = k[L]
  <2>1. r = (CHOOSE f : f = Body(f))[L]
    BY DEF SweepFrom, L, base
  <2> HIDE DEF Body
  <2>2. QED
    BY <1>9, <2>1
<1>11. k[0] = base /\ \A n \in 1..L : k[n] = SweepOne(opens, k[n - 1], n)
  <2>1. \A n \in 0..L : k[n] = Body(k)[n]
    BY <1>10
  <2>2. 0 \in 0..L /\ \A n \in 1..L : n \in 0..L /\ n # 0
    BY <1>2
  <2>3. QED
    BY <2>1, <2>2
<1>12. k[0] \in T[0]
  BY <1>2, <1>3, <1>11
<1>13. ASSUME NEW n \in 1..L, k[n - 1] \in T[n - 1] PROVE k[n] \in T[n]
  <2>1. n - 1 \in 0..L /\ n \in 0..L
    BY <1>2
  <2>2. QED
    BY <2>1, <1>4, <1>11, <1>13
<1>14. \A n \in 0..L : k[n] \in T[n]
  <2> HIDE DEF T
  <2>1. QED
    BY <1>2, <1>12, <1>13, Stepwise
<1>15. r \in G
  BY <1>2, <1>10, <1>14
<1>16. QED
  BY <1>15 DEF G

-----------------------------------------------------------------------------
(* Loading.                                                                 *)

\* The use that loading an archive makes of the one it lies in.
Fetching(need, a) ==
    IF Outer[a] # Local /\ (a \in Tars \/ KeepsCopy(a))
    THEN More(need, Outer[a]) ELSE need

\* The use that loading makes is of the archive around only.
LEMMA FetchingNeeds ==
    ASSUME NEW need \in Needs, NEW a \in Archives
    PROVE  /\ Fetching(need, a) \in Needs
           /\ \A b \in Archives :
                 /\ need[b] \in Nat
                 /\ Fetching(need, a)[b] = need[b] +
                       IF (a \in Tars \/ KeepsCopy(a)) /\ b = Outer[a]
                       THEN 1 ELSE 0
<1>1. \A b \in Archives : need[b] \in Nat /\ b # Local
  BY Layout DEF Needs
<1>2. CASE Outer[a] # Local /\ (a \in Tars \/ KeepsCopy(a))
  <2>1. PICK o \in Archives : o = Outer[a]
    BY <1>2, Layout
  <2>2. Fetching(need, a) = More(need, o)
    BY <1>2, <2>1 DEF Fetching
  <2>3. /\ More(need, o) \in Needs /\ More(need, o)[o] = need[o] + 1
        /\ \A b \in Archives : b # o => More(need, o)[b] = need[b]
    BY MoreNeeds
  <2>4. QED
    BY <1>1, <1>2, <2>1, <2>2, <2>3
<1>3. CASE ~(Outer[a] # Local /\ (a \in Tars \/ KeepsCopy(a)))
  BY <1>1, <1>3 DEF Fetching
<1>4. QED
  BY <1>2, <1>3

\* One archive more is loaded; the use it has on the one around it is its own.
LEMMA Loads ==
    ASSUME NEW s, NEW need \in Needs, NEW a \in Archives \ s.loaded,
           NEW m \in Needs, m = Fetching(need, a), Sound(s, m, {}),
           Outer[a] = Local \/ Outer[a] \in s.loaded,
           NEW r \in Memories, r.loaded = s.loaded \cup {a},
           r.cwd = s.cwd, r.listing = s.listing, r.stamps = s.stamps,
           r.fd[a] = (IF a \in Tars THEN 1 ELSE 0),
           \A b \in Archives : b # a => r.fd[b] = s.fd[b]
    PROVE  Sound(r, need, {})
<1> DEFINE Used(b) == (a \in Tars \/ KeepsCopy(a)) /\ b = Outer[a]
<1>1. /\ s \in Memories /\ s.loaded \subseteq Archives
      /\ Rooted(s) /\ Counted(s, m) /\ Listed(s, {})
      /\ Shown(s) \subseteq s.loaded \cup {Local}
  BY DEF Sound, Memories
<1>2. \A b \in Archives : /\ Cardinality(Inside(s, b)) \in Nat
                          /\ IsFiniteSet(Inside(s, b))
                          /\ need[b] \in Nat /\ s.fd[b] \in Int
                          /\ m[b] = need[b] + IF Used(b) THEN 1 ELSE 0
  <2>1. \A b \in Archives : /\ Cardinality(Inside(s, b)) \in Nat
                            /\ IsFiniteSet(Inside(s, b)) /\ s.fd[b] \in Int
    BY <1>1, InsideFinite DEF Memories
  <2>2. \A b \in Archives : /\ need[b] \in Nat
                            /\ m[b] = need[b] + IF Used(b) THEN 1 ELSE 0
    BY FetchingNeeds
  <2>3. QED
    BY <2>1, <2>2
<1>3. need[a] = 0
  <2>1. m[a] > 0 => a \in s.loaded
    BY <1>1 DEF Counted
  <2>2. a # Outer[a]
    BY DepthOf
  <2>3. QED
    BY <2>1, <2>2, <1>2
<1>4. \A b \in s.loaded : Outer[b] # a
  BY <1>1, Layout DEF Rooted
<1>5. Rooted(r)
  BY <1>1, <1>4 DEF Rooted
<1>6. ASSUME NEW b \in Archives
      PROVE  /\ Cardinality(Inside(r, b)) \in Nat
             /\ Cardinality(Inside(r, b)) = Cardinality(Inside(s, b))
                   + IF Used(b) THEN 1 ELSE 0
  <2>1. Inside(r, b) = Inside(s, b) \cup IF Used(b) THEN {a} ELSE {}
    BY DEF Inside
  <2>2. a \notin Inside(s, b)
    BY DEF Inside
  <2>3. CASE Used(b)
    <3>1. /\ Cardinality(Inside(s, b) \cup {a}) = Cardinality(Inside(s, b)) + 1
          /\ IsFiniteSet(Inside(s, b) \cup {a})
      BY <1>2, <2>2, FS_AddElement
    <3>2. Cardinality(Inside(s, b) \cup {a}) \in Nat
      BY <3>1, FS_CardinalityType
    <3>3. QED
      BY <3>1, <3>2, <2>1, <2>3, <1>2
  <2>4. CASE ~Used(b)
    <3>1. Inside(r, b) = Inside(s, b)
      BY <2>1, <2>4
    <3>2. PICK n \in Nat : n = Cardinality(Inside(s, b))
      BY <1>2
    <3>3. Cardinality(Inside(r, b)) = n
      BY <3>1, <3>2
    <3>4. n = n + IF Used(b) THEN 1 ELSE 0
      BY <2>4, <3>2
    <3>5. QED
      BY <3>2, <3>3, <3>4
  <2>5. QED
    BY <2>3, <2>4
<1> HIDE DEF Used
<1>7. ASSUME NEW b \in Archives
      PROVE  /\ b \notin Tars =>
                   r.fd[b] >= need[b] + Cardinality(Inside(r, b))
             /\ b \in Tars \cap r.loaded =>
                   r.fd[b] >= 1 + need[b] + Cardinality(Inside(r, b))
             /\ need[b] > 0 => b \in r.loaded
  <2>1. CASE b = a
    <3>1. Inside(r, a) = {}
      <4>1. Outer[a] # a
        BY DepthOf
      <4>2. QED
        BY <4>1, <1>4 DEF Inside
    <3>2. Cardinality(Inside(r, a)) = 0
      BY <3>1, FS_EmptySet
    <3>3. QED
      BY <2>1, <3>2, <1>3
  <2>2. CASE b # a
    <3>1. /\ b \notin Tars => s.fd[b] >= m[b] + Cardinality(Inside(s, b))
          /\ b \in Tars \cap s.loaded =>
                s.fd[b] >= 1 + m[b] + Cardinality(Inside(s, b))
          /\ m[b] > 0 => b \in s.loaded
      BY <1>1 DEF Counted
    <3>2. m[b] + Cardinality(Inside(s, b))
             = need[b] + Cardinality(Inside(r, b)) /\ need[b] <= m[b]
      BY <1>2, <1>6
    <3>3. need[b] > 0 => b \in r.loaded
      BY <3>1, <3>2, <1>2
    <3>4. r.fd[b] = s.fd[b] /\ (b \in r.loaded => b \in s.loaded)
      BY <2>2
    <3>5. QED
      BY <3>1, <3>2, <3>3, <3>4, <1>2, <1>6
  <2>3. QED
    BY <2>1, <2>2
<1>8. Shown(r) = Shown(s)
  BY DEF Shown
<1>9. Listed(r, {})
  <2>1. SUFFICES ASSUME NEW i \in 1..Len(r.stamps)
                 PROVE  /\ r.stamps[i].id \in r.loaded
                        /\ r.fd[r.stamps[i].id] <= 0
                        /\ r.stamps[i].id \notin Shown(r)
    BY <1>1 DEF Listed
  <2>2. PICK x : x = r.stamps[i].id
    OBVIOUS
  <2>3. x \in s.loaded /\ s.fd[x] <= 0 /\ x \notin Shown(s)
    BY <1>1, <2>2 DEF Listed
  <2>4. r.fd[x] <= 0
    BY <2>3, <1>1
  <2>5. QED
    BY <2>2, <2>3, <2>4, <1>8
<1>10. QED
  BY <1>1, <1>5, <1>7, <1>8, <1>9 DEF Sound, Counted

\* Nothing is freed, and the panels do not move.
Grows(s, t) ==
    /\ s.loaded \subseteq t.loaded /\ t.current_dir = s.current_dir
    /\ t.cwd = s.cwd /\ t.listing = s.listing

Led(s, t, need) == Sound(t, need, {}) /\ Grows(s, t)

\* A file in an archive is opened and closed.
LEMMA Glances ==
    ASSUME NEW s, NEW need \in Needs, Sound(s, need, {}),
           NEW o \in Archives, o \in s.loaded, NEW t, t = Release(Hold(s, o), o)
    PROVE  Sound(t, need, {}) /\ Same(s, t)
<1>1. PICK h : h = Hold(s, o)
  OBVIOUS
<1>2. Sound(h, More(need, o), {}) /\ Same(s, h)
  BY <1>1, Holds
<1>3. t = Release(h, o)
  BY <1>1
<1>4. Sound(t, need, {}) /\ Same(h, t)
  BY <1>2, <1>3, Releases
<1>5. QED
  BY <1>2, <1>4 DEF Same

\* The file of an archive is made available.
LEMMA Fetches ==
    ASSUME NEW s, NEW need \in Needs, Sound(s, need, {}), NEW a \in Archives,
           Outer[a] = Local \/ Outer[a] \in s.loaded, NEW t, t = Fetch(s, a)
    PROVE  Sound(t, Fetching(need, a), {}) /\ Same(s, t)
<1>1. CASE Outer[a] = Local
  BY <1>1 DEF Fetch, Fetching, Same
<1>2. CASE Outer[a] # Local
  <2>1. PICK o \in Archives : o = Outer[a] /\ o \in s.loaded
    BY <1>2, Layout
  <2>2. CASE KeepsCopy(a) \/ a \in Tars
    <3>1. t = Hold(s, o) /\ Fetching(need, a) = More(need, o)
      BY <1>2, <2>1, <2>2 DEF Fetch, Fetching
    <3>2. Sound(t, More(need, o), {}) /\ Same(s, t)
      BY <2>1, <3>1, Holds
    <3>3. QED
      BY <3>1, <3>2
  <2>3. CASE ~(KeepsCopy(a) \/ a \in Tars)
    <3>1. t = Release(Hold(s, o), o) /\ Fetching(need, a) = need
      BY <1>2, <2>1, <2>3 DEF Fetch, Fetching
    <3>2. Sound(t, need, {}) /\ Same(s, t)
      BY <2>1, <3>1, Glances
    <3>3. QED
      BY <3>1, <3>2
  <2>4. QED
    BY <2>2, <2>3
<1>3. QED
  BY <1>1, <1>2

\* An archive of a path is entered, or is not.
Entered(fate, r, w, need, a) ==
    /\ w \in [s : Memories, ok : BOOLEAN] /\ Led(r.s, w.s, need)
    /\ w.ok => r.ok /\ a \in w.s.loaded
    /\ r.ok /\ fate[a] = "read" => w.ok

\* One step down a path (vfs_get_class, extfs_get_path_int).
LEMMA Enters ==
    ASSUME NEW r \in [s : Memories, ok : BOOLEAN], NEW need \in Needs,
           Sound(r.s, need, {}), NEW a \in Archives,
           r.ok => Outer[a] = Local \/ Outer[a] \in r.s.loaded,
           NEW fate, NEW w, w = Enter(fate, r, a)
    PROVE  Entered(fate, r, w, need, a)
<1>1. PICK s \in Memories : s = r.s
  OBVIOUS
<1>2. Sound(s, need, {}) /\ Grows(s, s) /\ s.loaded \subseteq Archives
  BY <1>1 DEF Grows, Memories
<1>3. CASE ~r.ok
  <2>1. w = r
    BY <1>3 DEF Enter
  <2>2. QED
    BY <2>1, <1>1, <1>2, <1>3 DEF Entered, Led
<1>4. CASE r.ok /\ a \in s.loaded
  <2>1. PICK t : t = vfs_stamp(s, a)
    OBVIOUS
  <2>2. w = [r EXCEPT !.s = t]
    BY <1>1, <1>4, <2>1 DEF Enter
  <2>3. Sound(t, need, {}) /\ Keeps(s, t)
    BY <1>2, <2>1, Touches
  <2>4. t \in Memories /\ Led(s, t, need) /\ a \in t.loaded
    BY <1>4, <2>3 DEF Led, Grows, Keeps, Sound
  <2>5. w.s = t /\ w.ok = r.ok /\ w \in [s : Memories, ok : BOOLEAN]
    BY <2>2, <2>4
  <2>6. QED
    BY <1>1, <1>4, <2>4, <2>5 DEF Entered
<1>5. CASE r.ok /\ a \notin s.loaded
  <2>1. Outer[a] = Local \/ Outer[a] \in s.loaded
    BY <1>1, <1>5
  <2>2. PICK h : h = Fetch(s, a)
    OBVIOUS
  <2>3. PICK m \in Needs : m = Fetching(need, a)
    BY FetchingNeeds
  <2>4. Sound(h, m, {}) /\ Same(s, h)
    BY <1>2, <2>1, <2>2, <2>3, Fetches
  <2>5. h \in Memories /\ h.loaded = s.loaded
    BY <2>4 DEF Sound, Same
  <2>6. PICK n \in Int : n = IF a \in Tars THEN 1 ELSE 0
    OBVIOUS
  <2>7. PICK counts \in [Archives -> Int] : counts = [h.fd EXCEPT ![a] = n]
    <3>1. h.fd \in [Archives -> Int]
      BY <2>5 DEF Memories
    <3>2. QED
      BY <3>1
  <2>8. PICK read : read = [h EXCEPT !.loaded = h.loaded \cup {a}, !.fd = counts]
    OBVIOUS
  <2>9. /\ read \in Memories /\ read.loaded = s.loaded \cup {a}
        /\ read.cwd = h.cwd /\ read.listing = h.listing
        /\ read.stamps = h.stamps /\ read.current_dir = h.current_dir
        /\ read.fd = counts
    BY <2>5, <2>7, <2>8 DEF Memories
  <2>10. /\ read.fd[a] = n
         /\ \A b \in Archives : b # a => read.fd[b] = h.fd[b]
    BY <2>5, <2>7, <2>9 DEF Memories
  <2>11. Sound(read, need, {})
    <3>1. read.fd[a] = (IF a \in Tars THEN 1 ELSE 0)
      BY <2>6, <2>10
    <3>2. read.loaded = h.loaded \cup {a} /\ a \in Archives \ h.loaded
      BY <1>5, <2>5, <2>9
    <3>3. Outer[a] = Local \/ Outer[a] \in h.loaded
      BY <2>1, <2>5
    <3>4. QED
      BY <2>3, <2>4, <2>9, <2>10, <3>1, <3>2, <3>3, Loads
  <2>12. Grows(s, read) /\ Led(s, read, need) /\ a \in read.loaded
    BY <2>4, <2>9, <2>11 DEF Grows, Same, Led
  <2>13. w = CASE fate[a] = "read" ->
                    [s |-> vfs_add_noncurrent_stamps(read, a), ok |-> TRUE]
               [] fate[a] = "inconsistent" /\ a \notin Tars ->
                    [s |-> read, ok |-> FALSE]
               [] OTHER ->
                    [s |-> IF a \in Tars /\ Outer[a] # Local
                           THEN Release(Hold(s, Outer[a]), Outer[a])
                           ELSE s,
                     ok |-> FALSE]
    BY <1>1, <1>5, <2>2, <2>6, <2>7, <2>8 DEF Enter
  <2>14. CASE fate[a] = "read"
    <3>1. PICK t : t = vfs_add_noncurrent_stamps(read, a)
      OBVIOUS
    <3>2. w = [s |-> t, ok |-> TRUE]
      BY <2>13, <2>14, <3>1
    <3>3. Sound(t, need, {}) /\ Keeps(read, t)
      BY <2>11, <3>1, AddsNoncurrent
    <3>4. t \in Memories /\ Led(s, t, need) /\ a \in t.loaded
      BY <2>12, <3>3 DEF Led, Grows, Keeps, Sound
    <3>5. QED
      BY <1>1, <1>5, <3>2, <3>4 DEF Entered
  <2>15. CASE fate[a] = "inconsistent" /\ a \notin Tars
    <3>1. w = [s |-> read, ok |-> FALSE]
      BY <2>13, <2>15
    <3>2. QED
      BY <1>1, <2>9, <2>12, <2>15, <3>1 DEF Entered
  <2>16. CASE fate[a] # "read" /\ ~(fate[a] = "inconsistent" /\ a \notin Tars)
    <3>1. PICK t : t = IF a \in Tars /\ Outer[a] # Local
                       THEN Release(Hold(s, Outer[a]), Outer[a]) ELSE s
      OBVIOUS
    <3>2. w = [s |-> t, ok |-> FALSE]
      BY <2>13, <2>16, <3>1
    <3>3. Sound(t, need, {}) /\ Same(s, t)
      <4>1. CASE a \in Tars /\ Outer[a] # Local
        <5>1. PICK o \in Archives : o = Outer[a] /\ o \in s.loaded
          BY <4>1, <2>1, Layout
        <5>2. t = Release(Hold(s, o), o)
          BY <3>1, <4>1, <5>1
        <5>3. QED
          BY <1>2, <5>1, <5>2, Glances
      <4>2. CASE ~(a \in Tars /\ Outer[a] # Local)
        BY <1>2, <3>1, <4>2 DEF Same
      <4>3. QED
        BY <4>1, <4>2
    <3>4. t \in Memories /\ Led(s, t, need)
      BY <3>3 DEF Led, Grows, Same, Sound
    <3>5. QED
      BY <1>1, <2>16, <3>2, <3>4 DEF Entered
  <2>17. QED
    BY <2>14, <2>15, <2>16
<1>6. QED
  BY <1>1, <1>3, <1>4, <1>5

\* A directory is gone to from s: its archives are entered, or the way fails.
Mangled(fate, s, w, need, d) ==
    /\ w \in [s : Memories, ok : BOOLEAN] /\ Led(s, w.s, need)
    /\ w.ok => d \in w.s.loaded \cup {Local}
    /\ fate = AllRead => w.ok

\* The places of a path, each in the next.
LEMMA PathDown ==
    ASSUME NEW d \in Places
    PROVE  /\ PathOf(d) \in Seq(Archives)
           /\ d # Local => Len(PathOf(d)) > 0 /\ PathOf(d)[1] = d
           /\ \A i \in 1..Len(PathOf(d)) :
                 \/ Outer[PathOf(d)[i]] = Local
                 \/ i + 1 \in 1..Len(PathOf(d))
                    /\ Outer[PathOf(d)[i]] = PathOf(d)[i + 1]
<1>1. CASE d = Local
  BY <1>1 DEF PathOf
<1>2. CASE d # Local
  <2>1. d \in Archives /\ PathOf(d) = Path[d]
    BY <1>2 DEF Places, PathOf
  <2>2. /\ Path[d] \in Seq(Archives) /\ Len(Path[d]) > 0 /\ Path[d][1] = d
        /\ Outer[Path[d][Len(Path[d])]] = Local
        /\ \A i \in 1..(Len(Path[d]) - 1) : Path[d][i + 1] = Outer[Path[d][i]]
    BY <2>1, PathSteps
  <2>3. ASSUME NEW i \in 1..Len(Path[d])
        PROVE  \/ Outer[Path[d][i]] = Local
               \/ i + 1 \in 1..Len(Path[d]) /\ Outer[Path[d][i]] = Path[d][i + 1]
    <3>1. CASE i = Len(Path[d])
      BY <3>1, <2>2
    <3>2. CASE i # Len(Path[d])
      <4>1. i \in 1..(Len(Path[d]) - 1) /\ i + 1 \in 1..Len(Path[d])
        BY <3>2, <2>2
      <4>2. QED
        BY <4>1, <2>2
    <3>3. QED
      BY <3>1, <3>2
  <2>4. QED
    BY <2>1, <2>2, <2>3
<1>3. QED
  BY <1>1, <1>2

\* get_path_mangle of extfs and vfs_s_get_path_mangle.
LEMMA Mangles ==
    ASSUME NEW s, NEW need \in Needs, Sound(s, need, {}), NEW d \in Places,
           NEW fate, NEW w, w = get_path_mangle(fate, s, d)
    PROVE  Mangled(fate, s, w, need, d)
<1> DEFINE path == PathOf(d)
           L == Len(path)
           X == [s : Memories, ok : BOOLEAN]
           base == [s |-> s, ok |-> TRUE]
           Step(x, n) == Enter(fate, x, path[L + 1 - n])
           Good(x, n) == /\ Led(s, x.s, need)
                         /\ x.ok /\ n > 0 => path[L + 1 - n] \in x.s.loaded
                         /\ fate = AllRead => x.ok
           F == [y \in X \X Nat |->
                   IF Step(y[1], y[2]) \in X THEN Step(y[1], y[2]) ELSE y[1]]
           Body(f) == [n \in 0..L |-> IF n = 0 THEN base
                          ELSE Enter(fate, f[n - 1], path[L + 1 - n])]
           T == [n \in 0..L |-> {x \in X : Good(x, n)}]
<1>1. L \in Nat /\ path \in Seq(Archives)
  BY PathDown
<1>2. s \in Memories /\ base \in X /\ Good(base, 0)
  BY DEF Sound, Led, Grows
<1>3. \A i \in 1..L : /\ path[i] \in Archives
                      /\ \/ Outer[path[i]] = Local
                         \/ i + 1 \in 1..L /\ Outer[path[i]] = path[i + 1]
  BY <1>1, PathDown
<1>4. w = (CHOOSE f : f = Body(f))[L]
  BY DEF get_path_mangle
<1> HIDE DEF path, L
<1>5. ASSUME NEW n \in 1..L, NEW x \in X, Good(x, n - 1)
      PROVE  Step(x, n) \in X /\ Good(Step(x, n), n)
  <2>1. PICK i \in 1..L : i = L + 1 - n
    BY <1>1
  <2>2. PICK a \in Archives : a = path[i]
    BY <1>3
  <2>3. ASSUME x.ok PROVE Outer[a] = Local \/ Outer[a] \in x.s.loaded
    <3>1. CASE n = 1
      <4>1. i + 1 \notin 1..L
        BY <3>1, <2>1, <1>1
      <4>2. QED
        BY <4>1, <2>2, <1>3
    <3>2. CASE n # 1
      <4>1. n - 1 > 0 /\ L + 1 - (n - 1) = i + 1
        BY <3>2, <2>1, <1>1
      <4>2. path[i + 1] \in x.s.loaded
        BY <4>1, <2>3, <1>5
      <4>3. QED
        BY <4>2, <2>2, <1>3
    <3>3. QED
      BY <3>1, <3>2
  <2>4. PICK v : v = Enter(fate, x, a)
    OBVIOUS
  <2>5. Sound(x.s, need, {}) /\ Grows(s, x.s)
    BY <1>5 DEF Led
  <2>6. Entered(fate, x, v, need, a)
    BY <2>3, <2>4, <2>5, Enters, Zenon
  <2>7. v \in X /\ Led(x.s, v.s, need) /\ (v.ok => x.ok /\ a \in v.s.loaded)
    BY <2>6 DEF Entered
  <2>8. Led(s, v.s, need)
    BY <2>5, <2>7 DEF Led, Grows
  <2>9. fate = AllRead => v.ok
    BY <2>2, <2>6, <1>5 DEF Entered, AllRead
  <2>10. Step(x, n) = v
    BY <2>1, <2>2, <2>4
  <2>11. Good(v, n)
    BY <2>1, <2>2, <2>7, <2>8, <2>9
  <2>12. QED
    BY <2>7, <2>10, <2>11
<1> HIDE DEF X, Step, Good
<1>6. F \in [X \X Nat -> X]
  OBVIOUS
<1> HIDE DEF base
<1>7. PICK g : g \in Runs(L, X, base, F)
  <2> HIDE DEF F
  <2>1. QED
    BY <1>1, <1>2, <1>6, Iterates
<1>8. /\ g \in [0..L -> X] /\ g[0] = base
      /\ \A n \in 1..L : g[n] = F[<<g[n - 1], n>>]
  BY <1>7 DEF Runs
<1>9. ASSUME NEW n \in 1..L, g[n - 1] \in T[n - 1]
      PROVE  g[n] = Step(g[n - 1], n) /\ g[n] \in T[n]
  <2>1. n - 1 \in 0..L /\ n \in 0..L /\ n \in Nat
    BY <1>1
  <2>2. g[n - 1] \in X /\ Good(g[n - 1], n - 1)
    BY <2>1, <1>9
  <2>3. Step(g[n - 1], n) \in X /\ Good(Step(g[n - 1], n), n)
    BY <2>2, <1>5
  <2>4. F[<<g[n - 1], n>>] = Step(g[n - 1], n)
    BY <2>1, <2>2, <2>3
  <2> HIDE DEF F
  <2>5. g[n] = Step(g[n - 1], n)
    BY <2>4, <1>8
  <2>6. QED
    BY <2>1, <2>3, <2>5
<1>10. g[0] \in T[0]
  BY <1>1, <1>2, <1>8
<1>11. \A n \in 0..L : g[n] \in T[n]
  <2> HIDE DEF T, F
  <2>1. QED
    BY <1>1, <1>9, <1>10, Stepwise
<1>12. ASSUME NEW n \in 0..L PROVE g[n] = Body(g)[n]
  <2>1. CASE n = 0
    BY <1>8, <2>1
  <2>2. CASE n # 0
    <3>1. n \in 1..L /\ n - 1 \in 0..L
      BY <1>1, <2>2
    <3>2. g[n] = Step(g[n - 1], n)
      BY <3>1, <1>9, <1>11
    <3>3. QED
      BY <2>2, <3>2 DEF Step
  <2>3. QED
    BY <2>1, <2>2
<1>13. g = Body(g)
  <2>1. g = [n \in 0..L |-> g[n]]
    BY <1>8
  <2> HIDE DEF F
  <2>2. QED
    BY <1>12, <2>1
<1>14. PICK k : k = Body(k) /\ w = k[L]
  <2> HIDE DEF Body
  <2>1. QED
    BY <1>4, <1>13
<1>15. k[0] = base /\ \A n \in 1..L : k[n] = Step(k[n - 1], n)
  <2>1. \A n \in 0..L : k[n] = Body(k)[n]
    BY <1>14
  <2>2. 0 \in 0..L /\ \A n \in 1..L : n \in 0..L /\ n # 0
    BY <1>1
  <2>3. QED
    BY <2>1, <2>2 DEF Step
<1>16. k[0] \in T[0]
  BY <1>1, <1>2, <1>15
<1>17. ASSUME NEW n \in 1..L, k[n - 1] \in T[n - 1] PROVE k[n] \in T[n]
  <2>1. n - 1 \in 0..L /\ n \in 0..L
    BY <1>1
  <2>2. k[n - 1] \in X /\ Good(k[n - 1], n - 1)
    BY <2>1, <1>17
  <2>3. QED
    BY <2>1, <2>2, <1>5, <1>15
<1>18. \A n \in 0..L : k[n] \in T[n]
  <2> HIDE DEF T
  <2>1. QED
    BY <1>1, <1>16, <1>17, Stepwise
<1>19. w \in X /\ Good(w, L)
  BY <1>1, <1>14, <1>18
<1>20. d # Local => L > 0 /\ L + 1 - L = 1 /\ path[1] = d
  BY <1>1, PathDown DEF L, path
<1>21. QED
  BY <1>19, <1>20 DEF Mangled, Good, X

\* A chdir from s: the panels and what they show stay.
Moved(o, s, w, need, d) ==
    /\ w.ok \in BOOLEAN /\ Sound(w.s, need, {})
    /\ s.loaded \subseteq w.s.loaded
    /\ w.s.cwd = s.cwd /\ w.s.listing = s.listing
    /\ ~w.ok => w.s.current_dir = s.current_dir
    /\ w.ok => /\ w.s.current_dir = d /\ d \in w.s.loaded \cup {Local}
               /\ ~Stamped(w.s, d)
    /\ o.fate = AllRead => (w.ok <=> o.there)

\* mc_chdir.
LEMMA Chdirs ==
    ASSUME NEW s, NEW need \in Needs, Sound(s, need, {}), NEW d \in Places,
           NEW o, NEW w, w = mc_chdir(o, s, d)
    PROVE  Moved(o, s, w, need, d)
<1>1. s \in Memories
  BY DEF Sound
<1>2. PICK v : v = [s EXCEPT !.current_dir = d]
  OBVIOUS
<1>3. /\ v \in Memories /\ v.loaded = s.loaded /\ v.stamps = s.stamps
      /\ v.fd = s.fd /\ v.cwd = s.cwd /\ v.listing = s.listing
      /\ v.current_dir = d
  BY <1>1, <1>2 DEF Memories
<1>4. Shown(v) = Shown(s) /\ \A x : Inside(v, x) = Inside(s, x)
  BY <1>3 DEF Shown, Inside
<1>5. Sound(v, need, {})
  BY <1>3, <1>4 DEF Sound, Rooted, Counted, Listed
<1>6. PICK fate : fate = o.fate
  OBVIOUS
<1>7. PICK r : r = get_path_mangle(fate, v, d)
  OBVIOUS
<1>8. Mangled(fate, v, r, need, d)
  BY <1>5, <1>7, Mangles, Zenon
<1>9. /\ r.s \in Memories /\ r.ok \in BOOLEAN /\ Sound(r.s, need, {})
      /\ s.loaded \subseteq r.s.loaded /\ r.s.current_dir = d
      /\ r.s.cwd = s.cwd /\ r.s.listing = s.listing
      /\ r.ok => d \in r.s.loaded \cup {Local}
      /\ fate = AllRead => r.ok
  BY <1>3, <1>8 DEF Mangled, Led, Grows
<1>10. w = IF r.ok /\ o.there
           THEN [s |-> vfs_add_noncurrent_stamps(r.s, s.current_dir), ok |-> TRUE]
           ELSE [s |-> [r.s EXCEPT !.current_dir = s.current_dir], ok |-> FALSE]
  BY <1>2, <1>6, <1>7 DEF mc_chdir
<1>11. CASE r.ok /\ o.there
  <2>1. PICK u : u = r.s
    OBVIOUS
  <2>2. PICK t : t = vfs_add_noncurrent_stamps(u, s.current_dir)
    OBVIOUS
  <2>3. w = [s |-> t, ok |-> TRUE]
    BY <1>10, <1>11, <2>1, <2>2
  <2>4. /\ Sound(t, need, {}) /\ Keeps(u, t)
        /\ u.current_dir \in u.loaded => ~Stamped(t, u.current_dir)
    BY <1>9, <2>1, <2>2, AddsNoncurrent
  <2>5. d = Local => ~Stamped(t, d)
    <3>1. \A i \in 1..Len(t.stamps) : t.stamps[i].id \in t.loaded
      BY <2>4 DEF Sound, Listed
    <3>2. Local \notin t.loaded
      BY <2>4, Layout DEF Sound, Memories
    <3>3. QED
      BY <3>1, <3>2 DEF Stamped
  <2>6. QED
    BY <1>6, <1>9, <1>11, <2>1, <2>3, <2>4, <2>5 DEF Moved, Keeps
<1>12. CASE ~(r.ok /\ o.there)
  <2>1. PICK u : u = r.s
    OBVIOUS
  <2>2. PICK t : t = [u EXCEPT !.current_dir = s.current_dir]
    OBVIOUS
  <2>3. w = [s |-> t, ok |-> FALSE]
    BY <1>10, <1>12, <2>1, <2>2
  <2>4. /\ t \in Memories /\ t.loaded = u.loaded /\ t.stamps = u.stamps
        /\ t.fd = u.fd /\ t.cwd = u.cwd /\ t.listing = u.listing
        /\ t.current_dir = s.current_dir
    BY <1>1, <1>9, <2>1, <2>2 DEF Memories
  <2>5. Shown(t) = Shown(u) /\ \A x : Inside(t, x) = Inside(u, x)
    BY <2>4 DEF Shown, Inside
  <2>6. Sound(t, need, {})
    BY <1>9, <2>1, <2>4, <2>5 DEF Sound, Rooted, Counted, Listed
  <2>7. QED
    BY <1>6, <1>9, <1>12, <2>1, <2>3, <2>4, <2>6 DEF Moved
<1>13. QED
  BY <1>11, <1>12

\* t is s with another directory in a panel.
Turned(s, t, need, p, d) ==
    /\ Sound(t, need, {}) /\ t.cwd = [s.cwd EXCEPT ![p] = d]
    /\ t.loaded = s.loaded /\ t.listing = s.listing
    /\ t.current_dir = s.current_dir

\* A panel that shows a directory which is loaded and has no stamp.
LEMMA Turns ==
    ASSUME NEW s, NEW need, Sound(s, need, {}), NEW p \in Panels,
           NEW d \in Places, d \in s.loaded \cup {Local}, ~Stamped(s, d),
           NEW t, t = [s EXCEPT !.cwd[p] = d]
    PROVE  Turned(s, t, need, p, d)
<1>1. s \in Memories
  BY DEF Sound
<1>2. PICK dirs \in [Panels -> Places] : dirs = [s.cwd EXCEPT ![p] = d]
  <2>1. s.cwd \in [Panels -> Places]
    BY <1>1 DEF Memories
  <2>2. QED
    BY <2>1
<1>3. t = [s EXCEPT !.cwd = dirs]
  BY <1>2
<1>4. /\ t \in Memories /\ t.cwd = dirs
      /\ t.loaded = s.loaded /\ t.listing = s.listing /\ t.fd = s.fd
      /\ t.current_dir = s.current_dir /\ t.stamps = s.stamps
      /\ t.gone = s.gone
  BY <1>1, <1>3 DEF Memories
<1>5. Shown(t) \subseteq Shown(s) \cup {d}
  <2>1. \A q \in Panels : t.cwd[q] = s.cwd[q] \/ t.cwd[q] = d
    BY <1>1, <1>2, <1>4 DEF Memories
  <2>2. QED
    BY <2>1, <1>4 DEF Shown
<1>6. \A x : Inside(t, x) = Inside(s, x)
  BY <1>4 DEF Inside
<1>7. Rooted(t) /\ Counted(t, need) /\ Shown(t) \subseteq t.loaded \cup {Local}
  BY <1>4, <1>5, <1>6 DEF Sound, Rooted, Counted
<1>8. Listed(t, {})
  <2>1. SUFFICES ASSUME NEW i \in 1..Len(t.stamps)
                 PROVE  /\ t.stamps[i].id \in t.loaded
                        /\ t.fd[t.stamps[i].id] <= 0
                        /\ t.stamps[i].id \notin Shown(t)
    BY <1>4 DEF Sound, Listed
  <2>2. t.stamps[i].id # d
    BY <1>4 DEF Stamped
  <2>3. QED
    BY <1>4, <1>5, <2>2 DEF Sound, Listed
<1>9. QED
  BY <1>2, <1>4, <1>7, <1>8 DEF Sound, Turned

-----------------------------------------------------------------------------
(* The entry points.                                                        *)

\* The fields of the state of the vfs layer.
LEMMA NowIs ==
    /\ Now.loaded = loaded /\ Now.fd = fd_usage /\ Now.stamps = stamps
    /\ Now.current_dir = current_dir /\ Now.cwd = cwd /\ Now.listing = listing
    /\ Now.owed = owed /\ Now.lost = lost /\ Now.gone = {}
BY DEF Now

\* What an entry point left is the state after it.
LEMMA Becoming ==
    ASSUME NEW s, Becomes(s), cwd' = s.cwd, listing' = s.listing,
           NEW need, Sound(s, need, {}), need = InUse', Settled(s)
    PROVE  Sound(Now, InUse, {})' /\ Settled(Now)'
<1>1. s \in Memories
  BY DEF Sound
<1>2. PICK t : t = Now'
  OBVIOUS
<1>3. /\ t.loaded = s.loaded /\ t.fd = s.fd /\ t.stamps = s.stamps
      /\ t.current_dir = s.current_dir /\ t.cwd = s.cwd
      /\ t.listing = s.listing /\ t.owed = s.owed /\ t.lost = s.lost
      /\ t \in Memories
  BY <1>1, <1>2 DEF Becomes, Now, Memories
<1>4. Keeps(s, t) /\ Distinct(t.stamps)
  BY <1>3 DEF Keeps, Sound, Listed
<1>5. \A i \in 1..Len(t.stamps) : Stamped(s, t.stamps[i].id)
  BY <1>3 DEF Stamped
<1>6. Sound(t, need, {})
  BY <1>3, <1>4, <1>5, Restamped
<1>7. Settled(t)
  BY <1>3 DEF Settled, Shown
<1>8. QED
  BY <1>2, <1>6, <1>7

\* The types follow from what is proved of the state as a whole.
Rest ==
    /\ \E p \in Panels : listing[p]
    /\ handles \in Needs /\ copies \in Needs
    /\ changed \subseteq Archives /\ left_behind \subseteq Archives
    /\ dangling = FALSE
    /\ \A a \in Tars : copies[a] > 0 => a \in loaded

\* The parts make up the invariant.
LEMMA Whole ==
    ASSUME Sound(Now, InUse, {}), Settled(Now), Rest
    PROVE  IInv
<1>1. Now \in Memories
  BY DEF Sound
<1>2. /\ loaded \subseteq Archives /\ fd_usage \in [Archives -> Int]
      /\ stamps \in Seq(Stamps) /\ current_dir \in Places
      /\ cwd \in [Panels -> Places] /\ listing \in [Panels -> BOOLEAN]
      /\ owed \subseteq Archives /\ lost \subseteq Archives
  BY <1>1, NowIs DEF Memories
<1>3. QED
  BY <1>2 DEF IInv, TypeOK, Rest, Stamps, Needs

\* The invariant gives its parts.
LEMMA Parts ==
    ASSUME IInv
    PROVE  /\ Sound(Now, InUse, {}) /\ Settled(Now) /\ Rest
           /\ InUse \in Needs /\ Now \in Memories
           /\ cwd \in [Panels -> Places] /\ listing \in [Panels -> BOOLEAN]
           /\ current_dir \in Places /\ loaded \subseteq Archives
<1>1. Rest
  BY DEF IInv, TypeOK, Rest, Needs
<1>2. InUse \in Needs
  BY <1>1 DEF Rest, InUse, Needs
<1>3. QED
  BY <1>1, <1>2 DEF IInv, TypeOK, Sound

\* What is forgotten is loaded.
LEMMA Forgotten ==
    ASSUME NEW S, Forgets(S), loaded' \subseteq Archives
    PROVE  left_behind' \subseteq Archives
BY DEF Forgets

\* An entry point that ends in s.
LEMMA Serves ==
    ASSUME NEW s, Becomes(s), cwd' = s.cwd, listing' = s.listing,
           NEW need, Sound(s, need, {}), need = InUse', Settled(s),
           \E p \in Panels : listing'[p], handles' \in Needs, copies' \in Needs,
           changed' \subseteq Archives, dangling' = FALSE,
           \A a \in Tars : copies'[a] > 0 => a \in s.loaded,
           NEW S, Forgets(S)
    PROVE  IInv'
<1>1. loaded' = s.loaded /\ s.loaded \subseteq Archives
  BY DEF Becomes, Sound, Memories
<1>2. left_behind' \subseteq Archives
  BY <1>1, Forgotten
<1>3. Rest'
  BY <1>1, <1>2 DEF Rest
<1>4. Sound(Now, InUse, {})' /\ Settled(Now)'
  BY Becoming
<1>5. QED
  BY <1>3, <1>4, Whole, PTL

\* An entry point that leaves the uses alone and frees nothing.
LEMMA Ends ==
    ASSUME IInv, NEW s, Becomes(s), cwd' = s.cwd, s.listing = listing,
           UNCHANGED <<listing, uses, dangling>>,
           Sound(s, InUse, {}), Settled(s), loaded \subseteq s.loaded,
           NEW S, Forgets(S)
    PROVE  IInv' /\ loaded \subseteq loaded'
<1>1. Rest
  BY Parts
<1>2. /\ listing' = s.listing /\ \E p \in Panels : listing'[p]
      /\ handles' \in Needs /\ copies' \in Needs
      /\ changed' \subseteq Archives /\ dangling' = FALSE
      /\ \A a \in Tars : copies'[a] > 0 => a \in s.loaded
  BY <1>1 DEF Rest, uses
<1>3. PICK need : need = InUse
  OBVIOUS
<1>4. need = InUse'
  BY <1>3 DEF InUse, uses
<1>5. IInv'
  BY <1>2, <1>3, <1>4, Serves
<1>6. QED
  BY <1>5 DEF Becomes

\* Before anything is loaded the invariant holds.
LEMMA InitSound ==
    ASSUME Init
    PROVE  IInv
<1>1. Now \in Memories
  BY DEF Init, Now, Memories, Places
<1>2. InUse \in Needs /\ \A a \in Archives : InUse[a] = 0
  BY DEF Init, InUse, Needs
<1>3. \A a \in Archives : Cardinality(Inside(Now, a)) = 0
  <2>1. \A a \in Archives : Inside(Now, a) = {}
    BY DEF Init, Now, Inside
  <2>2. QED
    BY <2>1, FS_EmptySet
<1>4. Counted(Now, InUse)
  <2>1. Now.loaded = {} /\ \A a \in Archives : Now.fd[a] = 0
    BY NowIs DEF Init
  <2>2. QED
    BY <1>2, <1>3, <2>1 DEF Counted
<1>5. Shown(Now) \subseteq {Local}
  BY DEF Init, Now, Shown
<1>6. Sound(Now, InUse, {})
  <2>1. Now.loaded = {} /\ Now.stamps = <<>> /\ Len(Now.stamps) = 0
    BY NowIs DEF Init
  <2>2. Rooted(Now) /\ Listed(Now, {})
    BY <2>1 DEF Rooted, Listed, Distinct
  <2>3. QED
    BY <1>1, <1>4, <1>5, <2>2 DEF Sound
<1>7. Settled(Now)
  BY DEF Init, Now, Settled
<1>8. Rest
  <2>1. "left" \in Panels /\ \A p \in Panels : listing[p]
    BY DEF Init, Panels
  <2>2. handles \in Needs /\ copies \in Needs /\ \A a \in Archives : copies[a] = 0
    BY DEF Init, Needs
  <2>3. QED
    BY <2>1, <2>2, Layout DEF Init, Rest
<1>9. QED
  BY <1>6, <1>7, <1>8, Whole

\* A panel's directory is loaded, or on the disk, and has no stamp.
LEMMA ShownOnes ==
    ASSUME NEW s, NEW need, Sound(s, need, {}), NEW d \in Shown(s) \cup {Local}
    PROVE  d \in s.loaded \cup {Local} /\ d \in Places /\ ~Stamped(s, d)
<1>1. s \in Memories /\ Shown(s) \subseteq s.loaded \cup {Local} /\ Listed(s, {})
  BY DEF Sound
<1>2. Local \notin s.loaded
  BY <1>1, Layout DEF Memories
<1>3. QED
  BY <1>1, <1>2 DEF Listed, Stamped, Memories, Places

\* A panel changes its directory (do_cd).
LEMMA DoCdKeeps ==
    ASSUME IInv, NEW p \in Panels, NEW d \in Places, DoCd(p, d)
    PROVE  IInv' /\ loaded \subseteq loaded'
<1>1. PICK o \in Outcomes(d) :
         /\ listing[p]
         /\ LET r == mc_chdir(o, Now, d)
                moved == [r.s EXCEPT !.cwd[p] = d]
            IN  IF r.ok
                THEN /\ Becomes(vfs_add_noncurrent_stamps(moved, cwd[p]))
                     /\ cwd' = moved.cwd /\ Forgets({})
                ELSE Becomes(r.s) /\ UNCHANGED cwd /\ Forgets(NewlyLoaded)
         /\ UNCHANGED <<listing, uses, dangling>>
  BY DEF DoCd
<1>2. /\ Sound(Now, InUse, {}) /\ Settled(Now) /\ InUse \in Needs
      /\ cwd \in [Panels -> Places]
  BY Parts
<1>3. PICK r : r = mc_chdir(o, Now, d)
  OBVIOUS
<1>4. Moved(o, Now, r, InUse, d)
  <2>1. PICK n : n = Now
    OBVIOUS
  <2>2. PICK need \in Needs : need = InUse
    BY <1>2
  <2>3. Sound(n, need, {}) /\ r = mc_chdir(o, n, d)
    BY <1>2, <1>3, <2>2, <2>1
  <2>4. Moved(o, n, r, need, d)
    BY <2>3, Chdirs
  <2>5. QED
    BY <2>2, <2>4, <2>1
<1>5. PICK s : s = r.s
  OBVIOUS
<1>6. /\ r.ok \in BOOLEAN /\ Sound(s, InUse, {}) /\ loaded \subseteq s.loaded
      /\ s.cwd = cwd /\ s.listing = listing
      /\ ~r.ok => s.current_dir = current_dir
      /\ r.ok => /\ s.current_dir = d /\ d \in s.loaded \cup {Local}
                 /\ ~Stamped(s, d)
  BY <1>4, <1>5, NowIs DEF Moved
<1>7. CASE r.ok
  <2>1. PICK moved : moved = [s EXCEPT !.cwd[p] = d]
    OBVIOUS
  <2>2. /\ Sound(moved, InUse, {}) /\ moved.cwd = [cwd EXCEPT ![p] = d]
        /\ moved.loaded = s.loaded /\ moved.listing = listing
        /\ moved.current_dir = d
    <3>1. PICK need : need = InUse
      OBVIOUS
    <3>2. Sound(s, need, {}) /\ d \in s.loaded \cup {Local} /\ ~Stamped(s, d)
      BY <1>6, <1>7, <3>1
    <3>3. Turned(s, moved, need, p, d)
      BY <2>1, <3>2, Turns, Zenon
    <3>4. QED
      BY <1>6, <1>7, <3>1, <3>3 DEF Turned
  <2>3. PICK t : t = vfs_add_noncurrent_stamps(moved, cwd[p])
    OBVIOUS
  <2>4. Becomes(t) /\ cwd' = moved.cwd /\ Forgets({})
    BY <1>1, <1>3, <1>5, <1>7, <2>1, <2>3
  <2>5. Sound(t, InUse, {}) /\ Keeps(moved, t)
    BY <2>2, <2>3, AddsNoncurrent
  <2>6. /\ t.listing = listing /\ t.cwd = cwd' /\ t.loaded = s.loaded
        /\ t.current_dir = d /\ t.cwd[p] = d
    BY <1>2, <2>2, <2>4, <2>5 DEF Keeps
  <2>7. Settled(t)
    BY <1>1, <2>6 DEF Settled, Shown
  <2>8. loaded \subseteq t.loaded
    BY <1>6, <2>6
  <2>9. QED
    BY <1>1, <2>4, <2>5, <2>6, <2>7, <2>8, Ends
<1>8. CASE ~r.ok
  <2>1. Becomes(s) /\ cwd' = s.cwd /\ Forgets(NewlyLoaded)
    BY <1>1, <1>3, <1>5, <1>6, <1>8
  <2>2. Settled(s)
    BY <1>2, <1>6, <1>8, NowIs DEF Settled, Shown
  <2>3. QED
    BY <1>1, <1>6, <2>1, <2>2, Ends
<1>9. QED
  BY <1>6, <1>7, <1>8

\* mc_chdir without a panel.
LEMMA ChdirKeeps ==
    ASSUME IInv, NEW d \in Places, Chdir(d)
    PROVE  IInv' /\ loaded \subseteq loaded'
<1>1. PICK o \in Outcomes(d) :
         /\ d \in {cwd[p] : p \in {p \in Panels : listing[p]}} \cup {Local}
         /\ LET r == mc_chdir(o, Now, d)
            IN  Becomes(r.s) /\ Forgets(IF r.ok THEN {} ELSE NewlyLoaded)
         /\ UNCHANGED <<panels, uses, dangling>>
  BY DEF Chdir
<1>2. Sound(Now, InUse, {}) /\ Settled(Now) /\ InUse \in Needs
  BY Parts
<1>3. PICK r : r = mc_chdir(o, Now, d)
  OBVIOUS
<1>4. Moved(o, Now, r, InUse, d)
  <2>1. PICK n : n = Now
    OBVIOUS
  <2>2. PICK need \in Needs : need = InUse
    BY <1>2
  <2>3. Sound(n, need, {}) /\ r = mc_chdir(o, n, d)
    BY <1>2, <1>3, <2>2, <2>1
  <2>4. Moved(o, n, r, need, d)
    BY <2>3, Chdirs
  <2>5. QED
    BY <2>2, <2>4, <2>1
<1>5. PICK s : s = r.s
  OBVIOUS
<1>6. /\ r.ok \in BOOLEAN /\ Sound(s, InUse, {}) /\ loaded \subseteq s.loaded
      /\ s.cwd = cwd /\ s.listing = listing
      /\ ~r.ok => s.current_dir = current_dir
      /\ r.ok => s.current_dir = d
  BY <1>4, <1>5, NowIs DEF Moved
<1>7. Settled(s)
  <2>1. d \in Shown(Now) \cup {Local}
    BY <1>1, NowIs DEF Shown
  <2>2. Shown(s) = Shown(Now)
    BY <1>6, NowIs DEF Shown
  <2>3. QED
    BY <1>2, <1>6, <2>1, <2>2, NowIs DEF Settled
<1>8. PICK S : Forgets(S)
  BY <1>1
<1>9. Becomes(s) /\ cwd' = s.cwd /\ UNCHANGED <<listing, uses, dangling>>
  BY <1>1, <1>3, <1>5, <1>6 DEF panels
<1>10. QED
  BY <1>6, <1>7, <1>8, <1>9, Ends

\* Attempts to go up that fail.
TryUp(up, n) ==
    LET fails == [fate |-> AllRead, there |-> FALSE]
        tried[i \in 0..n] ==
            IF i = 0 THEN Now ELSE mc_chdir(fails, tried[i - 1], up[i]).s
    IN  tried[n]

Stays(s, t, need) ==
    /\ Sound(t, need, {}) /\ s.loaded \subseteq t.loaded
    /\ t.cwd = s.cwd /\ t.listing = s.listing /\ t.current_dir = s.current_dir

\* Failing changes of directory on the way up lose nothing.
LEMMA Tries ==
    ASSUME NEW s, s = Now, NEW need \in Needs, Sound(s, need, {}),
           NEW up \in Seq(Places), NEW n \in 0..Len(up),
           NEW t, t = TryUp(up, n)
    PROVE  Stays(s, t, need)
<1> DEFINE G == {x \in Memories : Stays(s, x, need)}
           fails == [fate |-> AllRead, there |-> FALSE]
           F == [y \in G \X Nat |->
                   IF y[2] \in 1..n THEN mc_chdir(fails, y[1], up[y[2]]).s
                   ELSE y[1]]
           Body(f) == [i \in 0..n |-> IF i = 0 THEN s
                                      ELSE mc_chdir(fails, f[i - 1], up[i]).s]
           T == [i \in 0..n |-> G]
<1>1. n \in Nat /\ \A i \in 1..n : up[i] \in Places
  BY SMT
<1>2. s \in G
  BY DEF Stays, Sound
<1>3. t = (CHOOSE f : f = Body(f))[n]
  BY DEF TryUp
<1>4. ASSUME NEW x \in G, NEW i \in 1..n
      PROVE  mc_chdir(fails, x, up[i]).s \in G
  <2>1. PICK d \in Places : d = up[i]
    BY <1>1
  <2>2. PICK o : o = fails
    OBVIOUS
  <2>3. PICK w : w = mc_chdir(o, x, d)
    OBVIOUS
  <2>4. Sound(x, need, {})
    BY DEF Stays
  <2>5. Moved(o, x, w, need, d)
    BY <2>3, <2>4, Chdirs
  <2>6. ~w.ok
    BY <2>2, <2>5 DEF Moved
  <2>7. Stays(s, w.s, need) /\ w.s \in Memories
    BY <2>5, <2>6 DEF Moved, Stays, Sound
  <2>8. QED
    BY <2>1, <2>2, <2>3, <2>7
<1> HIDE DEF G, fails
<1>5. F \in [G \X Nat -> G]
  BY <1>4
<1>6. PICK g : g \in Runs(n, G, s, F)
  <2> HIDE DEF F
  <2>1. QED
    BY <1>1, <1>2, <1>5, Iterates
<1>7. /\ g \in [0..n -> G] /\ g[0] = s
      /\ \A i \in 1..n : g[i] = F[<<g[i - 1], i>>]
  BY <1>6 DEF Runs
<1>8. ASSUME NEW i \in 0..n PROVE g[i] = Body(g)[i]
  <2>1. CASE i = 0
    BY <1>7, <2>1
  <2>2. CASE i # 0
    <3>1. i \in 1..n /\ i - 1 \in 0..n /\ i \in Nat
      BY <1>1, <2>2
    <3>2. g[i - 1] \in G /\ <<g[i - 1], i>> \in G \X Nat
      BY <3>1, <1>7
    <3>3. F[<<g[i - 1], i>>] = mc_chdir(fails, g[i - 1], up[i]).s
      BY <3>1, <3>2
    <3>4. QED
      BY <2>2, <3>1, <3>3, <1>7
  <2>3. QED
    BY <2>1, <2>2
<1>9. g = Body(g)
  <2>1. g = [i \in 0..n |-> g[i]]
    BY <1>7
  <2> HIDE DEF F
  <2>2. QED
    BY <1>8, <2>1
<1>10. PICK k : k = Body(k) /\ t = k[n]
  <2> HIDE DEF Body
  <2>1. QED
    BY <1>3, <1>9
<1>11. k[0] = s /\ \A i \in 1..n : k[i] = mc_chdir(fails, k[i - 1], up[i]).s
  <2>1. \A i \in 0..n : k[i] = Body(k)[i]
    BY <1>10
  <2>2. 0 \in 0..n /\ \A i \in 1..n : i \in 0..n /\ i # 0
    BY <1>1
  <2>3. QED
    BY <2>1, <2>2
<1>12. k[0] \in T[0]
  BY <1>1, <1>2, <1>11
<1>13. ASSUME NEW i \in 1..n, k[i - 1] \in T[i - 1] PROVE k[i] \in T[i]
  <2>1. i - 1 \in 0..n /\ i \in 0..n
    BY <1>1
  <2>2. QED
    BY <2>1, <1>4, <1>11, <1>13
<1>14. \A i \in 0..n : k[i] \in T[i]
  <2> HIDE DEF T
  <2>1. QED
    BY <1>1, <1>12, <1>13, Stepwise
<1>15. t \in G
  BY <1>1, <1>10, <1>14
<1>16. QED
  BY <1>15 DEF G

\* The attempt that succeeds.
Again == [[fate |-> AllRead, there |-> FALSE] EXCEPT !.there = TRUE]

\* panel_reload goes up until a directory can be entered.
LEMMA PanelReloadKeeps ==
    ASSUME IInv, NEW p \in Panels, PanelReload(p)
    PROVE  IInv' /\ loaded \subseteq loaded'
<1>1. PICK n \in 1..Len(PathOf(cwd[p])) :
         LET up == PathOf(cwd[p]) \o <<Local>>
             moved == [TryUp(up, n) EXCEPT !.cwd[p] = up[n + 1]]
         IN  /\ listing[p]
             /\ Becomes(mc_chdir(Again, moved, up[n + 1]).s)
             /\ cwd' = moved.cwd
             /\ Forgets(NewlyLoaded \cup Range(SubSeq(up, 1, n)))
             /\ UNCHANGED <<listing, uses, dangling>>
  BY DEF PanelReload, TryUp, Again
<1>2. listing[p] /\ UNCHANGED <<listing, uses, dangling>>
  BY <1>1
<1>3. /\ Sound(Now, InUse, {}) /\ Settled(Now) /\ InUse \in Needs
      /\ cwd \in [Panels -> Places]
  BY Parts
<1>4. PICK path : path = PathOf(cwd[p])
  OBVIOUS
<1>5. PICK up : up = path \o <<Local>>
  OBVIOUS
<1>6. cwd[p] \in Archives /\ cwd[p] \in loaded /\ path = Path[cwd[p]]
  <2>1. cwd[p] # Local
    <3>1. PathOf(Local) = <<>> /\ Len(<<>>) = 0
      BY DEF PathOf
    <3>2. SUFFICES ASSUME cwd[p] = Local PROVE FALSE
      OBVIOUS
    <3>3. QED
      BY <3>1, <3>2
  <2>2. cwd[p] \in Archives /\ cwd[p] \in Shown(Now)
    BY <1>2, <1>3, <2>1, NowIs DEF Places, Shown
  <2>3. QED
    BY <1>3, <1>4, <2>1, <2>2, NowIs DEF Sound, PathOf
<1>7. /\ path \in Seq(Archives) /\ Len(path) \in Nat /\ n \in 1..Len(path)
      /\ Outer[path[Len(path)]] = Local
      /\ \A i \in 1..(Len(path) - 1) : path[i + 1] = Outer[path[i]]
  <2>1. n \in 1..Len(path)
    BY <1>4
  <2>2. QED
    BY <2>1, <1>6, PathSteps
<1>8. /\ up \in Seq(Places) /\ Len(up) = Len(path) + 1
      /\ up[Len(path) + 1] = Local
      /\ \A i \in 1..Len(path) : up[i] = path[i]
  <2>1. path \in Seq(Places) /\ <<Local>> \in Seq(Places)
    BY <1>7 DEF Places
  <2>2. QED
    BY <1>5, <1>7, <2>1
<1>9. PICK d \in Places : d = up[n + 1]
  <2>1. n + 1 \in 1..Len(up)
    BY <1>7, <1>8
  <2>2. QED
    BY <2>1, <1>8
<1>10. PICK t : t = TryUp(up, n)
  OBVIOUS
<1>11. PICK need \in Needs : need = InUse
  BY <1>3
<1>12. Stays(Now, t, need)
  <2>1. PICK s : s = Now
    OBVIOUS
  <2>2. n \in 0..Len(up)
    BY <1>7, <1>8
  <2>3. Sound(s, need, {})
    BY <1>3, <1>11, <2>1
  <2>4. Stays(s, t, need)
    BY <1>8, <1>10, <2>1, <2>2, <2>3, Tries
  <2>5. QED
    BY <2>1, <2>4
<1>13. /\ Sound(t, need, {}) /\ loaded \subseteq t.loaded /\ t.cwd = cwd
       /\ t.listing = listing
  BY <1>12, NowIs DEF Stays
<1>14. path[n] \in t.loaded
  <2>1. cwd[p] \in t.loaded /\ Rooted(t) /\ t.loaded \subseteq Archives
    BY <1>6, <1>13 DEF Sound, Memories
  <2>2. QED
    BY <2>1, <1>6, <1>7, PathLoaded
<1>15. d = Outer[path[n]]
  <2>1. CASE n = Len(path)
    BY <2>1, <1>7, <1>8, <1>9
  <2>2. CASE n # Len(path)
    <3>1. n \in 1..(Len(path) - 1) /\ n + 1 \in 1..Len(path)
      BY <2>2, <1>7
    <3>2. QED
      BY <3>1, <1>7, <1>8, <1>9
  <2>3. QED
    BY <2>1, <2>2
<1>16. d \in t.loaded \cup {Local} /\ ~Stamped(t, d)
  <2>1. CASE d = Local
    BY <2>1, <1>13, ShownOnes
  <2>2. CASE d # Local
    BY <2>2, <1>13, <1>14, <1>15, Around
  <2>3. QED
    BY <2>1, <2>2
<1>17. PICK moved : moved = [t EXCEPT !.cwd[p] = d]
  OBVIOUS
<1>18. Turned(t, moved, need, p, d)
  BY <1>13, <1>16, <1>17, Turns, Zenon
<1>19. PICK o : o = Again
  OBVIOUS
<1>20. PICK w : w = mc_chdir(o, moved, d)
  OBVIOUS
<1>21. Moved(o, moved, w, need, d)
  <2>1. Sound(moved, need, {})
    BY <1>18 DEF Turned
  <2>2. QED
    BY <1>20, <2>1, Chdirs
<1>22. PICK s : s = w.s
  OBVIOUS
<1>23. /\ Sound(s, InUse, {}) /\ loaded \subseteq s.loaded
       /\ s.cwd = [cwd EXCEPT ![p] = d] /\ s.listing = listing
       /\ s.current_dir = d
  <2>1. w.ok
    BY <1>19, <1>21 DEF Moved, Again
  <2>2. QED
    BY <1>11, <1>13, <1>18, <1>21, <1>22, <2>1 DEF Moved, Turned
<1>24. \E S : Becomes(s) /\ cwd' = moved.cwd /\ Forgets(S)
  BY <1>1, <1>4, <1>5, <1>9, <1>10, <1>17, <1>19, <1>20, <1>22
<1>25. PICK S : Becomes(s) /\ cwd' = s.cwd /\ Forgets(S)
  BY <1>13, <1>18, <1>23, <1>24 DEF Turned
<1>26. Settled(s)
  <2>1. s.cwd[p] = d /\ s.listing[p]
    BY <1>2, <1>3, <1>23
  <2>2. QED
    BY <2>1, <1>23 DEF Settled, Shown
<1>27. QED
  BY <1>2, <1>23, <1>25, <1>26, Ends

\* A panel closes, or shows again.
LEMMA Views ==
    ASSUME NEW s, NEW need, Sound(s, need, {}), NEW t \in Memories,
           t.loaded = s.loaded, t.fd = s.fd, t.stamps = s.stamps,
           Shown(t) \subseteq Shown(s) \cup {Local}
    PROVE  Sound(t, need, {})
<1>1. \A x : Inside(t, x) = Inside(s, x)
  BY DEF Inside
<1>2. /\ Rooted(t) /\ Counted(t, need)
      /\ Shown(t) \subseteq t.loaded \cup {Local}
  BY <1>1 DEF Sound, Rooted, Counted
<1>3. Local \notin s.loaded
  BY Layout DEF Sound, Memories
<1>4. Listed(t, {})
  BY <1>3 DEF Sound, Listed
<1>5. QED
  BY <1>2, <1>4 DEF Sound

\* A panel is closed or opened.
LEMMA PanelsKeep ==
    ASSUME IInv, NEW p \in Panels, ClosePanel(p) \/ NewPanel(p)
    PROVE  IInv' /\ loaded \subseteq loaded'
<1>1. /\ Sound(Now, InUse, {}) /\ Settled(Now) /\ Rest /\ InUse \in Needs
      /\ Now \in Memories /\ cwd \in [Panels -> Places]
      /\ listing \in [Panels -> BOOLEAN]
      /\ current_dir \in Places /\ loaded \subseteq Archives
  BY Parts
<1>2. /\ UNCHANGED <<memory, uses, dangling>> /\ left_behind' \subseteq Archives
  <2>1. UNCHANGED <<memory, uses, dangling>> /\ loaded' \subseteq Archives
    BY <1>1 DEF ClosePanel, NewPanel, memory
  <2>2. CASE ClosePanel(p)
    <3>1. PICK S : Forgets(S)
      BY <2>2 DEF ClosePanel
    <3>2. QED
      BY <2>1, <3>1, Forgotten
  <2>3. CASE NewPanel(p)
    BY <1>1, <2>1, <2>3 DEF NewPanel, Rest
  <2>4. QED
    BY <2>1, <2>2, <2>3
<1>3. /\ cwd' \in [Panels -> Places] /\ listing' \in [Panels -> BOOLEAN]
      /\ \A q \in Panels : listing'[q] =>
            cwd'[q] \in {cwd[x] : x \in {x \in Panels : listing[x]}}
                        \cup {current_dir}
      /\ \E q \in Panels : listing'[q] /\ cwd'[q] = current_dir
  <2>1. CASE ClosePanel(p)
    <3>1. Local \in Places
      BY DEF Places
    <3>2. PICK q \in Panels \ {p} : listing[q] /\ cwd[q] = current_dir
      BY <2>1 DEF ClosePanel
    <3>3. listing' = [listing EXCEPT ![p] = FALSE]
          /\ cwd' = [cwd EXCEPT ![p] = Local]
      BY <2>1 DEF ClosePanel
    <3>4. QED
      BY <1>1, <3>1, <3>2, <3>3
  <2>2. CASE NewPanel(p)
    BY <1>1, <2>2 DEF NewPanel
  <2>3. QED
    BY <2>1, <2>2
<1>4. PICK t : t = Now'
  OBVIOUS
<1>5. /\ t.loaded = loaded /\ t.fd = fd_usage /\ t.stamps = stamps
      /\ t.current_dir = current_dir /\ t.cwd = cwd' /\ t.listing = listing'
  BY <1>2, <1>4 DEF Now, memory
<1>6. t \in Memories
  <2>1. t = [loaded |-> loaded, fd |-> fd_usage, stamps |-> stamps,
             current_dir |-> current_dir, cwd |-> cwd', listing |-> listing',
             owed |-> owed, lost |-> lost, gone |-> {}]
    BY <1>2, <1>4 DEF Now, memory
  <2>2. QED
    BY <1>1, <1>3, <2>1 DEF Now, Memories
<1>7. Shown(t) \subseteq Shown(Now) \cup {Local} /\ Settled(t)
  <2>1. Shown(t) \subseteq Shown(Now) \cup {current_dir}
    BY <1>3, <1>5, NowIs DEF Shown
  <2>2. current_dir \in Shown(t)
    BY <1>3, <1>5 DEF Shown
  <2>3. QED
    BY <1>1, <1>5, <2>1, <2>2, NowIs DEF Settled
<1>8. PICK need : need = InUse
  OBVIOUS
<1>9. need = InUse'
  BY <1>2, <1>8 DEF InUse, uses
<1>10. Sound(t, need, {})
  <2>1. PICK s : s = Now
    OBVIOUS
  <2>2. /\ Sound(s, need, {}) /\ t.loaded = s.loaded /\ t.fd = s.fd
        /\ t.stamps = s.stamps /\ Shown(t) \subseteq Shown(s) \cup {Local}
    BY <1>1, <1>5, <1>7, <1>8, <2>1, NowIs
  <2>3. QED
    BY <1>6, <2>2, Views
<1>11. Sound(Now, InUse, {})' /\ Settled(Now)'
  BY <1>4, <1>7, <1>9, <1>10
<1>12. Rest'
  BY <1>1, <1>2, <1>3 DEF Rest, memory, uses
<1>13. IInv'
  BY <1>11, <1>12, Whole, PTL
<1>14. QED
  BY <1>2, <1>13 DEF memory

\* The uses that handles h and local copies c come to.
UsesOf(h, c) == [a \in Archives |-> h[a] + IF a \in Tars THEN 0 ELSE c[a]]

\* The uses are counted in natural numbers.
LEMMA UsesNeeds ==
    ASSUME NEW h \in Needs, NEW c \in Needs
    PROVE  UsesOf(h, c) \in Needs
BY DEF UsesOf, Needs

\* One handle or one copy more.
LEMMA OneMore ==
    ASSUME NEW h \in Needs, NEW c \in Needs, NEW a \in Archives
    PROVE  /\ More(h, a) \in Needs /\ More(c, a) \in Needs
           /\ UsesOf(More(h, a), c) = More(UsesOf(h, c), a)
           /\ a \notin Tars => UsesOf(h, More(c, a)) = More(UsesOf(h, c), a)
           /\ a \in Tars => UsesOf(h, More(c, a)) = UsesOf(h, c)
<1>1. PICK need \in Needs : need = UsesOf(h, c)
  BY UsesNeeds
<1>2. \A b \in Archives : need[b] = h[b] + IF b \in Tars THEN 0 ELSE c[b]
  BY <1>1 DEF UsesOf
<1>3. \A b \in Archives : h[b] \in Nat /\ c[b] \in Nat
  BY DEF Needs
<1>4. /\ More(h, a) \in Needs /\ More(c, a) \in Needs /\ More(need, a) \in Needs
      /\ More(h, a)[a] = h[a] + 1 /\ More(c, a)[a] = c[a] + 1
      /\ More(need, a)[a] = need[a] + 1
      /\ \A b \in Archives : b # a => /\ More(h, a)[b] = h[b]
                                      /\ More(c, a)[b] = c[b]
                                      /\ More(need, a)[b] = need[b]
  BY MoreNeeds
<1>5. PICK m \in Needs : m = More(need, a)
  BY <1>4
<1>6. PICK hm \in Needs : hm = More(h, a)
  BY <1>4
<1>7. PICK cm \in Needs : cm = More(c, a)
  BY <1>4
<1>8. \A b \in Archives : m[b] = hm[b] + IF b \in Tars THEN 0 ELSE c[b]
  BY <1>2, <1>3, <1>4, <1>5, <1>6
<1>9. a \notin Tars =>
         \A b \in Archives : m[b] = h[b] + IF b \in Tars THEN 0 ELSE cm[b]
  BY <1>2, <1>3, <1>4, <1>5, <1>7
<1>10. a \in Tars =>
         \A b \in Archives : need[b] = h[b] + IF b \in Tars THEN 0 ELSE cm[b]
  BY <1>2, <1>3, <1>4, <1>7
<1>11. m = [b \in Archives |-> m[b]] /\ need = [b \in Archives |-> need[b]]
  BY DEF Needs
<1>12. UsesOf(hm, c) = m
  BY <1>8, <1>11 DEF UsesOf
<1>13. a \notin Tars => UsesOf(h, cm) = m
  BY <1>9, <1>11 DEF UsesOf
<1>14. a \in Tars => UsesOf(h, cm) = need
  BY <1>10, <1>11 DEF UsesOf
<1>15. QED
  BY <1>1, <1>4, <1>5, <1>6, <1>7, <1>12, <1>13, <1>14

\* What the model calls in use.
LEMMA InUseIs == InUse = UsesOf(handles, copies)
BY DEF InUse, UsesOf

\* mc_open, mc_getlocalcopy and calls that look a path up.
LEMMA OpenKeeps ==
    ASSUME IInv, NEW a \in Archives, NEW use \in Uses \cup {"stat"},
           Open(a, use)
    PROVE  IInv' /\ loaded \subseteq loaded'
<1>1. PICK o \in Outcomes(a) :
         /\ LET r == get_path_mangle(o.fate, Now, a)
                opened == r.ok /\ o.there /\ use # "stat"
                held == Hold(r.s, a)
            IN  /\ Becomes(IF ~opened THEN r.s
                           ELSE IF use = "copy" /\ a \in Tars
                           THEN Release(held, a) ELSE held)
                /\ handles' = IF opened /\ use = "handle"
                              THEN [handles EXCEPT ![a] = @ + 1] ELSE handles
                /\ copies' = IF opened /\ use = "copy"
                             THEN [copies EXCEPT ![a] = @ + 1] ELSE copies
                /\ Forgets(IF r.ok THEN {} ELSE NewlyLoaded)
         /\ UNCHANGED <<panels, changed, dangling>>
  BY DEF Open
<1>2. /\ Sound(Now, InUse, {}) /\ Settled(Now) /\ Rest
      /\ InUse \in Needs
  BY Parts
<1>3. PICK fate : fate = o.fate
  OBVIOUS
<1>4. PICK r : r = get_path_mangle(fate, Now, a)
  OBVIOUS
<1>5. PICK need \in Needs : need = InUse
  BY <1>2
<1>6. Mangled(fate, Now, r, need, a)
  <2>1. PICK s : s = Now
    OBVIOUS
  <2>2. Sound(s, need, {}) /\ r = get_path_mangle(fate, s, a) /\ a \in Places
    BY <1>2, <1>4, <1>5, <2>1 DEF Places
  <2>3. Mangled(fate, s, r, need, a)
    BY <2>2, Mangles
  <2>4. QED
    BY <2>1, <2>3
<1>7. PICK s : s = r.s
  OBVIOUS
<1>8. /\ Sound(s, need, {}) /\ loaded \subseteq s.loaded
      /\ s.current_dir = current_dir /\ s.cwd = cwd /\ s.listing = listing
      /\ r.ok => a \in s.loaded
  BY <1>6, <1>7, NowIs, Layout DEF Mangled, Led, Grows
<1>9. Settled(s)
  BY <1>2, <1>8, NowIs DEF Settled, Shown
<1>10. /\ UNCHANGED <<panels, changed, dangling>> /\ \E S : Forgets(S)
       /\ handles \in Needs /\ copies \in Needs
       /\ \A b \in Tars : copies[b] > 0 => b \in loaded
  BY <1>1, <1>2 DEF Rest
<1>11. PICK S : Forgets(S)
  BY <1>10
<1>12. /\ cwd' = cwd /\ listing' = listing /\ \E p \in Panels : listing'[p]
       /\ changed' \subseteq Archives /\ dangling' = FALSE
  BY <1>2, <1>10 DEF Rest, panels
<1>13. CASE ~(r.ok /\ o.there /\ use # "stat")
  <2>1. Becomes(s) /\ handles' = handles /\ copies' = copies
    BY <1>1, <1>3, <1>4, <1>7, <1>13
  <2>2. need = InUse'
    BY <1>5, <2>1 DEF InUse
  <2>3. handles' \in Needs /\ copies' \in Needs
        /\ \A b \in Tars : copies'[b] > 0 => b \in s.loaded
    BY <1>8, <1>10, <2>1
  <2>4. cwd' = s.cwd /\ listing' = s.listing
    BY <1>8, <1>12
  <2>5. IInv'
    BY <1>8, <1>9, <1>11, <1>12, <2>1, <2>2, <2>3, <2>4, Serves
  <2>6. QED
    BY <1>8, <2>1, <2>5 DEF Becomes
<1>14. CASE r.ok /\ o.there /\ use # "stat"
  <2>1. PICK held : held = Hold(s, a)
    OBVIOUS
  <2>2. Sound(held, More(need, a), {}) /\ Same(s, held)
    BY <1>8, <1>14, <2>1, Holds
  <2>3. CASE use = "copy" /\ a \in Tars
    <3>1. PICK t : t = Release(held, a)
      OBVIOUS
    <3>2. Becomes(t) /\ handles' = handles /\ copies' = More(copies, a)
      BY <1>1, <1>3, <1>4, <1>7, <1>14, <2>1, <2>3, <3>1 DEF More
    <3>3. Sound(t, need, {}) /\ Same(s, t)
      BY <1>8, <1>14, <2>1, <3>1, Glances
    <3>4. handles' \in Needs /\ copies' \in Needs /\ need = InUse'
      <4>1. /\ handles' \in Needs /\ copies' \in Needs
            /\ need = UsesOf(handles', copies')
        BY <1>5, <1>10, <2>3, <3>2, OneMore, InUseIs
      <4>2. QED
        BY <4>1 DEF InUse, UsesOf
    <3>5. \A b \in Tars : copies'[b] > 0 => b \in t.loaded
      <4>1. \A b \in Archives : b # a => copies'[b] = copies[b]
        BY <1>10, <3>2, MoreNeeds
      <4>2. QED
        BY <4>1, <1>8, <1>10, <1>14, <3>3, Layout DEF Same
    <3>6. cwd' = t.cwd /\ listing' = t.listing /\ Settled(t)
      BY <1>8, <1>9, <1>12, <3>3 DEF Same, Settled, Shown
    <3>7. IInv'
      BY <1>11, <1>12, <3>2, <3>3, <3>4, <3>5, <3>6, Serves
    <3>8. QED
      BY <1>8, <3>2, <3>3, <3>7 DEF Becomes, Same
  <2>4. CASE ~(use = "copy" /\ a \in Tars)
    <3>1. /\ Becomes(held)
          /\ \/ handles' = More(handles, a) /\ copies' = copies
             \/ /\ handles' = handles /\ copies' = More(copies, a)
                /\ a \notin Tars
      BY <1>1, <1>3, <1>4, <1>7, <1>14, <2>1, <2>4 DEF More, Uses
    <3>2. PICK m : m = More(need, a)
      OBVIOUS
    <3>3. handles' \in Needs /\ copies' \in Needs /\ m = UsesOf(handles', copies')
      BY <1>5, <1>10, <3>1, <3>2, OneMore, InUseIs
    <3>4. m = InUse'
      BY <3>3 DEF InUse, UsesOf
    <3>5. \A b \in Tars : copies'[b] > 0 => b \in held.loaded
      <4>1. \A b \in Archives : b # a => More(copies, a)[b] = copies[b]
        BY <1>10, MoreNeeds
      <4>2. QED
        BY <4>1, <1>8, <1>10, <1>14, <2>2, <3>1, Layout DEF Same
    <3>6. cwd' = held.cwd /\ listing' = held.listing /\ Settled(held)
      BY <1>8, <1>9, <1>12, <2>2 DEF Same, Settled, Shown
    <3>7. Sound(held, m, {})
      BY <2>2, <3>2
    <3>8. IInv'
      BY <1>11, <1>12, <3>1, <3>3, <3>4, <3>5, <3>6, <3>7, Serves
    <3>9. QED
      BY <1>8, <2>2, <3>1, <3>8 DEF Becomes, Same
  <2>5. QED
    BY <2>3, <2>4
<1>15. QED
  BY <1>13, <1>14

\* One handle or one copy less.
LEMMA OneLess ==
    ASSUME NEW h \in Needs, NEW a \in Archives, h[a] > 0
    PROVE  LET less == [h EXCEPT ![a] = @ - 1]
           IN  less \in Needs /\ h = More(less, a)
<1>1. PICK less : less = [h EXCEPT ![a] = h[a] - 1]
  OBVIOUS
<1>2. h[a] - 1 \in Nat
  BY DEF Needs
<1>3. /\ less \in Needs /\ less[a] = h[a] - 1
      /\ \A b \in Archives : b # a => less[b] = h[b]
  BY <1>1, <1>2 DEF Needs
<1>4. PICK m \in Needs : m = More(less, a)
  BY <1>3, MoreNeeds
<1>5. \A b \in Archives : m[b] = h[b]
  <2>1. less[a] + 1 = h[a]
    BY <1>3 DEF Needs
  <2>2. QED
    BY <1>3, <1>4, <2>1, MoreNeeds
<1>6. m = h
  BY <1>5 DEF Needs
<1>7. QED
  BY <1>1, <1>3, <1>4, <1>6

\* mc_close.
LEMMA CloseKeeps ==
    ASSUME IInv, NEW a \in Archives, Close(a)
    PROVE  IInv' /\ loaded \subseteq loaded'
<1>1. PICK wrote \in {FALSE, Writes} :
         /\ handles[a] > 0
         /\ handles' = [handles EXCEPT ![a] = @ - 1]
         /\ changed' = IF wrote /\ Outer[a] # Local THEN changed \cup {a}
                       ELSE changed
         /\ Becomes(Release(Now, a)) /\ Forgets({})
         /\ UNCHANGED <<panels, copies, dangling>>
  BY DEF Close
<1>2. Sound(Now, InUse, {}) /\ Settled(Now) /\ Rest
  BY Parts
<1>3. handles \in Needs /\ copies \in Needs /\ copies' = copies
  BY <1>1, <1>2 DEF Rest
<1>4. handles' \in Needs /\ handles = More(handles', a)
  BY <1>1, <1>3, OneLess
<1>5. PICK need \in Needs : need = UsesOf(handles', copies')
  BY <1>3, <1>4, UsesNeeds
<1>6. need = InUse'
  BY <1>5 DEF InUse, UsesOf
<1>7. InUse = More(need, a)
  BY <1>3, <1>4, <1>5, OneMore, InUseIs
<1>8. PICK s : s = Release(Now, a)
  OBVIOUS
<1>9. Sound(s, need, {}) /\ Same(Now, s)
  BY <1>2, <1>7, <1>8, Releases
<1>10. /\ s.loaded = loaded /\ s.cwd = cwd /\ s.listing = listing /\ Settled(s)
  BY <1>2, <1>9, NowIs DEF Same, Settled, Shown
<1>11. /\ cwd' = s.cwd /\ listing' = s.listing /\ \E p \in Panels : listing'[p]
       /\ copies' \in Needs /\ changed' \subseteq Archives /\ dangling' = FALSE
       /\ \A b \in Tars : copies'[b] > 0 => b \in s.loaded
  BY <1>1, <1>2, <1>3, <1>10 DEF Rest, panels
<1>12. Becomes(s) /\ Forgets({})
  BY <1>1, <1>8
<1>13. IInv'
  BY <1>4, <1>6, <1>9, <1>10, <1>11, <1>12, Serves
<1>14. QED
  BY <1>10, <1>12, <1>13 DEF Becomes

\* mc_ungetlocalcopy.
LEMMA UngetKeeps ==
    ASSUME IInv, NEW a \in Archives, Unget(a)
    PROVE  IInv' /\ loaded \subseteq loaded'
<1>1. PICK has_changed \in {FALSE, Writes}, opens \in BOOLEAN :
         /\ copies[a] > 0
         /\ copies' = [copies EXCEPT ![a] = @ - 1]
         /\ IF a \in Tars THEN UNCHANGED memory
            ELSE Becomes(extfs_ungetlocalcopy(Now, a, has_changed, opens))
         /\ Forgets(IF opens THEN {} ELSE {a})
         /\ UNCHANGED <<panels, handles, changed, dangling>>
  BY DEF Unget
<1>2. Sound(Now, InUse, {}) /\ Settled(Now) /\ Rest
  BY Parts
<1>3. handles \in Needs /\ copies \in Needs /\ handles' = handles
  BY <1>1, <1>2 DEF Rest
<1>4. copies' \in Needs /\ copies = More(copies', a)
  BY <1>1, <1>3, OneLess
<1>5. PICK need \in Needs : need = UsesOf(handles', copies')
  BY <1>3, <1>4, UsesNeeds
<1>6. need = InUse'
  BY <1>5 DEF InUse, UsesOf
<1>7. has_changed \in BOOLEAN
  BY ArchiveAssumption
<1>8. PICK s : s = IF a \in Tars THEN Now
                   ELSE extfs_ungetlocalcopy(Now, a, has_changed, opens)
  OBVIOUS
<1>9. Sound(s, need, {}) /\ Same(Now, s)
  <2>1. CASE a \in Tars
    <3>1. InUse = need
      BY <1>3, <1>4, <1>5, <2>1, OneMore, InUseIs
    <3>2. QED
      BY <1>2, <1>8, <2>1, <3>1 DEF Same
  <2>2. CASE a \notin Tars
    <3>1. InUse = More(need, a)
      BY <1>3, <1>4, <1>5, <2>2, OneMore, InUseIs
    <3>2. PICK n : n = Now
      OBVIOUS
    <3>3. Sound(n, More(need, a), {})
      BY <1>2, <3>1, <3>2
    <3>4. s = extfs_ungetlocalcopy(n, a, has_changed, opens)
      BY <1>8, <2>2, <3>2
    <3>5. Sound(s, need, {}) /\ Same(n, s)
      BY <1>7, <3>3, <3>4, Ungets, Zenon
    <3>6. QED
      BY <3>2, <3>5
  <2>3. QED
    BY <2>1, <2>2
<1>10. /\ s.loaded = loaded /\ s.cwd = cwd /\ s.listing = listing /\ Settled(s)
  BY <1>2, <1>9, NowIs DEF Same, Settled, Shown
<1>11. Becomes(s) /\ \E S : Forgets(S)
  <2>1. CASE a \in Tars
    BY <1>1, <1>8, <2>1, NowIs DEF Becomes, memory
  <2>2. CASE a \notin Tars
    BY <1>1, <1>8, <2>2
  <2>3. QED
    BY <2>1, <2>2
<1>12. PICK S : Forgets(S)
  BY <1>11
<1>13. \A b \in Tars : copies'[b] > 0 => b \in s.loaded
  <2>1. \A b \in Archives : copies'[b] > 0 => copies[b] > 0
    <3>1. \A b \in Archives : b # a => copies'[b] = copies[b]
      BY <1>1, <1>3 DEF Needs
    <3>2. QED
      BY <3>1, <1>1
  <2>2. QED
    BY <1>2, <1>10, <2>1, Layout DEF Rest
<1>14. /\ cwd' = s.cwd /\ listing' = s.listing /\ \E p \in Panels : listing'[p]
       /\ handles' \in Needs /\ changed' \subseteq Archives /\ dangling' = FALSE
  BY <1>1, <1>2, <1>3, <1>10 DEF Rest, panels
<1>15. IInv'
  BY <1>4, <1>6, <1>9, <1>10, <1>11, <1>12, <1>13, <1>14, Serves
<1>16. QED
  BY <1>10, <1>11, <1>15 DEF Becomes

\* Stamps grow old.
LEMMA TimePassesKeeps ==
    ASSUME IInv, TimePasses
    PROVE  IInv' /\ loaded \subseteq loaded'
<1>1. /\ Sound(Now, InUse, {}) /\ Settled(Now) /\ Rest /\ Now \in Memories
  BY Parts
<1>2. /\ stamps' = [i \in DOMAIN stamps |-> [stamps[i] EXCEPT !.old = TRUE]]
      /\ UNCHANGED <<loaded, fd_usage, current_dir, owed, lost, panels, uses,
                     left_behind, dangling>>
  BY DEF TimePasses
<1>3. stamps \in Seq(Stamps) /\ Distinct(stamps) /\ DOMAIN stamps = 1..Len(stamps)
      /\ Len(stamps) \in Nat
  BY <1>1, NowIs DEF Sound, Memories, Listed
<1>4. ASSUME NEW i \in 1..Len(stamps)
      PROVE  stamps'[i] \in Stamps /\ stamps'[i].id = stamps[i].id
  <2>1. PICK x \in Stamps : x = stamps[i]
    BY <1>3
  <2>2. stamps'[i] = [x EXCEPT !.old = TRUE]
    BY <1>2, <1>3, <2>1
  <2>3. QED
    BY <2>1, <2>2 DEF Stamps
<1>5. PICK w : w = stamps'
  OBVIOUS
<1>6. w = [i \in 1..Len(stamps) |-> w[i]]
  BY <1>2, <1>3, <1>5
<1>7. w \in Seq(Stamps) /\ Len(w) = Len(stamps)
  BY <1>3, <1>4, <1>5, <1>6
<1>8. Distinct(w)
  BY <1>3, <1>4, <1>5, <1>7 DEF Distinct
<1>9. PICK t : t = Now'
  OBVIOUS
<1>10. t = [loaded |-> loaded, fd |-> fd_usage, stamps |-> w,
            current_dir |-> current_dir, cwd |-> cwd, listing |-> listing,
            owed |-> owed, lost |-> lost, gone |-> {}]
  BY <1>2, <1>5, <1>9 DEF Now, panels
<1>11. /\ t \in Memories /\ t.stamps = w /\ Keeps(Now, t)
  BY <1>1, <1>7, <1>10 DEF Now, Memories, Keeps
<1>12. \A i \in 1..Len(w) : Stamped(Now, w[i].id)
  BY <1>4, <1>5, <1>7, NowIs DEF Stamped
<1>13. PICK need : need = InUse
  OBVIOUS
<1>14. need = InUse'
  BY <1>2, <1>13 DEF InUse, uses
<1>15. Sound(t, need, {}) /\ Settled(t)
  <2>1. PICK s : s = Now
    OBVIOUS
  <2>2. /\ Sound(s, need, {}) /\ Keeps(s, t) /\ Distinct(t.stamps)
        /\ \A i \in 1..Len(t.stamps) : Stamped(s, t.stamps[i].id)
    BY <1>1, <1>8, <1>11, <1>12, <1>13, <2>1
  <2>3. Sound(t, need, {})
    BY <1>11, <2>2, Restamped
  <2>4. Settled(t)
    BY <1>1, <2>1, <2>2 DEF Settled, Shown, Keeps
  <2>5. QED
    BY <2>3, <2>4
<1>16. Sound(Now, InUse, {})' /\ Settled(Now)'
  BY <1>9, <1>14, <1>15
<1>17. Rest'
  BY <1>1, <1>2 DEF Rest, panels, uses
<1>18. IInv'
  BY <1>16, <1>17, Whole, PTL
<1>19. QED
  BY <1>2, <1>18

\* vfs_timeout_handler keeps the invariant and the panels.
LEMMA HandlerKeeps ==
    ASSUME IInv, vfs_timeout_handler
    PROVE  IInv' /\ UNCHANGED panels
<1>1. PICK opens \in BOOLEAN :
         LET swept[i \in 0..Len(stamps)] ==
                 IF i = 0 THEN [s |-> Now, dangling |-> FALSE]
                 ELSE SweepOne(opens, swept[i - 1], i)
             r == swept[Len(stamps)]
         IN  /\ Becomes(r.s) /\ dangling' = (dangling \/ r.dangling)
             /\ changed' = changed \cap r.s.loaded
             /\ Forgets(IF opens THEN {} ELSE {Outer[a] : a \in loaded \ loaded'})
             /\ UNCHANGED <<panels, handles, copies>>
  BY DEF vfs_timeout_handler
<1>2. PICK r : r = SweepFrom(opens)
  OBVIOUS
<1>3. /\ Becomes(r.s) /\ dangling' = (dangling \/ r.dangling)
      /\ changed' = changed \cap r.s.loaded /\ (\E S : Forgets(S))
      /\ UNCHANGED <<panels, handles, copies>>
  BY <1>1, <1>2 DEF SweepFrom
<1>4. /\ Sound(Now, InUse, {}) /\ Settled(Now) /\ Rest /\ InUse \in Needs
  BY Parts
<1>5. PICK need \in Needs : need = InUse
  BY <1>4
<1>6. Swept(Now, r.s, need) /\ r.dangling = FALSE
  BY <1>2, <1>4, <1>5, Sweeps
<1>7. PICK s : s = r.s
  OBVIOUS
<1>8. /\ Sound(s, need, {}) /\ Settled(s) /\ s.cwd = cwd /\ s.listing = listing
      /\ loaded \cap Tars \subseteq s.loaded
  BY <1>6, <1>7, NowIs DEF Swept
<1>9. need = InUse'
  BY <1>3, <1>5 DEF InUse
<1>10. PICK S : Forgets(S)
  BY <1>3
<1>11. /\ Becomes(s) /\ cwd' = s.cwd /\ listing' = s.listing
       /\ \E p \in Panels : listing'[p]
       /\ handles' \in Needs /\ copies' \in Needs /\ changed' \subseteq Archives
       /\ dangling' = FALSE /\ \A a \in Tars : copies'[a] > 0 => a \in s.loaded
  BY <1>3, <1>4, <1>6, <1>7, <1>8 DEF Rest, panels
<1>12. IInv'
  BY <1>8, <1>9, <1>10, <1>11, Serves
<1>13. QED
  BY <1>3, <1>12

\* Every step keeps the invariant; one that frees is not a panel's.
LEMMA StepKeeps ==
    ASSUME IInv, [Next]_vars
    PROVE  IInv' /\ (loaded \subseteq loaded' \/ UNCHANGED panels)
<1>1. CASE UNCHANGED vars
  <2>1. UNCHANGED <<loaded, panels>>
    BY <1>1 DEF vars, memory
  <2>2. Now' = Now /\ InUse' = InUse /\ Rest' = Rest
    BY <1>1 DEF vars, memory, panels, uses, Now, InUse, Rest
  <2>3. Sound(Now, InUse, {})' /\ Settled(Now)'
    <3>1. PICK t : t = Now /\ t = Now'
      BY <2>2
    <3>2. PICK need : need = InUse /\ need = InUse'
      BY <2>2
    <3>3. Sound(t, need, {}) /\ Settled(t)
      BY <3>1, <3>2, Parts
    <3>4. QED
      BY <3>1, <3>2, <3>3
  <2>4. Rest'
    BY <2>2, Parts
  <2>5. IInv'
    BY <2>3, <2>4, Whole, PTL
  <2>6. QED
    BY <2>1, <2>5
<1>2. ASSUME NEW p \in Panels, NEW d \in Places, DoCd(p, d)
      PROVE  IInv' /\ loaded \subseteq loaded'
  BY <1>2, DoCdKeeps
<1>3. ASSUME NEW d \in Places, Chdir(d)
      PROVE  IInv' /\ loaded \subseteq loaded'
  BY <1>3, ChdirKeeps
<1>4. ASSUME NEW p \in Panels, PanelReload(p)
      PROVE  IInv' /\ loaded \subseteq loaded'
  BY <1>4, PanelReloadKeeps
<1>5. ASSUME NEW p \in Panels, ClosePanel(p) \/ NewPanel(p)
      PROVE  IInv' /\ loaded \subseteq loaded'
  BY <1>5, PanelsKeep
<1>6. ASSUME NEW a \in Archives, NEW use \in Uses \cup {"stat"}, Open(a, use)
      PROVE  IInv' /\ loaded \subseteq loaded'
  BY <1>6, OpenKeeps
<1>7. ASSUME NEW a \in Archives, Close(a)
      PROVE  IInv' /\ loaded \subseteq loaded'
  BY <1>7, CloseKeeps
<1>8. ASSUME NEW a \in Archives, Unget(a)
      PROVE  IInv' /\ loaded \subseteq loaded'
  BY <1>8, UngetKeeps
<1>9. CASE TimePasses
  BY <1>9, TimePassesKeeps
<1>10. CASE vfs_timeout_handler
  BY <1>10, HandlerKeeps
<1>11. QED
  BY <1>1, <1>2, <1>3, <1>4, <1>5, <1>6, <1>7, <1>8, <1>9, <1>10 DEF Next, User

\* The invariant holds in every state.
LEMMA Inductive == Spec => []IInv
<1>1. Init => IInv
  BY InitSound
<1>2. IInv /\ [Next]_vars => IInv'
  BY StepKeeps
<1>3. QED
  BY <1>1, <1>2, PTL DEF Spec

-----------------------------------------------------------------------------
(* The properties.                                                          *)

\* What Needed counts.
LEMMA NeededIs ==
    ASSUME IInv, NEW a \in Archives
    PROVE  /\ handles[a] \in Nat /\ copies[a] \in Nat
           /\ Nested(a) = Inside(Now, a) /\ Cardinality(Nested(a)) \in Nat
           /\ Nested(a) # {} <=> Cardinality(Nested(a)) > 0
           /\ InUse[a] = handles[a] + IF a \in Tars THEN 0 ELSE copies[a]
<1>1. Rest /\ loaded \subseteq Archives
  BY Parts
<1>2. Nested(a) = Inside(Now, a)
  BY NowIs DEF Nested, Inside
<1>3. /\ IsFiniteSet(Inside(Now, a)) /\ Cardinality(Inside(Now, a)) \in Nat
      /\ Inside(Now, a) # {} => Cardinality(Inside(Now, a)) > 0
  BY <1>1, NowIs, InsideFinite
<1>4. Cardinality(Inside(Now, a)) > 0 => Inside(Now, a) # {}
  BY <1>3, FS_EmptySet
<1>5. handles[a] \in Nat /\ copies[a] \in Nat
  BY <1>1 DEF Rest, Needs
<1>6. QED
  BY <1>2, <1>3, <1>4, <1>5 DEF InUse

\* The types hold, fd_usage is never below the number of uses, and stamps are
\* for loaded archives with nothing open: for every nesting of archives, any
\* number of handles and copies, and whatever of the gets and ungets fails.
THEOREM CountsRight == Spec => []Consistent
<1>1. IInv => Consistent
  <2>1. SUFFICES ASSUME IInv PROVE UsageCounted /\ StampsIdle
    BY DEF Consistent, IInv
  <2>2. Sound(Now, InUse, {})
    BY <2>1, Parts
  <2>3. UsageCounted
    <3>1. SUFFICES ASSUME NEW a \in Archives \ Tars
                   PROVE  fd_usage[a] >= Needed(a)
      BY DEF UsageCounted
    <3>2. fd_usage[a] >= InUse[a] + Cardinality(Inside(Now, a))
      BY <2>2, NowIs DEF Sound, Counted
    <3>3. Needed(a) = InUse[a] + Cardinality(Inside(Now, a))
      BY <2>1, NeededIs DEF Needed
    <3>4. QED
      BY <3>2, <3>3
  <2>4. StampsIdle
    BY <2>2, NowIs DEF Sound, Listed, Distinct, StampsIdle
  <2>5. QED
    BY <2>3, <2>4
<1>2. QED
  BY <1>1, Inductive, PTL

\* No archive is freed while a file in it is open, a local copy of one is lent
\* or an archive inside it needs it.
THEOREM UsedStay == Spec => []InUseStays
<1>1. IInv => InUseStays
  <2>1. SUFFICES ASSUME IInv, NEW a \in Archives, Needed(a) > 0
                 PROVE  a \in loaded
    BY DEF InUseStays
  <2>2. /\ Sound(Now, InUse, {}) /\ Rest
    BY <2>1, Parts
  <2>3. /\ handles[a] \in Nat /\ copies[a] \in Nat
        /\ Cardinality(Nested(a)) \in Nat
        /\ Nested(a) # {} <=> Cardinality(Nested(a)) > 0
        /\ InUse[a] = handles[a] + IF a \in Tars THEN 0 ELSE copies[a]
    BY <2>1, NeededIs
  <2>4. handles[a] > 0 \/ copies[a] > 0 \/ Nested(a) # {}
    BY <2>1, <2>3 DEF Needed
  <2>5. InUse[a] > 0 => a \in loaded
    BY <2>2, NowIs DEF Sound, Counted
  <2>6. CASE handles[a] > 0
    BY <2>3, <2>5, <2>6
  <2>7. CASE copies[a] > 0
    BY <2>2, <2>3, <2>5, <2>7 DEF Rest
  <2>8. CASE Nested(a) # {}
    <3>1. PICK b \in loaded : Outer[b] = a
      BY <2>8 DEF Nested
    <3>2. QED
      BY <3>1, <2>2, NowIs, Layout DEF Sound, Rooted
  <2>9. QED
    BY <2>4, <2>6, <2>7, <2>8
<1>2. QED
  BY <1>1, Inductive, PTL

\* The loop of vfs_timeout_handler never goes on from a freed stamp: freeing an
\* archive gives back what it used of the one around it, which has no stamp.
THEOREM SweepStaysOnList == Spec => []SweepSafe
<1>1. IInv => SweepSafe
  BY DEF IInv, SweepSafe
<1>2. QED
  BY <1>1, Inductive, PTL

\* No step frees an archive that a panel shows, or one around it.
THEOREM ShownStay == Spec => CurrentStays
<1>1. IInv /\ [Next]_vars =>
         [\A a \in loaded \ loaded', p \in Panels :
             listing[p] => a \notin Ids(Now, cwd[p])]_vars
  <2>1. SUFFICES ASSUME IInv, [Next]_vars, NEW a \in loaded \ loaded',
                        NEW p \in Panels, listing[p], a \in Ids(Now, cwd[p])
                 PROVE  FALSE
    OBVIOUS
  <2>2. IInv' /\ UNCHANGED panels
    BY <2>1, StepKeeps
  <2>3. PICK t : t = Now'
    OBVIOUS
  <2>4. Sound(Now, InUse, {})'
    BY <2>2 DEF IInv
  <2>5. PICK need : need = InUse'
    OBVIOUS
  <2>6. Sound(t, need, {})
    BY <2>3, <2>4, <2>5
  <2>7. t.loaded = loaded' /\ t.cwd = cwd /\ t.listing = listing
    BY <2>2, <2>3 DEF Now, panels
  <2>8. PICK d : d = cwd[p]
    OBVIOUS
  <2>9. d \in loaded /\ a \in Range(Path[d])
    BY <2>1, <2>8, NowIs DEF Ids
  <2>10. d \in Shown(t) /\ d \in Archives
    BY <2>1, <2>7, <2>8, <2>9, Parts DEF Shown
  <2>11. d \in t.loaded /\ Rooted(t) /\ t.loaded \subseteq Archives
    BY <2>6, <2>10, Layout DEF Sound, Memories
  <2>12. PICK i \in 1..Len(Path[d]) : a = Path[d][i]
    <3>1. PICK q \in Seq(Archives) : q = Path[d]
      BY <2>10, PathSteps
    <3>2. DOMAIN q = 1..Len(q)
      BY <3>1
    <3>3. QED
      BY <2>9, <3>1, <3>2 DEF Range
  <2>13. a \in t.loaded
    BY <2>11, <2>12, PathLoaded
  <2>14. QED
    BY <2>7, <2>13
<1>2. QED
  BY <1>1, Inductive, PTL DEF Spec, CurrentStays
=============================================================================
