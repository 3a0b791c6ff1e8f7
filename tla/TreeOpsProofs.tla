---------------------------- MODULE TreeOpsProofs ----------------------------
(***************************************************************************)
(* What copying, moving and deleting of trees keeps and stops at, for      *)
(* every tree, whatever calls fail and whatever is answered.               *)
(***************************************************************************)
EXTENDS TreeOps, SequenceTheorems, WellFoundedInduction, TLAPS

DeletePCs == {"erase_dir", "query", "erase_loop", "recursive_rmdir", "rmdir"}
DirPCs == {"copy_dir", "mkdir", "opendir"}
CopyPCs == DirPCs \cup {"copy_loop", "copy_file", "copied_entry"}
MovePCs == {"move_dir", "move_dir_stat", "rename"}
ListPCs == {"erase_list", "erased", "erase_iff_empty", "rmdir_iff_empty"}
FilePCs == {"erase_file", "unlink"}
LoopPCs == {"erase_loop", "recursive_rmdir", "copy_loop", "copied_entry"}
RestPCs == {"next", "returned", "done"}

\* Which call runs in which operation, and where.
Calls ==
    /\ pc \in DeletePCs => job = "delete"
    /\ pc \in CopyPCs => job # "delete"
    /\ pc \in MovePCs \cup ListPCs \cup {"move_file", "moved"} => job = "move"
    /\ pc \in FilePCs => job # "copy"
    /\ pc = "copy_file" /\ stack = <<>> => job = "copy"
    /\ stack # <<>> => \/ pc \in CopyPCs \cup {"erase_loop", "recursive_rmdir"}
                       \/ pc \in FilePCs /\ job = "delete"
    /\ pc \in LoopPCs => stack # <<>>

\* What a call has been given.
Arguments ==
    /\ pc \notin {"next", "done"} => cur # 0
    /\ cur # 0 => arg \in Nodes /\ cur \in Path[arg]
    /\ pc \in FilePCs \cup {"copy_file", "move_file"} => arg \notin Dirs
    /\ pc \in DirPCs \cup MovePCs \cup {"erase_dir", "query", "rmdir"}
          => arg \in Dirs
    /\ \/ pc \in MovePCs \cup ListPCs \cup {"moved"}
       \/ pc \in FilePCs /\ job = "move"
       => cur \in Dirs
    /\ pc \in MovePCs \cup {"move_file", "erase_dir", "query", "rmdir"}
          => arg = cur
    /\ stack = <<>> /\ pc \in DirPCs \cup {"copy_file"} => arg = cur
    /\ stack # <<>> /\ pc \in DirPCs \cup {"copy_file", "copied_entry"} =>
          Parent[arg] = Frame.dir /\ arg \notin Frame.left
    /\ job = "move" /\ pc \in FilePCs \cup {"erased"} =>
          erase_list # <<>> /\ arg = Head(erase_list)
    /\ pc \in {"erase_iff_empty", "rmdir_iff_empty"} =>
          arg = cur \/ (erase_list # <<>> /\ arg = Head(erase_list))

\* The frames are the directories from the tagged one down, each entered from
\* the one before.
Chain(s, c) ==
    /\ s # <<>> => s[1].dir = c
    /\ \A k \in 1..Len(s) :
        /\ c \in Path[s[k].dir]
        /\ s[k].left \subseteq Children(s[k].dir, Nodes)
        /\ \A x \in Path[s[k].dir] : \E j \in 1..k : x = s[j].dir
        /\ \A j \in 1..(k - 1) : s[j].dir < s[k].dir
    /\ \A k \in 1..(Len(s) - 1) :
        /\ Parent[s[k + 1].dir] = s[k].dir
        /\ s[k + 1].dir \notin s[k].left
Frames ==
    /\ Chain(stack, cur)
    /\ job # "delete" => \A k \in 1..Len(stack) : stack[k].left \subseteq src

\* What is in a directory is gone before the directory is.
SrcClosed == \A n \in src : Parent[n] # 0 => Parent[n] \in src

\* Nothing has been done to a tagged entry before its turn, and at the
\* beginning of it.
Starting == \/ pc \in MovePCs \cup {"move_file", "erase_dir", "query"}
            \/ stack = <<>> /\ pc \in DirPCs \cup {"copy_file"}
Untouched ==
    \A t \in Top : t > cur \/ (t = cur /\ Starting) =>
        \A n \in Nodes : t \in Path[n] => n \in src \ skipped

\* The entries still to come are not above anything that was copied or
\* skipped.
Dealt == {erase_list[i] : i \in 1..Len(erase_list)} \cup skipped
Ahead ==
    \A x \in Dealt :
        /\ \A k \in 1..Len(stack) : \A m \in stack[k].left : m \notin Path[x]
        /\ pc \in DirPCs \cup {"copy_file"} => arg \notin Path[x]

\* What is copied so far.
Copied ==
    /\ job # "move" => erase_list = <<>>
    /\ job = "delete" => skipped = {}
    /\ erase_list # <<>> => \/ stack # <<>> /\ pc \in CopyPCs
                            \/ pc \in ListPCs \cup FilePCs \cup {"moved"}
    /\ skipped \cap Dirs = {}
    /\ job # "delete" => \A k \in 1..Len(stack) :
          /\ stack[k].dir \in dst \cup taken
          /\ \A i \in 1..Len(erase_list) : erase_list[i] # stack[k].dir
    /\ pc = "copied_entry" =>
          /\ \A i \in 1..Len(erase_list) : erase_list[i] # arg
          /\ status = "cont" => arg \in (dst \cup taken) \ skipped
    /\ job = "move" /\ pc \in ListPCs \cup FilePCs => cur \in dst \cup taken
    /\ pc = "moved" /\ status = "cont" => cur \in dst \cup taken

\* Plain files at the target: nothing is made below one, and no directory is
\* renamed when there is one below its name.
Blocked ==
    /\ TakenOK
    /\ \A n \in Nodes : Parent[n] \in taken => n \notin dst
    /\ pc = "opendir" => Parent[arg] \notin taken
    /\ pc = "rename" => \A n \in taken : n = cur \/ cur \notin Path[n]

\* What a move has left at the source.
Kept ==
    /\ job = "move" => skipped \subseteq src
    /\ job # "delete" => \A k \in 1..Len(stack) : stack[k].dir \in src
    /\ pc \in CopyPCs \ {"copy_loop"} => arg \in src
    /\ \A i \in 1..Len(erase_list) :
          i > 1 \/ pc # "erased" => erase_list[i] \in src

\* The directories that the user would not have deleted.
Refused ==
    /\ refused # {} => job = "delete"
    /\ \A d \in refused : /\ d \in Top /\ d <= cur
                          /\ d = cur => pc \in RestPCs
                          /\ Subtree(d) \subseteq src

\* After Abort every call returns.
Stopping ==
    /\ \A t \in aborted : t <= cur
    /\ cur \in aborted =>
        \/ pc \in RestPCs
        \/ pc = "erase_loop" /\ status # "cont"
        \/ pc \in {"copied_entry", "copy_loop", "moved"} /\ status = "abort"
        \/ /\ pc \in {"erase_list", "erased", "erase_iff_empty"}
           /\ pc = "erase_iff_empty" => arg = cur
           /\ status = "abort" /\ Children(cur, src) # {}

-----------------------------------------------------------------------------
(* The stack and the list.                                                  *)

Frm == [dir : Dirs, left : SUBSET Nodes]

\* Leaving a directory takes the last frame off.
LEMMA Popped ==
    ASSUME NEW s \in Seq(Frm), s # <<>>,
           NEW p, p = SubSeq(s, 1, Len(s) - 1)
    PROVE  /\ p \in Seq(Frm) /\ Len(p) = Len(s) - 1
           /\ \A k \in 1..Len(p) : p[k] = s[k]
           /\ p = <<>> <=> ~(Len(s) > 1)
<1>1. Len(s) \in Nat /\ Len(s) > 0
  BY EmptySeq
<1>2. \A i \in 1..(Len(s) - 1) : s[i] \in Frm
  BY <1>1, ElementOfSeq
<1>3. /\ p \in Seq(Frm) /\ Len(p) = Len(s) - 1
      /\ \A k \in 1..Len(p) : p[k] = s[k]
  <2>1. 1 \in Int /\ Len(s) - 1 \in Int
    BY <1>1
  <2>2. /\ p \in Seq(Frm)
        /\ Len(p) = IF 1 <= Len(s) - 1 THEN (Len(s) - 1) - 1 + 1 ELSE 0
        /\ \A i \in 1..((Len(s) - 1) - 1 + 1) : p[i] = s[1 + i - 1]
    BY <1>2, <2>1, SubSeqProperties
  <2>3. Len(p) = Len(s) - 1
    <3>1. \A a \in Nat : \A l :
             a > 0 /\ l = (IF 1 <= a - 1 THEN (a - 1) - 1 + 1 ELSE 0)
             => l = a - 1
      OBVIOUS
    <3>2. QED
      BY <1>1, <2>2, <3>1, Zenon
  <2>4. ASSUME NEW k \in 1..Len(p) PROVE p[k] = s[k]
    <3>1. k \in 1..((Len(s) - 1) - 1 + 1) /\ 1 + k - 1 = k
      BY <1>1, <2>3
    <3>2. QED
      BY <2>2, <3>1
  <2>5. QED
    BY <2>2, <2>3, <2>4
<1>4. p = <<>> <=> ~(Len(s) > 1)
  <2>1. p # <<>> => Len(p) # 0
    BY <1>3, EmptySeq
  <2>2. p = <<>> => Len(p) = 0
    OBVIOUS
  <2>3. QED
    BY <1>1, <1>3, <2>1, <2>2
<1>5. QED
  BY <1>3, <1>4

\* An entry is taken from what is left of the last directory.
LEMMA Taken ==
    ASSUME NEW s \in Seq(Frm), s # <<>>, NEW n,
           NEW t, t = [s EXCEPT ![Len(s)].left = @ \ {n}]
    PROVE  /\ t \in Seq(Frm) /\ Len(t) = Len(s) /\ t # <<>>
           /\ \A k \in 1..Len(s) :
                /\ t[k].dir = s[k].dir
                /\ t[k].left = IF k = Len(s) THEN s[k].left \ {n}
                                             ELSE s[k].left
<1>1. Len(s) \in Nat /\ Len(s) > 0
  BY EmptySeq
<1>2. s[Len(s)] \in Frm
  BY <1>1, ElementOfSeq
<1> DEFINE f == [s[Len(s)] EXCEPT !.left = @ \ {n}]
<1>3. f \in Frm /\ f.dir = s[Len(s)].dir /\ f.left = s[Len(s)].left \ {n}
  BY <1>2 DEF Frm
<1>4. t = [s EXCEPT ![Len(s)] = f]
  OBVIOUS
<1>5. t \in Seq(Frm) /\ Len(t) = Len(s)
  BY <1>1, <1>3, <1>4, ExceptSeq
<1>6. \A k \in 1..Len(s) : t[k] = IF k = Len(s) THEN f ELSE s[k]
  BY <1>1, <1>3, <1>4, ExceptSeq
<1>7. t # <<>>
  BY <1>1, <1>5, EmptySeq
<1>8. QED
  <2> HIDE DEF f
  <2>1. ASSUME NEW k \in 1..Len(s)
        PROVE  /\ t[k].dir = s[k].dir
               /\ t[k].left = IF k = Len(s) THEN s[k].left \ {n}
                                           ELSE s[k].left
    <3>1. CASE k = Len(s)
      BY <1>3, <1>6, <3>1
    <3>2. CASE k # Len(s)
      BY <1>6, <3>2
    <3>3. QED
      BY <3>1, <3>2
  <2>2. QED
    BY <1>5, <1>7, <2>1

\* Entering a directory puts a frame on.
LEMMA Pushed ==
    ASSUME NEW s \in Seq(Frm), NEW d \in Dirs, NEW S \in SUBSET Nodes,
           NEW t, t = Append(s, [dir |-> d, left |-> S])
    PROVE  /\ t \in Seq(Frm) /\ Len(t) = Len(s) + 1 /\ t # <<>>
           /\ \A k \in 1..Len(s) : t[k] = s[k]
           /\ t[Len(t)].dir = d /\ t[Len(t)].left = S
<1> DEFINE f == [dir |-> d, left |-> S]
<1>1. f \in Frm /\ f.dir = d /\ f.left = S
  BY DEF Frm
<1>2. /\ t \in Seq(Frm) /\ Len(t) = Len(s) + 1
      /\ \A k \in 1..Len(s) : t[k] = s[k]
      /\ t[Len(s) + 1] = f
  BY <1>1, AppendProperties
<1>3. t # <<>>
  BY <1>2, EmptySeq
<1>4. QED
  BY <1>1, <1>2, <1>3

\* A node is noted down at the end of the list.
LEMMA Listed ==
    ASSUME NEW s \in Seq(Nodes), NEW n \in Nodes, NEW t, t = Append(s, n)
    PROVE  /\ t \in Seq(Nodes) /\ Len(t) = Len(s) + 1 /\ t # <<>>
           /\ \A i \in 1..Len(s) : t[i] = s[i]
           /\ t[Len(s) + 1] = n
<1>1. /\ t \in Seq(Nodes) /\ Len(t) = Len(s) + 1
      /\ \A i \in 1..Len(s) : t[i] = s[i]
      /\ t[Len(s) + 1] = n
  BY AppendProperties
<1>2. QED
  BY <1>1, EmptySeq

\* The first node of the list is done with.
LEMMA Shorter ==
    ASSUME NEW s \in Seq(Nodes), s # <<>>, NEW t, t = Tail(s)
    PROVE  /\ Head(s) = s[1] /\ Head(s) \in Nodes /\ 1 \in 1..Len(s)
           /\ t \in Seq(Nodes) /\ Len(t) = Len(s) - 1
           /\ \A i \in 1..Len(t) : t[i] = s[i + 1] /\ i + 1 \in 1..Len(s)
<1>1. Len(s) \in Nat /\ Len(s) > 0
  BY EmptySeq
<1>2. /\ Head(s) = s[1] /\ Head(s) \in Nodes
      /\ t \in Seq(Nodes) /\ Len(t) = Len(s) - 1
  BY HeadTailProperties
<1>3. \A i \in 1..Len(t) : t[i] = s[i + 1]
  BY HeadTailProperties
<1>4. QED
  BY <1>1, <1>2, <1>3

\* The types, in parts.
ModesOK ==
    /\ dive_into_subdirs \in BOOLEAN
    /\ job \in {"copy", "move", "delete"}
    /\ pc \in PCs /\ status \in Status
    /\ recursive_result \in Answers
    /\ budget \in 0..MaxRetry
NodesOK ==
    /\ src \subseteq Nodes /\ dst \subseteq Nodes
    /\ obstacle \in [Top -> Obstacles] /\ taken \subseteq Dirs
    /\ tagged \subseteq Top /\ aborted \subseteq Top
    /\ cur \in Top \cup {0} /\ arg \in Nodes \cup {0}
    /\ refused \subseteq Dirs /\ skipped \subseteq Nodes
SeqsOK == stack \in Seq(Frm) /\ erase_list \in Seq(Nodes)

\* The type invariant in three parts.
LEMMA Types == TypeOK <=> ModesOK /\ NodesOK /\ SeqsOK
BY DEF TypeOK, ModesOK, NodesOK, SeqsOK, Frm

\* The frame of the call that runs.
LEMMA LastFrame ==
    ASSUME SeqsOK, stack # <<>>
    PROVE  /\ Len(stack) \in Nat /\ Len(stack) > 0
           /\ Len(stack) \in 1..Len(stack)
           /\ Frame.dir \in Dirs /\ Frame.left \subseteq Nodes
<1>1. Len(stack) \in Nat /\ Len(stack) > 0
  BY EmptySeq DEF SeqsOK
<1>2. stack[Len(stack)] \in Frm
  BY <1>1, ElementOfSeq DEF SeqsOK
<1>3. QED
  BY <1>1, <1>2 DEF Frame, Frm

\* The entry of the erase list that is next.
LEMMA FirstListed ==
    ASSUME SeqsOK, erase_list # <<>>
    PROVE  /\ Len(erase_list) \in Nat /\ 1 \in 1..Len(erase_list)
           /\ Head(erase_list) = erase_list[1] /\ Head(erase_list) \in Nodes
BY Shorter DEF SeqsOK

USE TreeAssumption, ChoiceAssumption

-----------------------------------------------------------------------------
(* Trees.                                                                   *)

\* What holds of the nodes before each node holds of all nodes: a set of
\* nodes that has no least element is empty.
LEMMA NoLeastNode ==
    ASSUME NEW S \in SUBSET Nodes,
           \A x \in S : \E y \in S : y < x
    PROVE  S = {}
<1> SUFFICES ASSUME S # {} PROVE FALSE
  OBVIOUS
<1>1. S \in SUBSET Nat
  BY DEF Nodes
<1>2. PICK x \in S : \A y \in S : ~(<<y, x>> \in OpToRel(<, Nat))
  BY <1>1, NatLessThanWellFounded, WFMin
<1>3. PICK y \in S : y < x
  OBVIOUS
<1>4. QED
  BY <1>1, <1>2, <1>3 DEF OpToRel

\* The nodes that every set has that has n and with each node its parent.
Above(n) == {m \in Nodes : \A S \in SUBSET Nodes :
                /\ n \in S
                /\ \A x \in S : Parent[x] # 0 => Parent[x] \in S
                => m \in S}

\* The least closed set is built up from the parent's.
LEMMA AboveNode ==
    ASSUME NEW n \in Nodes
    PROVE  Above(n) = {n} \cup (IF Parent[n] = 0 THEN {}
                                                 ELSE Above(Parent[n]))
<1>1. n \in Above(n)
  BY DEF Above
<1>2. CASE Parent[n] = 0
  <2>1. \A x \in {n} : Parent[x] # 0 => Parent[x] \in {n}
    BY <1>2
  <2>2. {n} \in SUBSET Nodes
    OBVIOUS
  <2>3. Above(n) \subseteq {n}
    BY <2>1, <2>2 DEF Above
  <2>4. QED
    BY <1>1, <1>2, <2>3
<1>3. CASE Parent[n] # 0
  <2>1. Parent[n] \in Nodes
    BY <1>3
  <2>2. Above(Parent[n]) \subseteq Above(n)
    BY <1>3, <2>1 DEF Above
  <2> DEFINE U == {n} \cup Above(Parent[n])
  <2>3. U \in SUBSET Nodes /\ n \in U
    BY DEF Above
  <2>4. Parent[n] \in U
    BY <2>1 DEF Above
  <2>5. ASSUME NEW x \in Above(Parent[n]), Parent[x] # 0
        PROVE  Parent[x] \in Above(Parent[n])
    <3>1. x \in Nodes /\ Parent[x] \in Nodes
      BY <2>5 DEF Above
    <3>2. QED
      BY <2>5, <3>1 DEF Above
  <2>6. \A x \in U : Parent[x] # 0 => Parent[x] \in U
    BY <2>4, <2>5
  <2>7. Above(n) \subseteq U
    BY <2>3, <2>6 DEF Above
  <2>8. QED
    BY <1>1, <1>3, <2>2, <2>7
<1>4. QED
  BY <1>2, <1>3

\* The recursive definition of Path has a solution, and is one.
LEMMA PathOf ==
    ASSUME NEW n \in Nodes
    PROVE  Path[n] = {n} \cup (IF Parent[n] = 0 THEN {} ELSE Path[Parent[n]])
<1> DEFINE Body(f) == [m \in Nodes |->
                         {m} \cup (IF Parent[m] = 0 THEN {} ELSE f[Parent[m]])]
           a == [m \in Nodes |-> Above(m)]
<1>1. ASSUME NEW m \in Nodes
      PROVE  a[m] = {m} \cup (IF Parent[m] = 0 THEN {} ELSE a[Parent[m]])
  <2>1. Parent[m] # 0 => Parent[m] \in Nodes
    OBVIOUS
  <2>2. QED
    BY <2>1, AboveNode
<1>2. a = Body(a)
  <2>1. \A m \in Nodes : a[m] = Body(a)[m]
    BY <1>1
  <2>2. QED
    BY <2>1
<1>3. Path = Body(Path)
  <2> HIDE DEF a
  <2>1. QED
    BY <1>2 DEF Path
<1>4. QED
  BY <1>3

\* The tagged entry a node is in, unfolded once.
LEMMA RootOfNode ==
    ASSUME NEW n \in Nodes
    PROVE  RootOf[n] = IF Parent[n] = 0 THEN n ELSE RootOf[Parent[n]]
<1> DEFINE Body(f) == [m \in Nodes |->
                         IF Parent[m] = 0 THEN m ELSE f[Parent[m]]]
           Tops(m) == {x \in Above(m) : Parent[x] = 0}
           r == [m \in Nodes |-> CHOOSE x : x \in Tops(m)]
<1>1. ASSUME NEW m \in Nodes
      PROVE  r[m] = IF Parent[m] = 0 THEN m ELSE r[Parent[m]]
  <2>1. CASE Parent[m] = 0
    <3>1. Tops(m) = {m}
      BY <2>1, AboveNode
    <3>2. QED
      BY <2>1, <3>1
  <2>2. CASE Parent[m] # 0
    <3>1. Parent[m] \in Nodes
      BY <2>2
    <3>2. Tops(m) = Tops(Parent[m])
      BY <2>2, AboveNode
    <3>3. QED
      BY <2>2, <3>1, <3>2
  <2>3. QED
    BY <2>1, <2>2
<1>2. r = Body(r)
  <2> HIDE DEF Tops
  <2>1. \A m \in Nodes : r[m] = Body(r)[m]
    BY <1>1
  <2>2. QED
    BY <2>1
<1>3. RootOf = Body(RootOf)
  <2> HIDE DEF r
  <2>1. QED
    BY <1>2 DEF RootOf
<1>4. QED
  BY <1>3

\* What is above a node comes before it, with all that is above that.
LEMMA PathUp ==
    ASSUME NEW n \in Nodes, NEW m \in Path[n]
    PROVE  m \in Nodes /\ m <= n /\ Path[m] \subseteq Path[n]
<1> DEFINE Good(x) == \A y \in Path[x] :
                          y \in Nodes /\ y <= x /\ Path[y] \subseteq Path[x]
           B == {x \in Nodes : ~Good(x)}
<1>1. ASSUME NEW x \in B PROVE \E y \in B : y < x
  <2>1. CASE Parent[x] = 0
    <3>1. Path[x] = {x}
      BY <2>1, PathOf
    <3>2. x <= x
      BY DEF Nodes
    <3>3. QED
      BY <3>1, <3>2
  <2>2. CASE Parent[x] # 0
    <3>1. Parent[x] \in Nodes /\ Parent[x] < x
      BY <2>2
    <3>2. Path[x] = {x} \cup Path[Parent[x]]
      BY <2>2, PathOf
    <3>3. ASSUME Good(Parent[x]) PROVE Good(x)
      BY <3>1, <3>2, <3>3 DEF Nodes
    <3>4. QED
      BY <3>1, <3>3
  <2>3. QED
    BY <2>1, <2>2
<1>2. B = {}
  <2> HIDE DEF Good
  <2>1. QED
    BY <1>1, NoLeastNode
<1>3. QED
  BY <1>2

\* A node is its own first node, and the parents go up to the root.
LEMMA PathSelf ==
    ASSUME NEW n \in Nodes
    PROVE  /\ n \in Path[n]
           /\ Parent[n] # 0 => Parent[n] \in Path[n]
           /\ Parent[n] = 0 => Path[n] = {n}
<1>1. n \in Path[n] /\ (Parent[n] = 0 => Path[n] = {n})
  BY PathOf
<1>2. ASSUME Parent[n] # 0 PROVE Parent[n] \in Path[n]
  <2>1. Parent[n] \in Nodes
    BY <1>2
  <2>2. Parent[n] \in Path[Parent[n]]
    BY <2>1, PathOf
  <2>3. QED
    BY <1>2, <2>2, PathOf
<1>3. QED
  BY <1>1, <1>2

\* A node above another one, and not that one, is above its parent.
LEMMA PathParent ==
    ASSUME NEW n \in Nodes, NEW m \in Path[n], m # n
    PROVE  Parent[n] # 0 /\ m \in Path[Parent[n]]
BY PathOf

\* A top-level node above another one is its root, so there is only one.
LEMMA TopOnly ==
    ASSUME NEW n \in Nodes, NEW t \in Path[n], Parent[t] = 0
    PROVE  RootOf[n] = t
<1> DEFINE B == {x \in Nodes : t \in Path[x] /\ RootOf[x] # t}
<1>1. ASSUME NEW x \in B PROVE \E y \in B : y < x
  <2>1. t # x
    BY RootOfNode
  <2>2. Parent[x] # 0 /\ t \in Path[Parent[x]]
    BY <2>1, PathParent
  <2>3. Parent[x] \in Nodes /\ Parent[x] < x
    BY <2>2
  <2>4. RootOf[Parent[x]] # t
    BY <2>2, RootOfNode
  <2>5. QED
    BY <2>2, <2>3, <2>4
<1>2. B = {}
  BY <1>1, NoLeastNode
<1>3. QED
  BY <1>2

\* Every node has a top-level node above it.
LEMMA TopAbove ==
    ASSUME NEW n \in Nodes
    PROVE  \E t \in Top : t \in Path[n]
<1> DEFINE B == {x \in Nodes : ~\E t \in Top : t \in Path[x]}
<1>1. ASSUME NEW x \in B PROVE \E y \in B : y < x
  <2>1. Parent[x] # 0
    BY PathOf DEF Top
  <2>2. Parent[x] \in Nodes /\ Parent[x] < x
    BY <2>1
  <2>3. Path[Parent[x]] \subseteq Path[x]
    BY <2>1, PathOf
  <2>4. QED
    BY <2>2, <2>3
<1>2. B = {}
  BY <1>1, NoLeastNode
<1>3. QED
  BY <1>2

\* On the way down to a node from one above it there is a child of that one.
LEMMA PathDown ==
    ASSUME NEW n \in Nodes, NEW m \in Path[n], m # n
    PROVE  \E c \in Path[n] : c \in Nodes /\ Parent[c] = m
<1> DEFINE Down(x) == \E c \in Path[x] : c \in Nodes /\ Parent[c] = m
           B == {x \in Nodes : m \in Path[x] /\ m # x /\ ~Down(x)}
<1>1. ASSUME NEW x \in B PROVE \E y \in B : y < x
  <2>1. Parent[x] # 0 /\ m \in Path[Parent[x]]
    BY PathParent
  <2>2. Parent[x] \in Nodes /\ Parent[x] < x
    BY <2>1
  <2>3. Path[Parent[x]] \subseteq Path[x] /\ x \in Path[x]
    BY <2>1, PathOf
  <2>4. m # Parent[x]
    BY <2>3
  <2>5. ~Down(Parent[x])
    BY <2>3
  <2>6. QED
    BY <2>1, <2>2, <2>4, <2>5
<1>2. B = {}
  <2> HIDE DEF Down
  <2>1. QED
    BY <1>1, NoLeastNode
<1>3. QED
  BY <1>2

\* What is above the parent is above the node.
LEMMA ChildPath ==
    ASSUME NEW n \in Nodes, Parent[n] # 0, NEW m \in Path[Parent[n]]
    PROVE  m \in Path[n]
BY PathOf

\* A node is in the tagged entry that is above it.
LEMMA RootAbove ==
    ASSUME NEW n \in Nodes, NEW t \in Top
    PROVE  RootOf[n] = t <=> t \in Path[n]
<1>1. PICK u \in Top : u \in Path[n]
  BY TopAbove
<1>2. RootOf[n] = u
  BY <1>1, TopOnly DEF Top
<1>3. QED
  BY <1>1, <1>2, TopOnly DEF Top

\* What is left of the last directory is below the tagged one, and not a
\* top-level node.
LEMMA LeftOver ==
    ASSUME SeqsOK, Frames, stack # <<>>
    PROVE  /\ cur \in Path[Frame.dir]
           /\ \A n \in Frame.left : /\ n \in Nodes /\ Parent[n] = Frame.dir
                                    /\ Parent[n] # 0 /\ cur \in Path[n]
<1>1. Len(stack) \in 1..Len(stack) /\ Frame.dir \in Dirs
  BY LastFrame
<1>2. /\ cur \in Path[Frame.dir]
      /\ Frame.left \subseteq Children(Frame.dir, Nodes)
  BY <1>1 DEF Frames, Chain, Frame
<1>3. ASSUME NEW n \in Frame.left
      PROVE  /\ n \in Nodes /\ Parent[n] = Frame.dir
             /\ Parent[n] # 0 /\ cur \in Path[n]
  <2>1. n \in Nodes /\ Parent[n] = Frame.dir
    BY <1>2 DEF Children
  <2>2. Parent[n] # 0
    BY <1>1, <2>1 DEF Nodes
  <2>3. QED
    BY <1>2, <2>1, <2>2, ChildPath
<1>4. QED
  BY <1>2, <1>3

\* Taking an entry, leaving and entering a directory keep the chain.
LEMMA ChainTake ==
    ASSUME NEW s \in Seq(Frm), s # <<>>, NEW c, Chain(s, c), NEW n,
           NEW t, t = [s EXCEPT ![Len(s)].left = @ \ {n}]
    PROVE  Chain(t, c)
<1>1. /\ Len(t) = Len(s) /\ t # <<>> /\ Len(s) \in Nat /\ Len(s) > 0
      /\ \A k \in 1..Len(s) :
            t[k].dir = s[k].dir /\ t[k].left \subseteq s[k].left
  BY Taken, EmptySeq
<1>2. t[1].dir = c
  BY <1>1 DEF Chain
<1>3. ASSUME NEW k \in 1..Len(t)
      PROVE  /\ c \in Path[t[k].dir]
             /\ t[k].left \subseteq Children(t[k].dir, Nodes)
             /\ \A x \in Path[t[k].dir] : \E j \in 1..k : x = t[j].dir
             /\ \A j \in 1..(k - 1) : t[j].dir < t[k].dir
  <2>1. \A j \in 1..k : j \in 1..Len(s)
    BY <1>1
  <2>2. k \in 1..Len(s)
    BY <1>1
  <2>3. /\ c \in Path[s[k].dir]
        /\ s[k].left \subseteq Children(s[k].dir, Nodes)
        /\ \A x \in Path[s[k].dir] : \E j \in 1..k : x = s[j].dir
        /\ \A j \in 1..(k - 1) : s[j].dir < s[k].dir
    BY <2>2 DEF Chain
  <2>4. t[k].dir = s[k].dir /\ t[k].left \subseteq s[k].left
    BY <1>1, <2>2
  <2>5. \A j \in 1..k : t[j].dir = s[j].dir
    BY <1>1, <2>1
  <2>6. \A j \in 1..(k - 1) : t[j].dir = s[j].dir
    BY <1>1, <2>1
  <2>7. \A x \in Path[t[k].dir] : \E j \in 1..k : x = t[j].dir
    BY <2>3, <2>4, <2>5
  <2>8. \A j \in 1..(k - 1) : t[j].dir < t[k].dir
    BY <2>3, <2>4, <2>6
  <2>9. QED
    BY <2>3, <2>4, <2>7, <2>8
<1>4. ASSUME NEW k \in 1..(Len(t) - 1)
      PROVE  Parent[t[k + 1].dir] = t[k].dir /\ t[k + 1].dir \notin t[k].left
  <2>1. k \in 1..Len(s) /\ k + 1 \in 1..Len(s) /\ k \in 1..(Len(s) - 1)
    BY <1>1
  <2>2. QED
    BY <1>1, <2>1 DEF Chain
<1>5. QED
  BY <1>2, <1>3, <1>4 DEF Chain

\* Leaving a directory keeps the chain of frames,
LEMMA ChainPop ==
    ASSUME NEW s \in Seq(Frm), s # <<>>, NEW c, Chain(s, c),
           NEW t, t = SubSeq(s, 1, Len(s) - 1)
    PROVE  Chain(t, c)
<1>0. Len(t) = Len(s) - 1 /\ \A k \in 1..Len(t) : t[k] = s[k]
  BY Popped
<1>1. /\ Len(t) = Len(s) - 1 /\ Len(s) \in Nat /\ Len(s) > 0
      /\ \A k \in 1..Len(t) : t[k] = s[k]
      /\ t # <<>> => Len(s) > 1
  <2>1. Len(s) \in Nat /\ Len(s) > 0
    BY EmptySeq
  <2>2. t # <<>> => Len(s) > 1
    BY Popped
  <2>3. QED
    BY <1>0, <2>1, <2>2
<1>2. ASSUME t # <<>> PROVE t[1].dir = c
  BY <1>1, <1>2 DEF Chain
<1>3. ASSUME NEW k \in 1..Len(t)
      PROVE  /\ c \in Path[t[k].dir]
             /\ t[k].left \subseteq Children(t[k].dir, Nodes)
             /\ \A x \in Path[t[k].dir] : \E j \in 1..k : x = t[j].dir
             /\ \A j \in 1..(k - 1) : t[j].dir < t[k].dir
  <2>1. \A j \in 1..k : j \in 1..Len(s) /\ j \in 1..Len(t)
    BY <1>1
  <2>2. k \in 1..Len(s)
    BY <1>1
  <2>3. /\ c \in Path[s[k].dir]
        /\ s[k].left \subseteq Children(s[k].dir, Nodes)
        /\ \A x \in Path[s[k].dir] : \E j \in 1..k : x = s[j].dir
        /\ \A j \in 1..(k - 1) : s[j].dir < s[k].dir
    BY <2>2 DEF Chain
  <2>4. t[k] = s[k] /\ \A j \in 1..k : t[j] = s[j]
    BY <1>1, <2>1
  <2>5. \A j \in 1..(k - 1) : t[j] = s[j]
    BY <1>1
  <2>6. QED
    BY <2>3, <2>4, <2>5
<1>4. ASSUME NEW k \in 1..(Len(t) - 1)
      PROVE  Parent[t[k + 1].dir] = t[k].dir /\ t[k + 1].dir \notin t[k].left
  <2>1. k \in 1..Len(t) /\ k + 1 \in 1..Len(t) /\ k \in 1..(Len(s) - 1)
    BY <1>1
  <2>2. QED
    BY <1>1, <2>1 DEF Chain
<1>5. QED
  BY <1>2, <1>3, <1>4 DEF Chain

\* and so does entering one that was taken from the last frame.
LEMMA ChainPush ==
    ASSUME NEW s \in Seq(Frm), NEW c \in Top, Chain(s, c), NEW d \in Dirs,
           NEW S \in SUBSET Children(d, Nodes),
           s = <<>> => d = c,
           s # <<>> => /\ Parent[d] = s[Len(s)].dir
                       /\ d \notin s[Len(s)].left,
           NEW t, t = Append(s, [dir |-> d, left |-> S])
    PROVE  Chain(t, c)
<1>1. /\ Len(t) = Len(s) + 1 /\ Len(s) \in Nat
      /\ \A k \in 1..Len(s) : t[k] = s[k]
      /\ t[Len(t)].dir = d /\ t[Len(t)].left = S
  BY Pushed DEF Children
<1>2. d \in Nodes /\ c \in Nodes /\ Parent[c] = 0
  BY DEF Top
<1>3. ASSUME s # <<>>
      PROVE  Len(s) \in 1..Len(s) /\ s[Len(s)].dir \in Dirs /\ Len(s) > 0
  <2>1. Len(s) > 0 /\ Len(s) \in 1..Len(s)
    BY <1>1, <1>3, EmptySeq
  <2>2. s[Len(s)] \in Frm
    BY <2>1, ElementOfSeq
  <2>3. QED
    BY <2>1, <2>2 DEF Frm
<1>4. s = <<>> => Len(s) = 0
  OBVIOUS
<1>5. t[1].dir = c
  <2>1. CASE s = <<>>
    BY <1>1, <1>4, <2>1
  <2>2. CASE s # <<>>
    BY <1>1, <1>3, <2>2 DEF Chain
  <2>3. QED
    BY <2>1, <2>2
<1>6. /\ c \in Path[d]
      /\ \A x \in Path[d] : x = d \/ \E j \in 1..Len(s) : x = s[j].dir
      /\ \A j \in 1..Len(s) : s[j].dir < d
  <2>1. CASE s = <<>>
    BY <1>2, <1>4, <2>1, PathSelf
  <2>2. CASE s # <<>>
    <3>0. /\ Parent[d] = s[Len(s)].dir /\ Len(s) \in 1..Len(s)
          /\ Parent[d] \in Dirs
      BY <1>3, <2>2
    <3>1. /\ Parent[d] # 0 /\ Parent[d] < d /\ Parent[d] \in Nodes
          /\ Parent[d] = s[Len(s)].dir /\ Len(s) \in 1..Len(s)
      <4>1. Parent[d] \in Nodes /\ Parent[d] < d
        BY <1>2, <3>0
      <4>2. 0 \notin Nodes
        BY DEF Nodes
      <4>3. QED
        BY <3>0, <4>1, <4>2
    <3>2. c \in Path[d]
      BY <1>2, <3>1, ChildPath DEF Chain
    <3>3. \A x \in Path[d] : x = d \/ \E j \in 1..Len(s) : x = s[j].dir
      <4>1. \A x \in Path[d] : x = d \/ x \in Path[s[Len(s)].dir]
        BY <1>2, <3>1, PathParent
      <4>2. QED
        BY <3>1, <4>1 DEF Chain
    <3>4. ASSUME NEW j \in 1..Len(s) PROVE s[j].dir < d
      <4>0. s[j] \in Frm
        BY ElementOfSeq
      <4>1. s[j].dir \in Nodes
        BY <4>0 DEF Frm
      <4>2. j = Len(s) \/ j \in 1..(Len(s) - 1)
        BY <1>1
      <4>3. s[j].dir = Parent[d] \/ s[j].dir < Parent[d]
        BY <3>1, <4>2 DEF Chain
      <4>4. QED
        BY <1>2, <3>1, <4>1, <4>3 DEF Nodes
    <3>5. QED
      BY <3>2, <3>3, <3>4
  <2>3. QED
    BY <2>1, <2>2
<1>7. ASSUME NEW k \in 1..Len(t)
      PROVE  /\ c \in Path[t[k].dir]
             /\ t[k].left \subseteq Children(t[k].dir, Nodes)
             /\ \A x \in Path[t[k].dir] : \E j \in 1..k : x = t[j].dir
             /\ \A j \in 1..(k - 1) : t[j].dir < t[k].dir
  <2>1. CASE k = Len(t)
    <3>1. \A j \in 1..Len(s) : j \in 1..k
      BY <1>1, <2>1
    <3>2. k \in 1..k /\ k - 1 = Len(s)
      BY <1>1, <2>1
    <3>3. QED
      BY <1>1, <1>6, <2>1, <3>1, <3>2
  <2>2. CASE k # Len(t)
    <3>1. k \in 1..Len(s) /\ \A j \in 1..k : j \in 1..Len(s)
      BY <1>1, <2>2
    <3>2. /\ c \in Path[s[k].dir]
          /\ s[k].left \subseteq Children(s[k].dir, Nodes)
          /\ \A x \in Path[s[k].dir] : \E j \in 1..k : x = s[j].dir
          /\ \A j \in 1..(k - 1) : s[j].dir < s[k].dir
      BY <3>1 DEF Chain
    <3>3. t[k] = s[k] /\ \A j \in 1..k : t[j] = s[j]
      BY <1>1, <3>1
    <3>4. \A j \in 1..(k - 1) : t[j] = s[j]
      BY <1>1, <3>1
    <3>5. QED
      BY <3>2, <3>3, <3>4
  <2>3. QED
    BY <2>1, <2>2
<1>8. ASSUME NEW k \in 1..(Len(t) - 1)
      PROVE  Parent[t[k + 1].dir] = t[k].dir /\ t[k + 1].dir \notin t[k].left
  <2>1. k \in 1..Len(s)
    BY <1>1
  <2>2. CASE k = Len(s)
    <3>1. s # <<>> /\ k + 1 = Len(t)
      BY <1>1, <1>4, <2>1, <2>2
    <3>2. QED
      BY <1>1, <2>1, <2>2, <3>1
  <2>3. CASE k # Len(s)
    <3>1. k + 1 \in 1..Len(s) /\ k \in 1..(Len(s) - 1)
      BY <1>1, <2>1, <2>3
    <3>2. QED
      BY <1>1, <2>1, <3>1 DEF Chain
  <2>4. QED
    BY <2>2, <2>3
<1>9. QED
  BY <1>5, <1>7, <1>8 DEF Chain

\* What is above a node that is there is there.
LEMMA SrcUp ==
    ASSUME NodesOK, SrcClosed, NEW n \in src, NEW m \in Path[n]
    PROVE  m \in src
<1> DEFINE B == {x \in Nodes : x \in src /\ m \in Path[x] /\ m \notin src}
<1>1. ASSUME NEW x \in B PROVE \E y \in B : y < x
  <2>1. m # x
    OBVIOUS
  <2>2. Parent[x] # 0 /\ m \in Path[Parent[x]]
    BY <2>1, PathParent
  <2>3. Parent[x] \in Nodes /\ Parent[x] < x
    BY <2>2
  <2>4. Parent[x] \in src
    BY <2>2 DEF SrcClosed
  <2>5. QED
    BY <2>2, <2>3, <2>4
<1>2. B = {}
  BY <1>1, NoLeastNode
<1>3. QED
  BY <1>2 DEF NodesOK

\* A node is in one tagged entry only.
LEMMA OneTop ==
    ASSUME NEW n \in Nodes, NEW t \in Top, NEW u \in Top,
           t \in Path[n], u \in Path[n]
    PROVE  t = u
BY RootAbove

-----------------------------------------------------------------------------
(* Every step keeps the invariant.                                          *)

USE DEF tree, choice, calls, ghost, erasing, copying, moving

\* Every step keeps Calls.
LEMMA CallsStep ==
    ASSUME ModesOK, SeqsOK, Calls, Arguments, [Next]_vars
    PROVE  Calls'
<1> USE DEF Calls, DeletePCs, DirPCs, CopyPCs, MovePCs, ListPCs, FilePCs,
            LoopPCs
<1>1. CASE NextEntry
  BY <1>1 DEF NextEntry, Quiet, ModesOK
<1>2. CASE LastEntry
  BY <1>2 DEF LastEntry
<1>3. CASE EntryDone
  BY <1>3 DEF EntryDone, Show, Quiet, Said, AbortAsked
<1>4. CASE Aborted
  BY <1>4 DEF Aborted
<1>5. CASE EraseFile
  BY <1>5 DEF EraseFile, Show, Quiet, Said, AbortAsked, Eraser
<1>6. CASE UnlinkFails
  BY <1>6 DEF UnlinkFails, file_error, Retry, StopAnswers, Said, AbortAsked,
     Eraser
<1>7. CASE Unlink
  BY <1>7 DEF Unlink, Buttons, Quiet, StopAnswers, Said, AbortAsked, Return,
     Eraser
<1>8. CASE EraseDir
  BY <1>8 DEF EraseDir, Show, Quiet, Said, AbortAsked
<1>9. CASE query_recursive
  BY <1>9 DEF query_recursive, Push, Return, Quiet, Said, AbortAsked
<1>10. CASE RecursiveErase
  BY <1>10 DEF RecursiveErase, Quiet, Take
<1>11. CASE RecursiveFails
  <2>1. stack \in Seq(Frm) /\ stack # <<>> /\ stack' = Pop
          => (stack' = <<>> <=> ~(Len(stack) > 1))
    BY Popped DEF Pop
  <2>2. QED
    BY <1>11, <2>1 DEF RecursiveFails, Leave, Up, SeqsOK
<1>12. CASE RecursiveStops
  <2>1. stack \in Seq(Frm) /\ stack # <<>> /\ stack' = Pop
          => (stack' = <<>> <=> ~(Len(stack) > 1))
    BY Popped DEF Pop
  <2>2. QED
    BY <1>12, <2>1 DEF RecursiveStops, Leave, Up, SeqsOK
<1>13. CASE RecursiveEnd
  <2>1. stack \in Seq(Frm) /\ stack # <<>> /\ stack' = Pop
          => (stack' = <<>> <=> ~(Len(stack) > 1))
    BY Popped DEF Pop
  <2>2. QED
    BY <1>13, <2>1 DEF RecursiveEnd, Leave, Up, AbortAsked, SeqsOK
<1>14. CASE RecursiveRmdir
  <2>1. stack \in Seq(Frm) /\ stack # <<>> /\ stack' = Pop
          => (stack' = <<>> <=> ~(Len(stack) > 1))
    BY Popped DEF Pop
  <2>2. QED
    BY <1>14, <2>1 DEF RecursiveRmdir, Leave, Up, Retry, StopAnswers,
       AbortAsked,
       SeqsOK
<1>15. CASE Rmdir
  BY <1>15 DEF Rmdir, Return, Quiet, file_error, Retry, StopAnswers, Said,
     AbortAsked
<1>16. CASE CopyFile
  BY <1>16 DEF CopyFile, Said, AbortAsked, Copier
<1>17. CASE CopyDirFails
  BY <1>17 DEF CopyDirFails, file_error, Retry, StopAnswers, Said, AbortAsked,
     Return, Quiet, Copier
<1>18. CASE CopyDir
  BY <1>18 DEF CopyDir, Quiet
<1>19. CASE Mkdir
  BY <1>19 DEF Mkdir, Quiet, file_error, Retry, StopAnswers, Said, AbortAsked,
     Copier
<1>20. CASE OpenDir
  BY <1>20 DEF OpenDir, Push, Copier
<1>21. CASE CopyDirEntry
  BY <1>21 DEF CopyDirEntry, Take, Quiet
<1>22. CASE CopiedEntry
  BY <1>22 DEF CopiedEntry
<1>23. CASE CopyDirEnd
  <2>1. stack \in Seq(Frm) /\ stack # <<>> /\ stack' = Pop
          => (stack' = <<>> <=> ~(Len(stack) > 1))
    BY Popped DEF Pop
  <2>2. QED
    BY <1>23, <2>1 DEF CopyDirEnd, SeqsOK
<1>24. CASE MoveFile
  BY <1>24 DEF MoveFile, Said, AbortAsked
<1>25. CASE MoveDir
  BY <1>25 DEF MoveDir, Show, Quiet, Said, AbortAsked
<1>26. CASE MoveDirStat
  BY <1>26 DEF MoveDirStat, Quiet, file_error, Retry, StopAnswers, Said,
     AbortAsked
<1>27. CASE Rename
  BY <1>27 DEF Rename, Return, Quiet
<1>28. CASE RenameFails
  BY <1>28 DEF RenameFails, Quiet, file_error, Retry, StopAnswers, Said,
     AbortAsked
<1>29. CASE Moved
  BY <1>29 DEF Moved, Buttons, Quiet, StopAnswers, Said, AbortAsked
<1>30. CASE EraseList
  BY <1>30 DEF EraseList, Quiet
<1>31. CASE Erased
  BY <1>31 DEF Erased, Quiet
<1>32. CASE EraseDirIffEmpty
  BY <1>32 DEF EraseDirIffEmpty, IffEmpty, AbortAsked
<1>33. CASE RmdirIffEmpty
  BY <1>33 DEF RmdirIffEmpty, IffEmpty, AbortAsked, Retry, StopAnswers
<1>34. CASE UNCHANGED vars
  BY <1>34 DEF vars
<1>35. QED
  BY <1>1, <1>2, <1>3, <1>4, <1>5, <1>6, <1>7, <1>8, <1>9, <1>10, <1>11,
     <1>12, <1>13, <1>14, <1>15, <1>16, <1>17, <1>18, <1>19, <1>20, <1>21,
     <1>22, <1>23, <1>24, <1>25, <1>26, <1>27, <1>28, <1>29, <1>30, <1>31,
     <1>32, <1>33, <1>34
     DEF Next, Done, Step, panel_operate, erase_dir, copy_dir_dir, move_dir_dir

\* Every step keeps the types of the flags.
LEMMA ModesStep ==
    ASSUME ModesOK, [Next]_vars
    PROVE  ModesOK'
<1> USE DEF ModesOK, PCs, Status, Answers
<1>1. CASE NextEntry
  BY <1>1 DEF NextEntry, Quiet
<1>2. CASE LastEntry
  BY <1>2 DEF LastEntry
<1>3. CASE EntryDone
  BY <1>3 DEF EntryDone, Show, Quiet, Said, AbortAsked
<1>4. CASE Aborted
  BY <1>4 DEF Aborted
<1>5. CASE EraseFile
  BY <1>5 DEF EraseFile, Show, Quiet, Said, AbortAsked, Eraser
<1>6. CASE UnlinkFails
  BY <1>6 DEF UnlinkFails, file_error, Retry, StopAnswers, Said, AbortAsked,
     Eraser
<1>7. CASE Unlink
  BY <1>7 DEF Unlink, Buttons, Quiet, StopAnswers, Said, AbortAsked, Return,
     Eraser
<1>8. CASE EraseDir
  BY <1>8 DEF EraseDir, Show, Quiet, Said, AbortAsked
<1>9. CASE query_recursive
  BY <1>9 DEF query_recursive, Push, Return, Quiet, Said, AbortAsked
<1>10. CASE RecursiveErase
  BY <1>10 DEF RecursiveErase, Quiet, Take
<1>11. CASE RecursiveFails
  BY <1>11 DEF RecursiveFails, Leave, Up
<1>12. CASE RecursiveStops
  BY <1>12 DEF RecursiveStops, Leave, Up
<1>13. CASE RecursiveEnd
  BY <1>13 DEF RecursiveEnd, Leave, Up, AbortAsked
<1>14. CASE RecursiveRmdir
  BY <1>14 DEF RecursiveRmdir, Leave, Up, Retry, StopAnswers, AbortAsked
<1>15. CASE Rmdir
  BY <1>15 DEF Rmdir, Return, Quiet, file_error, Retry, StopAnswers, Said,
     AbortAsked
<1>16. CASE CopyFile
  BY <1>16 DEF CopyFile, Said, AbortAsked, Copier
<1>17. CASE CopyDirFails
  BY <1>17 DEF CopyDirFails, file_error, Retry, StopAnswers, Said, AbortAsked,
     Return, Quiet, Copier
<1>18. CASE CopyDir
  BY <1>18 DEF CopyDir, Quiet
<1>19. CASE Mkdir
  BY <1>19 DEF Mkdir, Quiet, file_error, Retry, StopAnswers, Said, AbortAsked,
     Copier
<1>20. CASE OpenDir
  BY <1>20 DEF OpenDir, Push, Copier
<1>21. CASE CopyDirEntry
  BY <1>21 DEF CopyDirEntry, Take, Quiet
<1>22. CASE CopiedEntry
  BY <1>22 DEF CopiedEntry
<1>23. CASE CopyDirEnd
  BY <1>23 DEF CopyDirEnd
<1>24. CASE MoveFile
  BY <1>24 DEF MoveFile, Said, AbortAsked
<1>25. CASE MoveDir
  BY <1>25 DEF MoveDir, Show, Quiet, Said, AbortAsked
<1>26. CASE MoveDirStat
  BY <1>26 DEF MoveDirStat, Quiet, file_error, Retry, StopAnswers, Said,
     AbortAsked
<1>27. CASE Rename
  BY <1>27 DEF Rename, Return, Quiet
<1>28. CASE RenameFails
  BY <1>28 DEF RenameFails, Quiet, file_error, Retry, StopAnswers, Said,
     AbortAsked
<1>29. CASE Moved
  BY <1>29 DEF Moved, Buttons, Quiet, StopAnswers, Said, AbortAsked
<1>30. CASE EraseList
  BY <1>30 DEF EraseList, Quiet
<1>31. CASE Erased
  BY <1>31 DEF Erased, Quiet
<1>32. CASE EraseDirIffEmpty
  BY <1>32 DEF EraseDirIffEmpty, IffEmpty, AbortAsked
<1>33. CASE RmdirIffEmpty
  BY <1>33 DEF RmdirIffEmpty, IffEmpty, AbortAsked, Retry, StopAnswers
<1>34. CASE UNCHANGED vars
  BY <1>34 DEF vars
<1>35. QED
  BY <1>1, <1>2, <1>3, <1>4, <1>5, <1>6, <1>7, <1>8, <1>9, <1>10, <1>11,
     <1>12, <1>13, <1>14, <1>15, <1>16, <1>17, <1>18, <1>19, <1>20, <1>21,
     <1>22, <1>23, <1>24, <1>25, <1>26, <1>27, <1>28, <1>29, <1>30, <1>31,
     <1>32, <1>33, <1>34
     DEF Next, Done, Step, panel_operate, erase_dir, copy_dir_dir, move_dir_dir

\* Every step keeps the types of the nodes.
LEMMA NodesStep ==
    ASSUME ModesOK, NodesOK, SeqsOK, Calls, Arguments, Frames, [Next]_vars
    PROVE  NodesOK'
<1> USE DEF NodesOK, Calls, Arguments, DeletePCs, DirPCs, CopyPCs, MovePCs,
            ListPCs, FilePCs, LoopPCs
<1>1. CASE NextEntry
  BY <1>1 DEF NextEntry, Quiet, Later, Top
<1>2. CASE LastEntry
  BY <1>2 DEF LastEntry
<1>3. CASE EntryDone
  BY <1>3 DEF EntryDone, Show, Quiet, Said, AbortAsked
<1>4. CASE Aborted
  BY <1>4 DEF Aborted
<1>5. CASE EraseFile
  BY <1>5 DEF EraseFile, Show, Quiet, Said, AbortAsked, Eraser
<1>6. CASE UnlinkFails
  BY <1>6 DEF UnlinkFails, file_error, Retry, StopAnswers, Said, AbortAsked,
     Eraser
<1>7. CASE Unlink
  BY <1>7 DEF Unlink, Buttons, Quiet, StopAnswers, Said, AbortAsked, Return,
     Eraser
<1>8. CASE EraseDir
  BY <1>8 DEF EraseDir, Show, Quiet, Said, AbortAsked
<1>9. CASE query_recursive
  BY <1>9 DEF query_recursive, Push, Return, Quiet, Said, AbortAsked
<1>10. CASE RecursiveErase
  BY <1>10, LastFrame DEF RecursiveErase, Quiet, Take, ModesOK
<1>11. CASE RecursiveFails
  BY <1>11 DEF RecursiveFails, Leave, Up
<1>12. CASE RecursiveStops
  BY <1>12 DEF RecursiveStops, Leave, Up
<1>13. CASE RecursiveEnd
  BY <1>13 DEF RecursiveEnd, Leave, Up, AbortAsked
<1>14. CASE RecursiveRmdir
  BY <1>14 DEF RecursiveRmdir, Leave, Up, Retry, StopAnswers, AbortAsked
<1>15. CASE Rmdir
  BY <1>15 DEF Rmdir, Return, Quiet, file_error, Retry, StopAnswers, Said,
     AbortAsked
<1>16. CASE CopyFile
  BY <1>16 DEF CopyFile, Said, AbortAsked, Copier
<1>17. CASE CopyDirFails
  BY <1>17 DEF CopyDirFails, file_error, Retry, StopAnswers, Said, AbortAsked,
     Return, Quiet, Copier
<1>18. CASE CopyDir
  BY <1>18 DEF CopyDir, Quiet
<1>19. CASE Mkdir
  BY <1>19 DEF Mkdir, Quiet, file_error, Retry, StopAnswers, Said, AbortAsked,
     Copier
<1>20. CASE OpenDir
  BY <1>20 DEF OpenDir, Push, Copier
<1>21. CASE CopyDirEntry
  BY <1>21, LastFrame DEF CopyDirEntry, Take, Quiet, ModesOK
<1>22. CASE CopiedEntry
  BY <1>22 DEF CopiedEntry
<1>23. CASE CopyDirEnd
  BY <1>23, LastFrame DEF CopyDirEnd, ModesOK
<1>24. CASE MoveFile
  BY <1>24 DEF MoveFile, Said, AbortAsked
<1>25. CASE MoveDir
  BY <1>25 DEF MoveDir, Show, Quiet, Said, AbortAsked
<1>26. CASE MoveDirStat
  BY <1>26 DEF MoveDirStat, Quiet, file_error, Retry, StopAnswers, Said,
     AbortAsked
<1>27. CASE Rename
  BY <1>27 DEF Rename, Return, Quiet, Subtree
<1>28. CASE RenameFails
  BY <1>28 DEF RenameFails, Quiet, file_error, Retry, StopAnswers, Said,
     AbortAsked
<1>29. CASE Moved
  BY <1>29 DEF Moved, Buttons, Quiet, StopAnswers, Said, AbortAsked
<1>30. CASE EraseList
  BY <1>30, FirstListed DEF EraseList, Quiet, Top
<1>31. CASE Erased
  BY <1>31 DEF Erased, Quiet
<1>32. CASE EraseDirIffEmpty
  BY <1>32 DEF EraseDirIffEmpty, IffEmpty, AbortAsked
<1>33. CASE RmdirIffEmpty
  BY <1>33 DEF RmdirIffEmpty, IffEmpty, AbortAsked, Retry, StopAnswers
<1>34. CASE UNCHANGED vars
  BY <1>34 DEF vars
<1>35. QED
  BY <1>1, <1>2, <1>3, <1>4, <1>5, <1>6, <1>7, <1>8, <1>9, <1>10, <1>11,
     <1>12, <1>13, <1>14, <1>15, <1>16, <1>17, <1>18, <1>19, <1>20, <1>21,
     <1>22, <1>23, <1>24, <1>25, <1>26, <1>27, <1>28, <1>29, <1>30, <1>31,
     <1>32, <1>33, <1>34
     DEF Next, Done, Step, panel_operate, erase_dir, copy_dir_dir, move_dir_dir

\* Every step keeps the types of the stack and the list.
LEMMA SeqsStep ==
    ASSUME ModesOK, NodesOK, SeqsOK, Calls, Arguments, Frames, [Next]_vars
    PROVE  SeqsOK'
<1> USE DEF SeqsOK
<1>1. CASE NextEntry
  BY <1>1 DEF NextEntry, Quiet
<1>2. CASE LastEntry
  BY <1>2 DEF LastEntry
<1>3. CASE EntryDone
  BY <1>3 DEF EntryDone, Show, Quiet, Said, AbortAsked
<1>4. CASE Aborted
  BY <1>4 DEF Aborted
<1>5. CASE EraseFile
  BY <1>5 DEF EraseFile, Show, Quiet, Said, AbortAsked, Eraser
<1>6. CASE UnlinkFails
  BY <1>6 DEF UnlinkFails, file_error, Retry, StopAnswers, Said, AbortAsked,
     Eraser
<1>7. CASE Unlink
  BY <1>7 DEF Unlink, Buttons, Quiet, StopAnswers, Said, AbortAsked, Return,
     Eraser
<1>8. CASE EraseDir
  BY <1>8 DEF EraseDir, Show, Quiet, Said, AbortAsked
<1>9. CASE query_recursive
  <2>1. arg \in Dirs /\ Children(arg, src) \in SUBSET Nodes
    BY <1>9 DEF query_recursive, Arguments, NodesOK, Children
  <2>2. stack' = stack \/ Push(arg)
    BY <1>9 DEF query_recursive
  <2>3. stack' \in Seq(Frm)
    BY <2>1, <2>2, Pushed DEF Push
  <2>4. QED
    BY <1>9, <2>3 DEF query_recursive
<1>10. CASE RecursiveErase
  <2>1. stack \in Seq(Frm) /\ stack # <<>>
    BY <1>10, LastFrame DEF RecursiveErase, SeqsOK, Calls, LoopPCs
  <2> DEFINE t(n) == [stack EXCEPT ![Len(stack)].left = @ \ {n}]
  <2>2. \A n : t(n) \in Seq(Frm)
    BY <2>1, Taken
  <2>3. \A d \in Dirs : \A s \in Seq(Frm) :
           Append(s, [dir |-> d, left |-> Children(d, src)]) \in Seq(Frm)
    BY Pushed DEF Children, NodesOK
  <2> HIDE DEF t
  <2>4. erase_list' = erase_list
    BY <1>10 DEF RecursiveErase
  <2>5. stack' \in Seq(Frm)
    <3>1. PICK n \in Frame.left :
             \/ stack' = stack \/ stack' = t(n)
             \/ n \in Dirs /\ stack' = Append(t(n),
                                 [dir |-> n, left |-> Children(n, src)])
      BY <1>10 DEF RecursiveErase, Take, t
    <3>2. QED
      BY <2>1, <2>2, <2>3, <3>1
  <2>6. QED
    BY <2>4, <2>5
<1>11. CASE RecursiveFails
  <2>1. stack \in Seq(Frm) /\ stack # <<>> /\ stack' = Pop
          => stack' \in Seq(Frm)
    BY Popped DEF Pop
  <2>2. QED
    BY <1>11, <2>1 DEF RecursiveFails, Leave, Up, Calls, LoopPCs
<1>12. CASE RecursiveStops
  <2>1. stack \in Seq(Frm) /\ stack # <<>> /\ stack' = Pop
          => stack' \in Seq(Frm)
    BY Popped DEF Pop
  <2>2. QED
    BY <1>12, <2>1 DEF RecursiveStops, Leave, Up, Calls, LoopPCs
<1>13. CASE RecursiveEnd
  <2>1. stack \in Seq(Frm) /\ stack # <<>> /\ stack' = Pop
          => stack' \in Seq(Frm)
    BY Popped DEF Pop
  <2>2. QED
    BY <1>13, <2>1 DEF RecursiveEnd, Leave, Up, AbortAsked, Calls, LoopPCs
<1>14. CASE RecursiveRmdir
  <2>1. stack \in Seq(Frm) /\ stack # <<>> /\ stack' = Pop
          => stack' \in Seq(Frm)
    BY Popped DEF Pop
  <2>2. QED
    BY <1>14, <2>1 DEF RecursiveRmdir, Leave, Up, Retry, StopAnswers,
       AbortAsked,
       Calls, LoopPCs
<1>15. CASE Rmdir
  BY <1>15 DEF Rmdir, Return, Quiet, file_error, Retry, StopAnswers, Said,
     AbortAsked
<1>16. CASE CopyFile
  BY <1>16 DEF CopyFile, Said, AbortAsked, Copier
<1>17. CASE CopyDirFails
  BY <1>17 DEF CopyDirFails, file_error, Retry, StopAnswers, Said, AbortAsked,
     Return, Quiet, Copier
<1>18. CASE CopyDir
  BY <1>18 DEF CopyDir, Quiet
<1>19. CASE Mkdir
  BY <1>19 DEF Mkdir, Quiet, file_error, Retry, StopAnswers, Said, AbortAsked,
     Copier
<1>20. CASE OpenDir
  <2>1. arg \in Dirs /\ Children(arg, src) \in SUBSET Nodes
    BY <1>20 DEF OpenDir, Arguments, DirPCs, NodesOK, Children
  <2>2. stack' = stack \/ Push(arg)
    BY <1>20 DEF OpenDir
  <2>3. stack' \in Seq(Frm)
    BY <2>1, <2>2, Pushed DEF Push
  <2>4. QED
    BY <1>20, <2>3 DEF OpenDir
<1>21. CASE CopyDirEntry
  <2>1. stack \in Seq(Frm) /\ stack # <<>>
    BY <1>21, LastFrame DEF CopyDirEntry, SeqsOK, Calls, LoopPCs
  <2> DEFINE t(n) == [stack EXCEPT ![Len(stack)].left = @ \ {n}]
  <2>2. \A n : t(n) \in Seq(Frm)
    BY <2>1, Taken
  <2>3. QED
    BY <1>21, <2>2 DEF CopyDirEntry, Take
<1>22. CASE CopiedEntry
  BY <1>22 DEF CopiedEntry, Arguments, Calls, LoopPCs
<1>23. CASE CopyDirEnd
  <2>1. stack \in Seq(Frm) /\ stack # <<>> /\ stack' = Pop
          => stack' \in Seq(Frm)
    BY Popped DEF Pop
  <2>2. QED
    BY <1>23, <2>1 DEF CopyDirEnd, Calls, LoopPCs
<1>24. CASE MoveFile
  BY <1>24 DEF MoveFile, Said, AbortAsked
<1>25. CASE MoveDir
  BY <1>25 DEF MoveDir, Show, Quiet, Said, AbortAsked
<1>26. CASE MoveDirStat
  BY <1>26 DEF MoveDirStat, Quiet, file_error, Retry, StopAnswers, Said,
     AbortAsked
<1>27. CASE Rename
  BY <1>27 DEF Rename, Return, Quiet
<1>28. CASE RenameFails
  BY <1>28 DEF RenameFails, Quiet, file_error, Retry, StopAnswers, Said,
     AbortAsked
<1>29. CASE Moved
  BY <1>29 DEF Moved, Buttons, Quiet, StopAnswers, Said, AbortAsked
<1>30. CASE EraseList
  BY <1>30 DEF EraseList, Quiet
<1>31. CASE Erased
  BY <1>31, Shorter, FirstListed DEF Erased, Quiet, Arguments, Calls,
     DeletePCs, DirPCs, CopyPCs, MovePCs, ListPCs, FilePCs, LoopPCs
<1>32. CASE EraseDirIffEmpty
  BY <1>32, EmptySeq DEF EraseDirIffEmpty, IffEmpty, AbortAsked
<1>33. CASE RmdirIffEmpty
  BY <1>33, EmptySeq DEF RmdirIffEmpty, IffEmpty, AbortAsked, Retry,
     StopAnswers
<1>34. CASE UNCHANGED vars
  BY <1>34 DEF vars
<1>35. QED
  BY <1>1, <1>2, <1>3, <1>4, <1>5, <1>6, <1>7, <1>8, <1>9, <1>10, <1>11,
     <1>12, <1>13, <1>14, <1>15, <1>16, <1>17, <1>18, <1>19, <1>20, <1>21,
     <1>22, <1>23, <1>24, <1>25, <1>26, <1>27, <1>28, <1>29, <1>30, <1>31,
     <1>32, <1>33, <1>34
     DEF Next, Done, Step, panel_operate, erase_dir, copy_dir_dir, move_dir_dir

\* Every step keeps Arguments.
LEMMA ArgumentsStep ==
    ASSUME ModesOK, NodesOK, SeqsOK, Calls, Arguments, Frames, EraseListSafe,
           [Next]_vars
    PROVE  Arguments'
<1> USE DEF Frame, Arguments, Calls, DeletePCs, DirPCs, CopyPCs, MovePCs,
            ListPCs, FilePCs, LoopPCs
<1>1. CASE NextEntry
  <2>1. cur' \in Top /\ cur' \in Nodes /\ cur' # 0
    BY <1>1 DEF NextEntry, Later, NodesOK, Top, Nodes
  <2>2. cur' \in Path[cur']
    BY <2>1, PathSelf
  <2>3. QED
    BY <1>1, <2>1, <2>2 DEF NextEntry, Quiet, ModesOK
<1>2. CASE LastEntry
  BY <1>2 DEF LastEntry
<1>3. CASE EntryDone
  BY <1>3 DEF EntryDone, Show, Quiet, Said, AbortAsked
<1>4. CASE Aborted
  BY <1>4 DEF Aborted
<1>5. CASE EraseFile
  <2>1. /\ UNCHANGED <<job, cur, arg, stack, erase_list>> /\ pc \in FilePCs
        /\ pc' \in {"unlink", "erase_loop", "erased", "returned"}
        /\ pc' = "erased" => job = "move"
    BY <1>5 DEF EraseFile, Show, Quiet, Said, AbortAsked, Eraser, Calls,
       FilePCs
  <2>2. QED
    BY <2>1
<1>6. CASE UnlinkFails
  <2>1. /\ UNCHANGED <<job, cur, arg, stack, erase_list>> /\ pc \in FilePCs
        /\ pc' \in {"unlink", "erase_loop", "erased", "returned"}
        /\ pc' = "erased" => job = "move"
    BY <1>6 DEF UnlinkFails, file_error, Retry, StopAnswers, Said, AbortAsked,
       Eraser, Calls, FilePCs
  <2>2. QED
    BY <2>1
<1>7. CASE Unlink
  <2>1. /\ UNCHANGED <<job, cur, arg, stack, erase_list>> /\ pc \in FilePCs
        /\ pc' \in {"unlink", "erase_loop", "erased", "returned"}
        /\ pc' = "erased" => job = "move"
    BY <1>7 DEF Unlink, Buttons, Quiet, StopAnswers, Said, AbortAsked, Return,
       Eraser, Calls, FilePCs
  <2>2. QED
    BY <2>1
<1>8. CASE EraseDir
  BY <1>8 DEF EraseDir, Show, Quiet, Said, AbortAsked
<1>9. CASE query_recursive
  BY <1>9 DEF query_recursive, Push, Return, Quiet, Said, AbortAsked
<1>10. CASE RecursiveErase
  <2>1. PICK n \in Frame.left :
           \/ pc' = "erase_loop" /\ arg' = arg
           \/ pc' = "erase_file" /\ arg' = n /\ n \notin Dirs
    BY <1>10 DEF RecursiveErase
  <2>2. /\ UNCHANGED <<job, cur>> /\ pc = "erase_loop" /\ job = "delete"
        /\ stack # <<>>
    BY <1>10 DEF RecursiveErase
  <2>3. n \in Nodes /\ cur \in Path[n]
    BY <2>1, <2>2, LeftOver
  <2>4. QED
    BY <2>1, <2>2, <2>3
<1>11. CASE RecursiveFails
  BY <1>11 DEF RecursiveFails, Leave, Up
<1>12. CASE RecursiveStops
  BY <1>12 DEF RecursiveStops, Leave, Up
<1>13. CASE RecursiveEnd
  BY <1>13 DEF RecursiveEnd, Leave, Up, AbortAsked
<1>14. CASE RecursiveRmdir
  BY <1>14 DEF RecursiveRmdir, Leave, Up, Retry, StopAnswers, AbortAsked
<1>15. CASE Rmdir
  BY <1>15 DEF Rmdir, Return, Quiet, file_error, Retry, StopAnswers, Said,
     AbortAsked
<1>16. CASE CopyFile
  BY <1>16 DEF CopyFile, Said, AbortAsked, Copier
<1>17. CASE CopyDirFails
  BY <1>17 DEF CopyDirFails, file_error, Retry, StopAnswers, Said, AbortAsked,
     Return, Quiet, Copier
<1>18. CASE CopyDir
  BY <1>18 DEF CopyDir, Quiet
<1>19. CASE Mkdir
  BY <1>19 DEF Mkdir, Quiet, file_error, Retry, StopAnswers, Said, AbortAsked,
     Copier
<1>20. CASE OpenDir
  BY <1>20 DEF OpenDir, Push, Copier
<1>21. CASE CopyDirEntry
  <2>1. PICK n \in Frame.left :
           /\ arg' = n /\ Take(n)
           /\ pc' = IF n \in Dirs THEN "copy_dir" ELSE "copy_file"
    BY <1>21 DEF CopyDirEntry
  <2>2. UNCHANGED <<job, cur>> /\ pc = "copy_loop" /\ stack # <<>>
    BY <1>21 DEF CopyDirEntry
  <2>3. n \in Nodes /\ cur \in Path[n] /\ Parent[n] = Frame.dir
    BY <2>2, LeftOver
  <2>4. stack' # <<>> /\ Frame'.dir = Frame.dir /\ n \notin Frame'.left
    BY <2>1, <2>2, Taken, LastFrame DEF Take, SeqsOK
  <2> HIDE DEF Frame
  <2>5. QED
    BY <2>1, <2>2, <2>3, <2>4
<1>22. CASE CopiedEntry
  BY <1>22 DEF CopiedEntry
<1>23. CASE CopyDirEnd
  <2>1. /\ UNCHANGED <<job, cur>> /\ pc = "copy_loop" /\ stack # <<>>
        /\ arg' = Frame.dir /\ stack' = Pop
        /\ IF Len(stack) > 1 THEN pc' = "copied_entry"
                             ELSE pc' \in {"moved", "returned"}
        /\ pc' = "moved" => job = "move"
    BY <1>23 DEF CopyDirEnd
  <2>2. arg' \in Nodes /\ cur' \in Path[arg']
    BY <2>1, LeftOver, LastFrame
  <2>3. ASSUME Len(stack) > 1
        PROVE  Parent[arg'] = Frame'.dir /\ arg' \notin Frame'.left
    <3>1. /\ Len(stack') = Len(stack) - 1
          /\ Frame' = stack[Len(stack) - 1]
      BY <2>1, <2>3, Popped, LastFrame DEF Pop, SeqsOK
    <3>2. /\ Len(stack) - 1 \in 1..(Len(stack) - 1)
          /\ (Len(stack) - 1) + 1 = Len(stack)
      BY <2>1, <2>3, LastFrame
    <3>3. /\ Parent[stack[(Len(stack) - 1) + 1].dir]
               = stack[Len(stack) - 1].dir
          /\ stack[(Len(stack) - 1) + 1].dir \notin stack[Len(stack) - 1].left
      BY <3>2 DEF Frames, Chain
    <3>4. QED
      BY <2>1, <3>1, <3>2, <3>3
  <2>4. ASSUME pc' = "moved" PROVE cur' \in Dirs
    <3>1. Len(stack) = 1
      BY SMTT(30), <2>1, <2>4, LastFrame
    <3>2. Frame.dir = cur
      BY <2>1, <3>1 DEF Frames, Chain
    <3>3. QED
      BY <2>1, <3>2, LastFrame
  <2> HIDE DEF Frame
  <2>5. QED
    BY <2>1, <2>2, <2>3, <2>4
<1>24. CASE MoveFile
  BY <1>24 DEF MoveFile, Said, AbortAsked
<1>25. CASE MoveDir
  BY <1>25 DEF MoveDir, Show, Quiet, Said, AbortAsked
<1>26. CASE MoveDirStat
  BY <1>26 DEF MoveDirStat, Quiet, file_error, Retry, StopAnswers, Said,
     AbortAsked
<1>27. CASE Rename
  BY <1>27 DEF Rename, Return, Quiet
<1>28. CASE RenameFails
  BY <1>28 DEF RenameFails, Quiet, file_error, Retry, StopAnswers, Said,
     AbortAsked
<1>29. CASE Moved
  BY <1>29 DEF Moved, Buttons, Quiet, StopAnswers, Said, AbortAsked
<1>30. CASE EraseList
  <2>1. /\ UNCHANGED <<job, cur, erase_list>> /\ pc = "erase_list"
        /\ \/ /\ erase_list # <<>> /\ arg' = Head(erase_list)
              /\ pc' = IF arg' \in Dirs THEN "erase_iff_empty"
                                        ELSE "erase_file"
           \/ arg' = cur /\ pc' = "erase_iff_empty"
    BY <1>30 DEF EraseList
  <2>2. cur \in Top /\ cur \in Nodes /\ cur \in Path[cur]
    BY <2>1, PathSelf DEF NodesOK, Top
  <2>3. ASSUME erase_list # <<>>
        PROVE  Head(erase_list) \in Nodes /\ cur \in Path[Head(erase_list)]
    BY <2>2, <2>3, FirstListed, RootAbove DEF EraseListSafe
  <2>4. QED
    BY <2>1, <2>2, <2>3
<1>31. CASE Erased
  BY <1>31 DEF Erased, Quiet
<1>32. CASE EraseDirIffEmpty
  BY <1>32 DEF EraseDirIffEmpty, IffEmpty, AbortAsked
<1>33. CASE RmdirIffEmpty
  BY <1>33 DEF RmdirIffEmpty, IffEmpty, AbortAsked, Retry, StopAnswers
<1>34. CASE UNCHANGED vars
  BY <1>34 DEF vars
<1>35. QED
  BY <1>1, <1>2, <1>3, <1>4, <1>5, <1>6, <1>7, <1>8, <1>9, <1>10, <1>11,
     <1>12, <1>13, <1>14, <1>15, <1>16, <1>17, <1>18, <1>19, <1>20, <1>21,
     <1>22, <1>23, <1>24, <1>25, <1>26, <1>27, <1>28, <1>29, <1>30, <1>31,
     <1>32, <1>33, <1>34
     DEF Next, Done, Step, panel_operate, erase_dir, copy_dir_dir, move_dir_dir

\* Frames through the ways in which the stack changes.
LEMMA FramesSame ==
    ASSUME Frames, job' = job,
           \/ stack' = <<>>
           \/ UNCHANGED <<stack, cur>> /\ (src' = src \/ job = "delete")
    PROVE  Frames'
<1>1. CASE stack' = <<>>
  <2>1. Len(<<>>) = 0 /\ 1..0 = {} /\ 1..(0 - 1) = {}
    OBVIOUS
  <2>2. QED
    BY <1>1, <2>1 DEF Frames, Chain
<1>2. CASE UNCHANGED <<stack, cur>> /\ (src' = src \/ job = "delete")
  BY ZenonT(60), <1>2 DEF Frames, Chain
<1>3. QED
  BY <1>1, <1>2

\* The frames after a directory is left,
LEMMA FramesPop ==
    ASSUME SeqsOK, Frames, stack # <<>>, stack' = Pop, job' = job, cur' = cur,
           src' = src \/ job = "delete"
    PROVE  Frames'
<1>1. Chain(stack', cur)
  BY ChainPop DEF Frames, SeqsOK, Pop
<1>2. Chain(stack, cur)'
  BY <1>1 DEF Chain
<1>3. ASSUME job # "delete"
      PROVE  \A k \in 1..Len(stack') : stack'[k].left \subseteq src'
  <2>1. /\ Len(stack') = Len(stack) - 1 /\ Len(stack) \in Nat
        /\ \A k \in 1..Len(stack') : stack'[k] = stack[k]
    BY Popped, LastFrame DEF SeqsOK, Pop
  <2>2. \A k \in 1..Len(stack') : k \in 1..Len(stack)
    BY <2>1
  <2>3. QED
    BY <1>3, <2>1, <2>2 DEF Frames
<1>4. QED
  BY <1>2, <1>3 DEF Frames

\* after an entry is taken from the last one,
LEMMA FramesTake ==
    ASSUME SeqsOK, Frames, stack # <<>>, NEW n, Take(n), job' = job,
           cur' = cur, src' = src
    PROVE  Frames'
<1>1. Chain(stack', cur)
  BY ChainTake DEF Frames, SeqsOK, Take
<1>2. Chain(stack, cur)'
  BY <1>1 DEF Chain
<1>3. ASSUME job # "delete"
      PROVE  \A k \in 1..Len(stack') : stack'[k].left \subseteq src'
  <2>1. /\ Len(stack') = Len(stack)
        /\ \A k \in 1..Len(stack) : stack'[k].left \subseteq stack[k].left
    BY Taken DEF SeqsOK, Take
  <2>2. QED
    BY <1>3, <2>1 DEF Frames
<1>4. QED
  BY <1>2, <1>3 DEF Frames

\* and after a directory is entered.
LEMMA FramesPush ==
    ASSUME NodesOK, SeqsOK, Frames, cur \in Top, arg \in Dirs, Push(arg),
           stack = <<>> => arg = cur,
           stack # <<>> => /\ Parent[arg] = Frame.dir
                           /\ arg \notin Frame.left,
           job' = job, cur' = cur, src' = src
    PROVE  Frames'
<1>1. /\ Children(arg, src) \in SUBSET Children(arg, Nodes)
      /\ Children(arg, src) \in SUBSET src
      /\ Children(arg, src) \in SUBSET Nodes
  BY DEF Children, NodesOK
<1>2. Chain(stack', cur)
  BY <1>1, ChainPush DEF Frames, SeqsOK, Push, Frame
<1>3. Chain(stack, cur)'
  BY <1>2 DEF Chain
<1>4. ASSUME job # "delete"
      PROVE  \A k \in 1..Len(stack') : stack'[k].left \subseteq src'
  <2>1. /\ Len(stack') = Len(stack) + 1
        /\ \A k \in 1..Len(stack) : stack'[k] = stack[k]
        /\ stack'[Len(stack')].left = Children(arg, src)
    BY <1>1, Pushed DEF SeqsOK, Push
  <2>2. \A k \in 1..Len(stack') : k \in 1..Len(stack) \/ k = Len(stack')
    BY <2>1, LenProperties DEF SeqsOK
  <2>3. QED
    BY <1>1, <1>4, <2>1, <2>2 DEF Frames
<1>5. QED
  BY <1>3, <1>4 DEF Frames

\* Every step keeps Frames.
LEMMA FramesStep ==
    ASSUME ModesOK, NodesOK, SeqsOK, Calls, Arguments, Frames, [Next]_vars
    PROVE  Frames'
<1>1. CASE NextEntry
  <2>1. \/ stack = <<>> /\ stack' = <<>> /\ job' = job
        \/ UNCHANGED <<stack, cur, job>> /\ (src' = src \/ job = "delete")
    BY <1>1 DEF NextEntry, Quiet, Calls, DeletePCs, DirPCs, CopyPCs, MovePCs,
       ListPCs, FilePCs, LoopPCs
  <2>2. QED
    BY <2>1, FramesSame
<1>2. CASE LastEntry
  <2>1. \/ stack = <<>> /\ stack' = <<>> /\ job' = job
        \/ UNCHANGED <<stack, cur, job>> /\ (src' = src \/ job = "delete")
    BY <1>2 DEF LastEntry, Calls, DeletePCs, DirPCs, CopyPCs, MovePCs, ListPCs,
       FilePCs, LoopPCs
  <2>2. QED
    BY <2>1, FramesSame
<1>3. CASE EntryDone
  <2>1. \/ stack = <<>> /\ stack' = <<>> /\ job' = job
        \/ UNCHANGED <<stack, cur, job>> /\ (src' = src \/ job = "delete")
    BY <1>3 DEF EntryDone, Show, Quiet, Said, AbortAsked, Calls, DeletePCs,
       DirPCs, CopyPCs, MovePCs, ListPCs, FilePCs, LoopPCs
  <2>2. QED
    BY <2>1, FramesSame
<1>4. CASE Aborted
  <2>1. \/ stack = <<>> /\ stack' = <<>> /\ job' = job
        \/ UNCHANGED <<stack, cur, job>> /\ (src' = src \/ job = "delete")
    BY <1>4 DEF Aborted, Calls, DeletePCs, DirPCs, CopyPCs, MovePCs, ListPCs,
       FilePCs, LoopPCs
  <2>2. QED
    BY <2>1, FramesSame
<1>5. CASE EraseFile
  <2>1. \/ stack = <<>> /\ stack' = <<>> /\ job' = job
        \/ UNCHANGED <<stack, cur, job>> /\ (src' = src \/ job = "delete")
    BY <1>5 DEF EraseFile, Show, Quiet, Said, AbortAsked, Eraser, Calls,
       DeletePCs, DirPCs, CopyPCs, MovePCs, ListPCs, FilePCs, LoopPCs
  <2>2. QED
    BY <2>1, FramesSame
<1>6. CASE UnlinkFails
  <2>1. \/ stack = <<>> /\ stack' = <<>> /\ job' = job
        \/ UNCHANGED <<stack, cur, job>> /\ (src' = src \/ job = "delete")
    BY <1>6 DEF UnlinkFails, file_error, Retry, StopAnswers, Said, AbortAsked,
       Eraser, Calls, DeletePCs, DirPCs, CopyPCs, MovePCs, ListPCs, FilePCs,
       LoopPCs
  <2>2. QED
    BY <2>1, FramesSame
<1>7. CASE Unlink
  <2>1. \/ stack = <<>> /\ stack' = <<>> /\ job' = job
        \/ UNCHANGED <<stack, cur, job>> /\ (src' = src \/ job = "delete")
    BY <1>7 DEF Unlink, Buttons, Quiet, StopAnswers, Said, AbortAsked, Return,
       Eraser, Calls, DeletePCs, DirPCs, CopyPCs, MovePCs, ListPCs, FilePCs,
       LoopPCs
  <2>2. QED
    BY <2>1, FramesSame
<1>8. CASE EraseDir
  <2>1. \/ stack = <<>> /\ stack' = <<>> /\ job' = job
        \/ UNCHANGED <<stack, cur, job>> /\ (src' = src \/ job = "delete")
    BY <1>8 DEF EraseDir, Show, Quiet, Said, AbortAsked, Calls, DeletePCs,
       DirPCs, CopyPCs, MovePCs, ListPCs, FilePCs, LoopPCs
  <2>2. QED
    BY <2>1, FramesSame
<1>9. CASE query_recursive
  <2>1. /\ stack = <<>> /\ UNCHANGED <<cur, job, src>>
        /\ stack' = stack \/ Push(arg)
    BY <1>9 DEF query_recursive, Calls, CopyPCs, DirPCs, FilePCs
  <2>2. cur \in Top /\ arg = cur /\ arg \in Dirs
    BY <1>9 DEF query_recursive, Arguments, NodesOK
  <2>3. QED
    BY <2>1, <2>2, FramesPush, FramesSame
<1>10. CASE RecursiveErase
  <2>1. /\ stack # <<>> /\ UNCHANGED <<cur, job, src>> /\ job = "delete"
    BY <1>10 DEF RecursiveErase, Calls, LoopPCs, DeletePCs
  <2> DEFINE t(n) == [stack EXCEPT ![Len(stack)].left = @ \ {n}]
  <2>2. PICK n \in Frame.left :
           \/ stack' = stack \/ Take(n)
           \/ /\ n \in Dirs
              /\ stack' = Append(t(n), [dir |-> n, left |-> Children(n, src)])
    BY <1>10 DEF RecursiveErase, Take
  <2>3. CASE n \in Dirs /\ stack' = Append(t(n), [dir |-> n,
                                      left |-> Children(n, src)])
    <3>1. stack \in Seq(Frm) /\ Chain(stack, cur)
      BY DEF SeqsOK, Frames
    <3>2. /\ t(n) \in Seq(Frm) /\ t(n) # <<>> /\ Len(t(n)) = Len(stack)
          /\ t(n)[Len(stack)].dir = Frame.dir /\ n \notin t(n)[Len(stack)].left
      <4>1. Len(stack) \in 1..Len(stack)
        BY <2>1, LastFrame
      <4>2. t(n) \in Seq(Frm) /\ t(n) # <<>> /\ Len(t(n)) = Len(stack)
        <5>0. t(n) \in Seq(Frm)
          BY <2>1, <3>1, Taken
        <5>1. Len(t(n)) = Len(stack)
          BY <2>1, <3>1, Taken
        <5>2. Len(t(n)) > 0
          BY <2>1, <5>1, LastFrame
        <5> HIDE DEF t
        <5>3. t(n) # <<>>
          BY <5>2
        <5>4. QED
          BY <5>0, <5>1, <5>3
      <4>3. t(n)[Len(stack)].dir = stack[Len(stack)].dir
        BY <2>1, <3>1, <4>1, Taken
      <4>4. n \notin t(n)[Len(stack)].left
        BY <2>1, <3>1, <4>1, Taken
      <4> HIDE DEF t
      <4>5. QED
        BY <4>2, <4>3, <4>4 DEF Frame
    <3>3. Chain(t(n), cur)
      BY <2>1, <3>1, ChainTake
    <3>4. Parent[n] = Frame.dir
      BY <2>1, LeftOver
    <3>5. Children(n, src) \in SUBSET Children(n, Nodes)
      BY DEF Children, NodesOK
    <3>6. cur \in Top
      BY <1>10 DEF RecursiveErase, Arguments, NodesOK
    <3> HIDE DEF t
    <3>7. Chain(stack', cur)
      BY <2>3, <3>2, <3>3, <3>4, <3>5, <3>6, ChainPush
    <3>8. Chain(stack, cur)'
      BY <2>1, <3>7 DEF Chain
    <3>9. QED
      BY <2>1, <3>8 DEF Frames
  <2>4. QED
    BY <2>1, <2>2, <2>3, FramesTake, FramesSame
<1>11. CASE RecursiveFails
  <2>1. /\ stack # <<>> /\ stack' = Pop /\ cur' = cur /\ job' = job
        /\ src' = src \/ job = "delete"
    BY <1>11 DEF RecursiveFails, Leave, Up, Calls, DeletePCs, DirPCs, CopyPCs,
       MovePCs, ListPCs, FilePCs, LoopPCs
  <2>2. QED
    BY <2>1, FramesPop
<1>12. CASE RecursiveStops
  <2>1. /\ stack # <<>> /\ stack' = Pop /\ cur' = cur /\ job' = job
        /\ src' = src \/ job = "delete"
    BY <1>12 DEF RecursiveStops, Leave, Up, Calls, DeletePCs, DirPCs, CopyPCs,
       MovePCs, ListPCs, FilePCs, LoopPCs
  <2>2. QED
    BY <2>1, FramesPop
<1>13. CASE RecursiveEnd
  <2>1. /\ stack # <<>> /\ UNCHANGED <<cur, job, src>>
        /\ stack' = Pop \/ stack' = stack
    BY <1>13 DEF RecursiveEnd, Leave, Calls, LoopPCs
  <2>2. QED
    BY <2>1, FramesPop, FramesSame
<1>14. CASE RecursiveRmdir
  <2>1. /\ stack # <<>> /\ UNCHANGED <<cur, job>> /\ job = "delete"
        /\ stack' = Pop \/ stack' = stack
    BY <1>14 DEF RecursiveRmdir, Leave, Calls, LoopPCs, DeletePCs
  <2>2. QED
    BY <2>1, FramesPop, FramesSame
<1>15. CASE Rmdir
  <2>1. \/ stack = <<>> /\ stack' = <<>> /\ job' = job
        \/ UNCHANGED <<stack, cur, job>> /\ (src' = src \/ job = "delete")
    BY <1>15 DEF Rmdir, Return, Quiet, file_error, Retry, StopAnswers, Said,
       AbortAsked, Calls, DeletePCs, DirPCs, CopyPCs, MovePCs, ListPCs,
       FilePCs, LoopPCs
  <2>2. QED
    BY <2>1, FramesSame
<1>16. CASE CopyFile
  <2>1. \/ stack = <<>> /\ stack' = <<>> /\ job' = job
        \/ UNCHANGED <<stack, cur, job>> /\ (src' = src \/ job = "delete")
    BY <1>16 DEF CopyFile, Said, AbortAsked, Copier, Calls, DeletePCs, DirPCs,
       CopyPCs, MovePCs, ListPCs, FilePCs, LoopPCs
  <2>2. QED
    BY <2>1, FramesSame
<1>17. CASE CopyDirFails
  <2>1. \/ stack = <<>> /\ stack' = <<>> /\ job' = job
        \/ UNCHANGED <<stack, cur, job>> /\ (src' = src \/ job = "delete")
    BY <1>17 DEF CopyDirFails, file_error, Retry, StopAnswers, Said,
       AbortAsked,
       Return, Quiet, Copier, Calls, DeletePCs, DirPCs, CopyPCs, MovePCs,
       ListPCs, FilePCs, LoopPCs
  <2>2. QED
    BY <2>1, FramesSame
<1>18. CASE CopyDir
  <2>1. \/ stack = <<>> /\ stack' = <<>> /\ job' = job
        \/ UNCHANGED <<stack, cur, job>> /\ (src' = src \/ job = "delete")
    BY <1>18 DEF CopyDir, Quiet, Calls, DeletePCs, DirPCs, CopyPCs, MovePCs,
       ListPCs, FilePCs, LoopPCs
  <2>2. QED
    BY <2>1, FramesSame
<1>19. CASE Mkdir
  <2>1. \/ stack = <<>> /\ stack' = <<>> /\ job' = job
        \/ UNCHANGED <<stack, cur, job>> /\ (src' = src \/ job = "delete")
    BY <1>19 DEF Mkdir, Quiet, file_error, Retry, StopAnswers, Said,
       AbortAsked,
       Copier, Calls, DeletePCs, DirPCs, CopyPCs, MovePCs, ListPCs, FilePCs,
       LoopPCs
  <2>2. QED
    BY <2>1, FramesSame
<1>20. CASE OpenDir
  <2>1. UNCHANGED <<cur, job, src>> /\ (stack' = stack \/ Push(arg))
    BY <1>20 DEF OpenDir
  <2>2. /\ cur \in Top /\ arg \in Dirs
        /\ stack = <<>> => arg = cur
        /\ stack # <<>> => /\ Parent[arg] = Frame.dir
                           /\ arg \notin Frame.left
    BY <1>20 DEF OpenDir, Arguments, NodesOK, DirPCs
  <2>3. QED
    BY <2>1, <2>2, FramesPush, FramesSame
<1>21. CASE CopyDirEntry
  <2>1. /\ stack # <<>> /\ UNCHANGED <<cur, job, src>>
        /\ \E n \in Frame.left : Take(n)
    BY <1>21 DEF CopyDirEntry, Calls, LoopPCs
  <2>2. QED
    BY <2>1, FramesTake
<1>22. CASE CopiedEntry
  <2>1. \/ stack = <<>> /\ stack' = <<>> /\ job' = job
        \/ UNCHANGED <<stack, cur, job>> /\ (src' = src \/ job = "delete")
    BY <1>22 DEF CopiedEntry, Calls, DeletePCs, DirPCs, CopyPCs, MovePCs,
       ListPCs, FilePCs, LoopPCs
  <2>2. QED
    BY <2>1, FramesSame
<1>23. CASE CopyDirEnd
  <2>1. stack # <<>> /\ stack' = Pop /\ UNCHANGED <<cur, job, src>>
    BY <1>23 DEF CopyDirEnd, Calls, LoopPCs
  <2>2. QED
    BY <2>1, FramesPop
<1>24. CASE MoveFile
  <2>1. \/ stack = <<>> /\ stack' = <<>> /\ job' = job
        \/ UNCHANGED <<stack, cur, job>> /\ (src' = src \/ job = "delete")
    BY <1>24 DEF MoveFile, Said, AbortAsked, Calls, DeletePCs, DirPCs, CopyPCs,
       MovePCs, ListPCs, FilePCs, LoopPCs
  <2>2. QED
    BY <2>1, FramesSame
<1>25. CASE MoveDir
  <2>1. \/ stack = <<>> /\ stack' = <<>> /\ job' = job
        \/ UNCHANGED <<stack, cur, job>> /\ (src' = src \/ job = "delete")
    BY <1>25 DEF MoveDir, Show, Quiet, Said, AbortAsked, Calls, DeletePCs,
       DirPCs, CopyPCs, MovePCs, ListPCs, FilePCs, LoopPCs
  <2>2. QED
    BY <2>1, FramesSame
<1>26. CASE MoveDirStat
  <2>1. \/ stack = <<>> /\ stack' = <<>> /\ job' = job
        \/ UNCHANGED <<stack, cur, job>> /\ (src' = src \/ job = "delete")
    BY <1>26 DEF MoveDirStat, Quiet, file_error, Retry, StopAnswers, Said,
       AbortAsked, Calls, DeletePCs, DirPCs, CopyPCs, MovePCs, ListPCs,
       FilePCs, LoopPCs
  <2>2. QED
    BY <2>1, FramesSame
<1>27. CASE Rename
  <2>1. \/ stack = <<>> /\ stack' = <<>> /\ job' = job
        \/ UNCHANGED <<stack, cur, job>> /\ (src' = src \/ job = "delete")
    BY <1>27 DEF Rename, Return, Quiet, Calls, DeletePCs, DirPCs, CopyPCs,
       MovePCs, ListPCs, FilePCs, LoopPCs
  <2>2. QED
    BY <2>1, FramesSame
<1>28. CASE RenameFails
  <2>1. \/ stack = <<>> /\ stack' = <<>> /\ job' = job
        \/ UNCHANGED <<stack, cur, job>> /\ (src' = src \/ job = "delete")
    BY <1>28 DEF RenameFails, Quiet, file_error, Retry, StopAnswers, Said,
       AbortAsked, Calls, DeletePCs, DirPCs, CopyPCs, MovePCs, ListPCs,
       FilePCs, LoopPCs
  <2>2. QED
    BY <2>1, FramesSame
<1>29. CASE Moved
  <2>1. \/ stack = <<>> /\ stack' = <<>> /\ job' = job
        \/ UNCHANGED <<stack, cur, job>> /\ (src' = src \/ job = "delete")
    BY <1>29 DEF Moved, Buttons, Quiet, StopAnswers, Said, AbortAsked, Calls,
       DeletePCs, DirPCs, CopyPCs, MovePCs, ListPCs, FilePCs, LoopPCs
  <2>2. QED
    BY <2>1, FramesSame
<1>30. CASE EraseList
  <2>1. \/ stack = <<>> /\ stack' = <<>> /\ job' = job
        \/ UNCHANGED <<stack, cur, job>> /\ (src' = src \/ job = "delete")
    BY <1>30 DEF EraseList, Quiet, Calls, DeletePCs, DirPCs, CopyPCs, MovePCs,
       ListPCs, FilePCs, LoopPCs
  <2>2. QED
    BY <2>1, FramesSame
<1>31. CASE Erased
  <2>1. \/ stack = <<>> /\ stack' = <<>> /\ job' = job
        \/ UNCHANGED <<stack, cur, job>> /\ (src' = src \/ job = "delete")
    BY <1>31 DEF Erased, Quiet, Calls, DeletePCs, DirPCs, CopyPCs, MovePCs,
       ListPCs, FilePCs, LoopPCs
  <2>2. QED
    BY <2>1, FramesSame
<1>32. CASE EraseDirIffEmpty
  <2>1. \/ stack = <<>> /\ stack' = <<>> /\ job' = job
        \/ UNCHANGED <<stack, cur, job>> /\ (src' = src \/ job = "delete")
    BY <1>32 DEF EraseDirIffEmpty, IffEmpty, AbortAsked, Calls, DeletePCs,
       DirPCs, CopyPCs, MovePCs, ListPCs, FilePCs, LoopPCs
  <2>2. QED
    BY <2>1, FramesSame
<1>33. CASE RmdirIffEmpty
  <2>1. \/ stack = <<>> /\ stack' = <<>> /\ job' = job
        \/ UNCHANGED <<stack, cur, job>> /\ (src' = src \/ job = "delete")
    BY <1>33 DEF RmdirIffEmpty, IffEmpty, AbortAsked, Retry, StopAnswers,
       Calls,
       DeletePCs, DirPCs, CopyPCs, MovePCs, ListPCs, FilePCs, LoopPCs
  <2>2. QED
    BY <2>1, FramesSame
<1>34. CASE UNCHANGED vars
  BY <1>34, FramesSame DEF vars
<1>35. QED
  BY <1>1, <1>2, <1>3, <1>4, <1>5, <1>6, <1>7, <1>8, <1>9, <1>10, <1>11,
     <1>12, <1>13, <1>14, <1>15, <1>16, <1>17, <1>18, <1>19, <1>20, <1>21,
     <1>22, <1>23, <1>24, <1>25, <1>26, <1>27, <1>28, <1>29, <1>30, <1>31,
     <1>32, <1>33, <1>34
     DEF Next, Done, Step, panel_operate, erase_dir, copy_dir_dir, move_dir_dir

\* What a step takes away belongs to the entry being processed, and goes with
\* all that is in it.
Removed(S) ==
    /\ S \subseteq Nodes /\ src' = src \ S
    /\ \A n \in src : Parent[n] \in S => n \in S
    /\ cur' = cur /\ cur \in Top /\ pc \notin RestPCs
    /\ \A n \in S : cur \in Path[n]

\* A file or an empty directory can go by itself.
LEMMA RemovedOne ==
    ASSUME NodesOK, NEW x \in Nodes, src' = src \ {x}, cur' = cur,
           cur \in Top, pc \notin RestPCs, cur \in Path[x],
           x \notin Dirs \/ Children(x, src) = {}
    PROVE  \E S : Removed(S)
<1>1. ASSUME NEW n \in src, Parent[n] = x PROVE FALSE
  <2>1. n \in Nodes /\ n \in Children(x, src)
    BY <1>1 DEF NodesOK, Children
  <2>2. x \in Dirs
    <3>1. 0 \notin Nodes
      BY DEF Nodes
    <3>2. QED
      BY <1>1, <2>1, <3>1
  <2>3. QED
    BY <2>1, <2>2
<1>2. Removed({x})
  BY <1>1 DEF Removed
<1>3. QED
  BY <1>2

\* Every step takes away nothing, or what is Removed.
LEMMA WhatGoes ==
    ASSUME ModesOK, NodesOK, SeqsOK, Calls, Arguments, Frames, [Next]_vars
    PROVE  src' = src \/ \E S : Removed(S)
<1>1. CASE NextEntry
  BY <1>1 DEF NextEntry, Quiet
<1>2. CASE LastEntry
  BY <1>2 DEF LastEntry
<1>3. CASE EntryDone
  BY <1>3 DEF EntryDone, Show, Quiet, Said, AbortAsked
<1>4. CASE Aborted
  BY <1>4 DEF Aborted
<1>5. CASE EraseFile
  BY <1>5 DEF EraseFile, Show, Quiet, Said, AbortAsked, Eraser
<1>6. CASE UnlinkFails
  BY <1>6 DEF UnlinkFails, file_error, Retry, StopAnswers, Said, AbortAsked,
     Eraser
<1>7. CASE Unlink
  <2>1. \/ src' = src
        \/ /\ src' = src \ {arg}
           /\ arg \notin Dirs \/ Children(arg, src) = {}
    BY <1>7 DEF Unlink, Arguments, DeletePCs, DirPCs, CopyPCs, MovePCs,
       ListPCs,
       FilePCs, LoopPCs
  <2>2. arg \in Nodes /\ cur \in Path[arg] /\ cur \in Top
    BY <1>7 DEF Unlink, Arguments, NodesOK, Calls,
       LoopPCs
  <2>3. cur' = cur /\ pc \notin RestPCs
    BY <1>7 DEF Unlink, RestPCs
  <2>4. QED
    BY <2>1, <2>2, <2>3, RemovedOne
<1>8. CASE EraseDir
  BY <1>8 DEF EraseDir, Show, Quiet, Said, AbortAsked
<1>9. CASE query_recursive
  BY <1>9 DEF query_recursive, Push, Return, Quiet, Said, AbortAsked
<1>10. CASE RecursiveErase
  BY <1>10 DEF RecursiveErase, Quiet, Take
<1>11. CASE RecursiveFails
  BY <1>11 DEF RecursiveFails, Leave, Up
<1>12. CASE RecursiveStops
  BY <1>12 DEF RecursiveStops, Leave, Up
<1>13. CASE RecursiveEnd
  BY <1>13 DEF RecursiveEnd, Leave, Up, AbortAsked
<1>14. CASE RecursiveRmdir
  <2>1. \/ src' = src
        \/ /\ src' = src \ {Frame.dir}
           /\ Frame.dir \notin Dirs \/ Children(Frame.dir, src) = {}
    BY <1>14 DEF RecursiveRmdir, Arguments, DeletePCs, DirPCs, CopyPCs,
       MovePCs,
       ListPCs, FilePCs, LoopPCs
  <2>2. Frame.dir \in Nodes /\ cur \in Path[Frame.dir] /\ cur \in Top
    BY <1>14, LeftOver, LastFrame DEF RecursiveRmdir, Arguments, NodesOK,
       Calls,
       LoopPCs
  <2>3. cur' = cur /\ pc \notin RestPCs
    BY <1>14 DEF RecursiveRmdir, RestPCs
  <2>4. QED
    BY <2>1, <2>2, <2>3, RemovedOne
<1>15. CASE Rmdir
  <2>1. \/ src' = src
        \/ /\ src' = src \ {arg}
           /\ arg \notin Dirs \/ Children(arg, src) = {}
    BY <1>15 DEF Rmdir, Arguments, DeletePCs, DirPCs, CopyPCs, MovePCs,
       ListPCs,
       FilePCs, LoopPCs
  <2>2. arg \in Nodes /\ cur \in Path[arg] /\ cur \in Top
    BY <1>15 DEF Rmdir, Arguments, NodesOK, Calls,
       LoopPCs
  <2>3. cur' = cur /\ pc \notin RestPCs
    BY <1>15 DEF Rmdir, RestPCs
  <2>4. QED
    BY <2>1, <2>2, <2>3, RemovedOne
<1>16. CASE CopyFile
  BY <1>16 DEF CopyFile, Said, AbortAsked, Copier
<1>17. CASE CopyDirFails
  BY <1>17 DEF CopyDirFails, file_error, Retry, StopAnswers, Said, AbortAsked,
     Return, Quiet, Copier
<1>18. CASE CopyDir
  BY <1>18 DEF CopyDir, Quiet
<1>19. CASE Mkdir
  BY <1>19 DEF Mkdir, Quiet, file_error, Retry, StopAnswers, Said, AbortAsked,
     Copier
<1>20. CASE OpenDir
  BY <1>20 DEF OpenDir, Push, Copier
<1>21. CASE CopyDirEntry
  BY <1>21 DEF CopyDirEntry, Take, Quiet
<1>22. CASE CopiedEntry
  BY <1>22 DEF CopiedEntry
<1>23. CASE CopyDirEnd
  BY <1>23 DEF CopyDirEnd
<1>24. CASE MoveFile
  <2>1. \/ src' = src
        \/ /\ src' = src \ {arg}
           /\ arg \notin Dirs \/ Children(arg, src) = {}
    BY <1>24 DEF MoveFile, Arguments, DeletePCs, DirPCs, CopyPCs, MovePCs,
       ListPCs, FilePCs, LoopPCs
  <2>2. arg \in Nodes /\ cur \in Path[arg] /\ cur \in Top
    BY <1>24 DEF MoveFile, Arguments, NodesOK, Calls,
       LoopPCs
  <2>3. cur' = cur /\ pc \notin RestPCs
    BY <1>24 DEF MoveFile, RestPCs
  <2>4. QED
    BY <2>1, <2>2, <2>3, RemovedOne
<1>25. CASE MoveDir
  BY <1>25 DEF MoveDir, Show, Quiet, Said, AbortAsked
<1>26. CASE MoveDirStat
  BY <1>26 DEF MoveDirStat, Quiet, file_error, Retry, StopAnswers, Said,
     AbortAsked
<1>27. CASE Rename
  <2>1. /\ src' = src \ Subtree(arg) /\ cur' = cur /\ arg = cur
        /\ pc \notin RestPCs /\ cur \in Top
    BY <1>27 DEF Rename, Arguments, MovePCs, RestPCs, NodesOK
  <2>2. \A n \in src : Parent[n] \in Subtree(arg) => n \in Subtree(arg)
    <3>1. 0 \notin Nodes
      BY DEF Nodes
    <3>2. QED
      BY <3>1, ChildPath DEF Subtree, NodesOK
  <2>3. Removed(Subtree(arg))
    BY <2>1, <2>2 DEF Removed, Subtree
  <2>4. QED
    BY <2>3
<1>28. CASE RenameFails
  BY <1>28 DEF RenameFails, Quiet, file_error, Retry, StopAnswers, Said,
     AbortAsked
<1>29. CASE Moved
  BY <1>29 DEF Moved, Buttons, Quiet, StopAnswers, Said, AbortAsked
<1>30. CASE EraseList
  BY <1>30 DEF EraseList, Quiet
<1>31. CASE Erased
  BY <1>31 DEF Erased, Quiet
<1>32. CASE EraseDirIffEmpty
  BY <1>32 DEF EraseDirIffEmpty, IffEmpty, AbortAsked
<1>33. CASE RmdirIffEmpty
  <2>1. \/ src' = src
        \/ /\ src' = src \ {arg}
           /\ arg \notin Dirs \/ Children(arg, src) = {}
    BY <1>33 DEF RmdirIffEmpty, Arguments, DeletePCs, DirPCs, CopyPCs, MovePCs,
       ListPCs, FilePCs, LoopPCs
  <2>2. arg \in Nodes /\ cur \in Path[arg] /\ cur \in Top
    BY <1>33 DEF RmdirIffEmpty, Arguments, NodesOK, Calls,
       LoopPCs
  <2>3. cur' = cur /\ pc \notin RestPCs
    BY <1>33 DEF RmdirIffEmpty, RestPCs
  <2>4. QED
    BY <2>1, <2>2, <2>3, RemovedOne
<1>34. CASE UNCHANGED vars
  BY <1>34 DEF vars
<1>35. QED
  BY <1>1, <1>2, <1>3, <1>4, <1>5, <1>6, <1>7, <1>8, <1>9, <1>10, <1>11,
     <1>12, <1>13, <1>14, <1>15, <1>16, <1>17, <1>18, <1>19, <1>20, <1>21,
     <1>22, <1>23, <1>24, <1>25, <1>26, <1>27, <1>28, <1>29, <1>30, <1>31,
     <1>32, <1>33, <1>34
     DEF Next, Done, Step, panel_operate, erase_dir, copy_dir_dir, move_dir_dir

\* What is in a directory goes before it.
LEMMA SrcClosedStep ==
    ASSUME NodesOK, SrcClosed, src' = src \/ \E S : Removed(S)
    PROVE  SrcClosed'
BY DEF SrcClosed, Removed, NodesOK

\* A refused directory is not touched by what comes after it.
LEMMA RefusedKept ==
    ASSUME NodesOK, Refused, src' = src \/ \E S : Removed(S)
    PROVE  \A d \in refused : Subtree(d) \subseteq src'
<1>1. CASE src' = src
  BY <1>1 DEF Refused
<1>2. ASSUME NEW S, Removed(S)
      PROVE  \A d \in refused : Subtree(d) \subseteq src'
  <2>1. SUFFICES ASSUME NEW d \in refused, NEW n \in Subtree(d), n \in S
                 PROVE  FALSE
    BY <1>2 DEF Removed, Refused
  <2>2. n \in Nodes /\ cur \in Path[n] /\ d \in Path[n] /\ cur \in Top
    BY <1>2, <2>1 DEF Removed, Subtree
  <2>3. d \in Top /\ d # cur
    BY <1>2 DEF Refused, Removed
  <2>4. QED
    BY <2>2, <2>3, OneTop
<1>3. QED
  BY <1>1, <1>2

\* Every step keeps Refused.
LEMMA RefusedStep ==
    ASSUME ModesOK, NodesOK, SeqsOK, Calls, Arguments, Refused, Untouched, \A
           d \in refused : Subtree(d) \subseteq src', [Next]_vars
    PROVE  Refused'
<1> USE DEF Refused, RestPCs
<1>1. CASE NextEntry
  <2>1. cur' \in Nat /\ cur' > cur /\ cur \in Nat
    BY <1>1 DEF NextEntry, Later, NodesOK, Top, Nodes
  <2>2. UNCHANGED <<refused, job>>
    BY <1>1 DEF NextEntry
  <2>3. \A d \in Top : d \in Nat
    BY DEF Top, Nodes
  <2>4. QED
    BY <2>1, <2>2, <2>3
<1>2. CASE LastEntry
  BY <1>2 DEF LastEntry
<1>3. CASE EntryDone
  BY <1>3 DEF EntryDone, Show, Quiet, Said, AbortAsked
<1>4. CASE Aborted
  BY <1>4 DEF Aborted
<1>5. CASE EraseFile
  BY <1>5 DEF EraseFile, Show, Quiet, Said, AbortAsked, Eraser
<1>6. CASE UnlinkFails
  BY <1>6 DEF UnlinkFails, file_error, Retry, StopAnswers, Said, AbortAsked,
     Eraser
<1>7. CASE Unlink
  BY <1>7 DEF Unlink, Buttons, Quiet, StopAnswers, Said, AbortAsked, Return,
     Eraser
<1>8. CASE EraseDir
  BY <1>8 DEF EraseDir, Show, Quiet, Said, AbortAsked
<1>9. CASE query_recursive
  <2>1. /\ UNCHANGED <<cur, job>>
        /\ \/ UNCHANGED refused
           \/ refused' = refused \cup {arg} /\ pc' = "returned"
    BY <1>9 DEF query_recursive, Return
  <2>0. job = "delete" /\ \A d \in refused : d # cur
    BY <1>9 DEF query_recursive, Calls, DeletePCs
  <2>2. arg = cur /\ cur \in Top /\ cur <= cur
    BY <1>9 DEF query_recursive, Arguments, NodesOK, Top, Nodes
  <2>3. Subtree(cur) \subseteq src /\ src' = src
    BY <1>9, <2>2 DEF query_recursive, Untouched, Starting, Subtree
  <2>4. QED
    BY <2>0, <2>1, <2>2, <2>3
<1>10. CASE RecursiveErase
  BY <1>10 DEF RecursiveErase, Quiet, Take
<1>11. CASE RecursiveFails
  BY <1>11 DEF RecursiveFails, Leave, Up
<1>12. CASE RecursiveStops
  BY <1>12 DEF RecursiveStops, Leave, Up
<1>13. CASE RecursiveEnd
  BY <1>13 DEF RecursiveEnd, Leave, Up, AbortAsked
<1>14. CASE RecursiveRmdir
  BY <1>14 DEF RecursiveRmdir, Leave, Up, Retry, StopAnswers, AbortAsked
<1>15. CASE Rmdir
  BY <1>15 DEF Rmdir, Return, Quiet, file_error, Retry, StopAnswers, Said,
     AbortAsked
<1>16. CASE CopyFile
  BY <1>16 DEF CopyFile, Said, AbortAsked, Copier
<1>17. CASE CopyDirFails
  BY <1>17 DEF CopyDirFails, file_error, Retry, StopAnswers, Said, AbortAsked,
     Return, Quiet, Copier
<1>18. CASE CopyDir
  BY <1>18 DEF CopyDir, Quiet
<1>19. CASE Mkdir
  BY <1>19 DEF Mkdir, Quiet, file_error, Retry, StopAnswers, Said, AbortAsked,
     Copier
<1>20. CASE OpenDir
  BY <1>20 DEF OpenDir, Push, Copier
<1>21. CASE CopyDirEntry
  BY <1>21 DEF CopyDirEntry, Take, Quiet
<1>22. CASE CopiedEntry
  BY <1>22 DEF CopiedEntry
<1>23. CASE CopyDirEnd
  BY <1>23 DEF CopyDirEnd
<1>24. CASE MoveFile
  BY <1>24 DEF MoveFile, Said, AbortAsked
<1>25. CASE MoveDir
  BY <1>25 DEF MoveDir, Show, Quiet, Said, AbortAsked
<1>26. CASE MoveDirStat
  BY <1>26 DEF MoveDirStat, Quiet, file_error, Retry, StopAnswers, Said,
     AbortAsked
<1>27. CASE Rename
  BY <1>27 DEF Rename, Return, Quiet
<1>28. CASE RenameFails
  BY <1>28 DEF RenameFails, Quiet, file_error, Retry, StopAnswers, Said,
     AbortAsked
<1>29. CASE Moved
  BY <1>29 DEF Moved, Buttons, Quiet, StopAnswers, Said, AbortAsked
<1>30. CASE EraseList
  BY <1>30 DEF EraseList, Quiet
<1>31. CASE Erased
  BY <1>31 DEF Erased, Quiet
<1>32. CASE EraseDirIffEmpty
  BY <1>32 DEF EraseDirIffEmpty, IffEmpty, AbortAsked
<1>33. CASE RmdirIffEmpty
  BY <1>33 DEF RmdirIffEmpty, IffEmpty, AbortAsked, Retry, StopAnswers
<1>34. CASE UNCHANGED vars
  BY <1>34 DEF vars
<1>35. QED
  BY <1>1, <1>2, <1>3, <1>4, <1>5, <1>6, <1>7, <1>8, <1>9, <1>10, <1>11,
     <1>12, <1>13, <1>14, <1>15, <1>16, <1>17, <1>18, <1>19, <1>20, <1>21,
     <1>22, <1>23, <1>24, <1>25, <1>26, <1>27, <1>28, <1>29, <1>30, <1>31,
     <1>32, <1>33, <1>34
     DEF Next, Done, Step, panel_operate, erase_dir, copy_dir_dir, move_dir_dir

\* What happens to the entry being processed leaves the later ones alone.
Moves ==
    /\ cur' = cur \/ (pc = "next" /\ cur' > cur /\ cur' \in Nat)
    /\ UNCHANGED <<src, skipped>> \/ (cur' = cur /\ pc \notin RestPCs)
    /\ \/ skipped' = skipped
       \/ skipped' = skipped \cup {arg} /\ pc = "copy_file"
    /\ Starting' => /\ UNCHANGED <<src, skipped>>
                    /\ (Starting /\ cur' = cur) \/ cur' > cur

\* Every step is one of those.
LEMMA MovesStep ==
    ASSUME ModesOK, NodesOK, SeqsOK, Calls, Arguments, Frames, [Next]_vars
    PROVE  Moves
<1> USE DEF Moves, Starting, MovePCs, DirPCs, RestPCs
<1>1. CASE NextEntry
  <2>1. cur' \in Nat /\ cur' > cur
    BY <1>1 DEF NextEntry, Later, NodesOK, Top, Nodes
  <2>2. pc = "next" /\ UNCHANGED <<src, skipped>>
    BY <1>1 DEF NextEntry
  <2>3. QED
    BY <2>1, <2>2
<1>2. CASE LastEntry
  BY <1>2 DEF LastEntry
<1>3. CASE EntryDone
  BY <1>3 DEF EntryDone, Show, Quiet, Said, AbortAsked
<1>4. CASE Aborted
  BY <1>4 DEF Aborted
<1>5. CASE EraseFile
  BY <1>5 DEF EraseFile, Show, Quiet, Said, AbortAsked, Eraser
<1>6. CASE UnlinkFails
  BY <1>6 DEF UnlinkFails, file_error, Retry, StopAnswers, Said, AbortAsked,
     Eraser
<1>7. CASE Unlink
  BY <1>7 DEF Unlink, Buttons, Quiet, StopAnswers, Said, AbortAsked, Return,
     Eraser
<1>8. CASE EraseDir
  BY <1>8 DEF EraseDir, Show, Quiet, Said, AbortAsked
<1>9. CASE query_recursive
  BY <1>9 DEF query_recursive, Push, Return, Quiet, Said, AbortAsked
<1>10. CASE RecursiveErase
  BY <1>10 DEF RecursiveErase, Quiet, Take
<1>11. CASE RecursiveFails
  BY <1>11 DEF RecursiveFails, Leave, Up
<1>12. CASE RecursiveStops
  BY <1>12 DEF RecursiveStops, Leave, Up
<1>13. CASE RecursiveEnd
  BY <1>13 DEF RecursiveEnd, Leave, Up, AbortAsked
<1>14. CASE RecursiveRmdir
  BY <1>14 DEF RecursiveRmdir, Leave, Up, Retry, StopAnswers, AbortAsked
<1>15. CASE Rmdir
  BY <1>15 DEF Rmdir, Return, Quiet, file_error, Retry, StopAnswers, Said,
     AbortAsked
<1>16. CASE CopyFile
  BY <1>16 DEF CopyFile, Said, AbortAsked, Copier
<1>17. CASE CopyDirFails
  BY <1>17 DEF CopyDirFails, file_error, Retry, StopAnswers, Said, AbortAsked,
     Return, Quiet, Copier
<1>18. CASE CopyDir
  BY <1>18 DEF CopyDir, Quiet
<1>19. CASE Mkdir
  BY <1>19 DEF Mkdir, Quiet, file_error, Retry, StopAnswers, Said, AbortAsked,
     Copier
<1>20. CASE OpenDir
  BY <1>20 DEF OpenDir, Push, Copier
<1>21. CASE CopyDirEntry
  <2>1. stack' # <<>>
    <3>1. stack \in Seq(Frm) /\ stack # <<>>
      BY <1>21 DEF CopyDirEntry, SeqsOK, Calls, LoopPCs
    <3>2. QED
      BY <1>21, <3>1, Taken DEF CopyDirEntry, Take
  <2>2. UNCHANGED <<src, skipped, cur>> /\ pc' \in {"copy_dir", "copy_file"}
    BY <1>21 DEF CopyDirEntry
  <2>3. QED
    BY <2>1, <2>2
<1>22. CASE CopiedEntry
  BY <1>22 DEF CopiedEntry
<1>23. CASE CopyDirEnd
  BY <1>23 DEF CopyDirEnd
<1>24. CASE MoveFile
  BY <1>24 DEF MoveFile, Said, AbortAsked
<1>25. CASE MoveDir
  BY <1>25 DEF MoveDir, Show, Quiet, Said, AbortAsked
<1>26. CASE MoveDirStat
  BY <1>26 DEF MoveDirStat, Quiet, file_error, Retry, StopAnswers, Said,
     AbortAsked
<1>27. CASE Rename
  BY <1>27 DEF Rename, Return, Quiet
<1>28. CASE RenameFails
  BY <1>28 DEF RenameFails, Quiet, file_error, Retry, StopAnswers, Said,
     AbortAsked
<1>29. CASE Moved
  BY <1>29 DEF Moved, Buttons, Quiet, StopAnswers, Said, AbortAsked
<1>30. CASE EraseList
  BY <1>30 DEF EraseList, Quiet
<1>31. CASE Erased
  BY <1>31 DEF Erased, Quiet
<1>32. CASE EraseDirIffEmpty
  BY <1>32 DEF EraseDirIffEmpty, IffEmpty, AbortAsked
<1>33. CASE RmdirIffEmpty
  BY <1>33 DEF RmdirIffEmpty, IffEmpty, AbortAsked, Retry, StopAnswers
<1>34. CASE UNCHANGED vars
  BY <1>34 DEF vars
<1>35. QED
  BY <1>1, <1>2, <1>3, <1>4, <1>5, <1>6, <1>7, <1>8, <1>9, <1>10, <1>11,
     <1>12, <1>13, <1>14, <1>15, <1>16, <1>17, <1>18, <1>19, <1>20, <1>21,
     <1>22, <1>23, <1>24, <1>25, <1>26, <1>27, <1>28, <1>29, <1>30, <1>31,
     <1>32, <1>33, <1>34
     DEF Next, Done, Step, panel_operate, erase_dir, copy_dir_dir, move_dir_dir

\* Only what is in the current tagged entry goes, or is skipped.
LEMMA UntouchedStep ==
    ASSUME NodesOK, Arguments, Untouched, Moves, cur' \in Top \cup {0},
           src' = src \/ \E S : Removed(S)
    PROVE  Untouched'
<1>1. SUFFICES ASSUME NEW t \in Top, t > cur' \/ (t = cur' /\ Starting'),
                      NEW n \in Nodes, t \in Path[n]
               PROVE  n \in src' \ skipped'
  BY DEF Untouched
<1>2. t \in Nat /\ cur \in Nat /\ cur' \in Nat
  BY DEF Top, Nodes, NodesOK
<1>3. CASE t = cur' /\ Starting'
  <2>1. UNCHANGED <<src, skipped>> /\ (t > cur \/ (t = cur /\ Starting))
    BY <1>2, <1>3 DEF Moves
  <2>2. QED
    BY <1>1, <2>1 DEF Untouched
<1>4. CASE t > cur'
  <2>1. t > cur /\ t # cur
    BY <1>2, <1>4 DEF Moves
  <2>2. n \in src \ skipped
    BY <1>1, <2>1 DEF Untouched
  <2>3. cur \in Top => cur \notin Path[n]
    BY <1>1, <2>1, OneTop
  <2>4. n \in src'
    BY <2>2, <2>3 DEF Removed
  <2>5. n \notin skipped'
    <3>1. CASE skipped' = skipped
      BY <2>2, <3>1
    <3>2. CASE skipped' = skipped \cup {arg} /\ pc = "copy_file"
      <4>1. cur \in Top /\ cur \in Path[arg]
        BY <3>2 DEF Arguments, NodesOK
      <4>2. QED
        BY <2>2, <2>3, <3>2, <4>1
    <3>3. QED
      BY <3>1, <3>2 DEF Moves
  <2>6. QED
    BY <2>4, <2>5
<1>5. QED
  BY <1>1, <1>3, <1>4

\* Ahead through the ways in which the stack, the list and the argument change.
LEMMA AheadFree ==
    ASSUME \/ Dealt' = {}
           \/ stack' = <<>>,
           pc' \in DirPCs \cup {"copy_file"} =>
              \A x \in Dealt' : arg' \notin Path[x]
    PROVE  Ahead'
<1>1. Len(<<>>) = 0 /\ 1..0 = {}
  OBVIOUS
<1>2. QED
  BY <1>1 DEF Ahead

\* No entry is dealt with, and none is added to those to come.
LEMMA AheadSame ==
    ASSUME Ahead, Dealt' \subseteq Dealt,
           \A k \in 1..Len(stack') : \E j \in 1..Len(stack) :
               stack'[k].left \subseteq stack[j].left,
           pc' \in DirPCs \cup {"copy_file"} =>
               \/ pc \in DirPCs \cup {"copy_file"} /\ arg' = arg
               \/ \E k \in 1..Len(stack) : arg' \in stack[k].left
    PROVE  Ahead'
<1>1. SUFFICES ASSUME NEW x \in Dealt'
               PROVE  /\ \A k \in 1..Len(stack') :
                            \A m \in stack'[k].left : m \notin Path[x]
                      /\ pc' \in DirPCs \cup {"copy_file"}
                            => arg' \notin Path[x]
  BY DEF Ahead
<1>2. /\ \A k \in 1..Len(stack) : \A m \in stack[k].left : m \notin Path[x]
      /\ pc \in DirPCs \cup {"copy_file"} => arg \notin Path[x]
  BY DEF Ahead
<1>3. QED
  BY <1>2

\* The entry that was taken is dealt with.
LEMMA AheadMore ==
    ASSUME SeqsOK, Frames, Ahead, arg \in Nodes, cur \in Top,
           Dealt' \subseteq Dealt \cup {arg}, stack' = stack,
           stack # <<>> => /\ Parent[arg] = Frame.dir
                           /\ arg \notin Frame.left,
           pc' \notin DirPCs \cup {"copy_file"}
    PROVE  Ahead'
<1>1. SUFFICES ASSUME NEW k \in 1..Len(stack), NEW m \in stack[k].left,
                      m \in Path[arg]
               PROVE  FALSE
  BY DEF Ahead
<1> DEFINE n == Len(stack)
<1>2. n \in Nat /\ k \in 1..n /\ n \in 1..n /\ stack # <<>>
  BY LenProperties DEF SeqsOK
<1>3. stack[k].dir \in Dirs /\ stack[k] \in Frm
  <2>1. stack[k] \in Frm
    BY <1>2, ElementOfSeq DEF SeqsOK
  <2>2. QED
    BY <2>1 DEF Frm
<1>4. m \in Nodes /\ Parent[m] = stack[k].dir
  BY DEF Frames, Chain, Children
<1>5. Parent[arg] = stack[n].dir /\ arg \notin stack[n].left
  BY <1>2 DEF Frame
<1>6. \A j \in 1..(n - 1) : stack[j].dir < stack[n].dir
  BY <1>2 DEF Frames, Chain
<1>7. \A j \in 1..n : stack[j].dir \in Nat
  <2>1. \A j \in 1..n : stack[j] \in Frm
    BY ElementOfSeq DEF SeqsOK
  <2>2. \A d \in Dirs : d \in Nat
    BY DEF Nodes
  <2>3. QED
    BY <2>1, <2>2 DEF Frm
<1>8. CASE m = arg
  <2>1. stack[k].dir = stack[n].dir
    BY <1>4, <1>5, <1>8
  <2>2. k = n
    BY <1>2, <1>6, <1>7, <2>1
  <2>3. QED
    BY <1>5, <1>8, <2>2
<1>9. CASE m # arg
  <2>1. m \in Path[stack[n].dir]
    BY <1>1, <1>5, <1>9, PathParent
  <2>2. PICK j \in 1..n : m = stack[j].dir
    BY <1>2, <2>1 DEF Frames, Chain
  <2>3. CASE j = 1
    <3>1. m = cur
      BY <1>2, <2>2, <2>3 DEF Frames, Chain
    <3>2. QED
      <4>1. Parent[m] = 0 /\ 0 \notin Nodes
        BY <3>1 DEF Top, Nodes
      <4>2. QED
        BY <1>3, <1>4, <4>1
  <2>4. CASE j # 1
    <3>1. j - 1 \in 1..(n - 1) /\ (j - 1) + 1 = j
      BY <1>2, <2>4
    <3>2. /\ Parent[stack[(j - 1) + 1].dir] = stack[j - 1].dir
          /\ stack[(j - 1) + 1].dir \notin stack[j - 1].left
      BY <3>1 DEF Frames, Chain
    <3>3. Parent[m] = stack[j - 1].dir /\ m \notin stack[j - 1].left
      BY <2>2, <3>1, <3>2
    <3>4. j - 1 \in 1..n /\ k # j - 1
      BY <1>1, <1>2, <3>1, <3>3
    <3>5. \A i \in 1..(k - 1) : stack[i].dir < stack[k].dir
      BY <1>2 DEF Frames, Chain
    <3>6. \A i \in 1..((j - 1) - 1) : stack[i].dir < stack[j - 1].dir
      BY <3>4 DEF Frames, Chain
    <3>7. stack[k].dir # stack[j - 1].dir
      <4>1. j - 1 \in 1..(k - 1) \/ k \in 1..((j - 1) - 1)
        BY <1>2, <3>4
      <4>2. stack[k].dir \in Nat /\ stack[j - 1].dir \in Nat
        BY <1>2, <1>7, <3>4
      <4>3. QED
        BY <3>5, <3>6, <4>1, <4>2
    <3>8. QED
      BY <1>4, <3>3, <3>7
  <2>5. QED
    BY <2>3, <2>4
<1>10. QED
  BY <1>8, <1>9

\* A directory that nothing of was dealt with is entered.
LEMMA AheadPush ==
    ASSUME NodesOK, SeqsOK, Ahead, arg \in Dirs, Push(arg), Dealt' = Dealt,
           pc \in DirPCs, pc' \notin DirPCs \cup {"copy_file"}
    PROVE  Ahead'
<1>1. Children(arg, src) \in SUBSET Nodes
  BY DEF Children, NodesOK
<1>2. /\ Len(stack') = Len(stack) + 1 /\ Len(stack) \in Nat
      /\ \A k \in 1..Len(stack) : stack'[k] = stack[k]
      /\ stack'[Len(stack')].left = Children(arg, src)
  BY <1>1, Pushed, LenProperties DEF SeqsOK, Push
<1>3. SUFFICES ASSUME NEW x \in Dealt, NEW k \in 1..Len(stack'),
                      NEW m \in stack'[k].left, m \in Path[x]
               PROVE  FALSE
  BY DEF Ahead
<1>4. k \in 1..Len(stack) \/ k = Len(stack')
  BY <1>2
<1>5. CASE k \in 1..Len(stack)
  BY <1>2, <1>3, <1>5 DEF Ahead
<1>6. CASE k = Len(stack')
  <2>1. m \in Nodes /\ Parent[m] = arg /\ Parent[m] # 0 /\ x \in Nodes
    <3>1. m \in Nodes /\ Parent[m] = arg
      BY <1>2, <1>6 DEF Children, NodesOK
    <3>2. x \in Nodes
      BY ElementOfSeq DEF Dealt, NodesOK, SeqsOK
    <3>3. QED
      BY <3>1, <3>2 DEF Nodes
  <2>2. arg \in Path[m]
    BY <2>1, PathSelf
  <2>3. arg \in Path[x]
    BY <1>3, <2>1, <2>2, PathUp
  <2>4. QED
    BY <1>3, <2>3 DEF Ahead
<1>7. QED
  BY <1>4, <1>5, <1>6

\* The list gets longer by what is noted down.
LEMMA DealtMore ==
    ASSUME SeqsOK, arg \in Nodes, skipped' = skipped,
           erase_list' = erase_list \/ erase_list' = Append(erase_list, arg)
    PROVE  Dealt' \subseteq Dealt \cup {arg}
<1>1. CASE erase_list' = erase_list
  BY <1>1 DEF Dealt
<1>2. CASE erase_list' = Append(erase_list, arg)
  <2>1. /\ Len(erase_list') = Len(erase_list) + 1
        /\ \A i \in 1..Len(erase_list) : erase_list'[i] = erase_list[i]
        /\ erase_list'[Len(erase_list) + 1] = arg
        /\ Len(erase_list) \in Nat
    BY <1>2, Listed, LenProperties DEF SeqsOK
  <2>2. \A i \in 1..Len(erase_list') :
           i \in 1..Len(erase_list) \/ i = Len(erase_list) + 1
    BY <2>1
  <2>3. QED
    BY <2>1, <2>2 DEF Dealt
<1>3. QED
  BY <1>1, <1>2

\* A deletion keeps no list and skips nothing.
LEMMA NothingDealt ==
    ASSUME Copied'
    PROVE  job' = "delete" => Dealt' = {}
<1>1. Len(<<>>) = 0 /\ 1..0 = {}
  OBVIOUS
<1>2. QED
  BY <1>1 DEF Copied, Dealt

\* With an empty list, only skipped files were dealt with.
LEMMA ListOnly ==
    ASSUME erase_list' = <<>>, skipped' = skipped
    PROVE  Dealt' = skipped
<1>1. Len(<<>>) = 0 /\ 1..0 = {}
  OBVIOUS
<1>2. QED
  BY <1>1 DEF Dealt

\* Every step keeps Ahead.
LEMMA AheadStep ==
    ASSUME ModesOK, NodesOK, SeqsOK, Calls, Arguments, Frames, Untouched,
           Ahead, Copied, Copied', [Next]_vars
    PROVE  Ahead'
<1>1. CASE NextEntry
  <2>1. /\ UNCHANGED <<erase_list, skipped, stack>> /\ stack = <<>>
        /\ cur' \in Top /\ cur' > cur /\ arg' = cur'
    BY <1>1 DEF NextEntry, Later, NodesOK, Calls, DeletePCs, DirPCs, CopyPCs,
       MovePCs, ListPCs, FilePCs, LoopPCs
  <2>2. erase_list = <<>>
    BY <1>1 DEF NextEntry, Copied, DeletePCs, DirPCs, CopyPCs, MovePCs,
       ListPCs,
       FilePCs, LoopPCs
  <2>3. \A x \in skipped : x \in Nodes /\ cur' \notin Path[x]
    BY <2>1 DEF Untouched, NodesOK
  <2>4. Dealt' = skipped
    BY <2>1, <2>2, ListOnly
  <2>5. QED
    BY <2>1, <2>3, <2>4, AheadFree
<1>2. CASE LastEntry
  <2>1. stack' = <<>>
    BY <1>2 DEF LastEntry, Calls, DeletePCs, DirPCs, CopyPCs, MovePCs, ListPCs,
       FilePCs, LoopPCs
  <2>2. pc' \notin DirPCs \cup {"copy_file"}
    BY <1>2 DEF LastEntry, DirPCs
  <2>3. QED
    BY <2>1, <2>2, AheadFree
<1>3. CASE EntryDone
  <2>1. stack' = <<>>
    BY <1>3 DEF EntryDone, Calls, DeletePCs, DirPCs, CopyPCs, MovePCs, ListPCs,
       FilePCs, LoopPCs
  <2>2. pc' \notin DirPCs \cup {"copy_file"}
    BY <1>3 DEF EntryDone, Show, Quiet, Said, AbortAsked, DirPCs
  <2>3. QED
    BY <2>1, <2>2, AheadFree
<1>4. CASE Aborted
  <2>1. stack' = <<>>
    BY <1>4 DEF Aborted, Calls, DeletePCs, DirPCs, CopyPCs, MovePCs, ListPCs,
       FilePCs, LoopPCs
  <2>2. pc' \notin DirPCs \cup {"copy_file"}
    BY <1>4 DEF Aborted, DirPCs
  <2>3. QED
    BY <2>1, <2>2, AheadFree
<1>5. CASE EraseFile
  <2>1. stack' = <<>> \/ (job = "delete" /\ job' = job)
    BY <1>5 DEF EraseFile, Calls, ModesOK, DeletePCs, DirPCs, CopyPCs, MovePCs,
       ListPCs, FilePCs, LoopPCs
  <2>2. pc' \notin DirPCs \cup {"copy_file"}
    BY <1>5 DEF EraseFile, Show, Quiet, Said, AbortAsked, Eraser, DirPCs
  <2>3. job = "delete" /\ job' = job => Dealt' = {}
    BY NothingDealt
  <2>4. QED
    BY <2>1, <2>2, <2>3, AheadFree
<1>6. CASE UnlinkFails
  <2>1. stack' = <<>> \/ (job = "delete" /\ job' = job)
    BY <1>6 DEF UnlinkFails, Calls, ModesOK, DeletePCs, DirPCs, CopyPCs,
       MovePCs, ListPCs, FilePCs, LoopPCs
  <2>2. pc' \notin DirPCs \cup {"copy_file"}
    BY <1>6 DEF UnlinkFails, file_error, Retry, StopAnswers, Said, AbortAsked,
       Eraser, DirPCs
  <2>3. job = "delete" /\ job' = job => Dealt' = {}
    BY NothingDealt
  <2>4. QED
    BY <2>1, <2>2, <2>3, AheadFree
<1>7. CASE Unlink
  <2>1. stack' = <<>> \/ (job = "delete" /\ job' = job)
    BY <1>7 DEF Unlink, Calls, ModesOK, DeletePCs, DirPCs, CopyPCs, MovePCs,
       ListPCs, FilePCs, LoopPCs
  <2>2. pc' \notin DirPCs \cup {"copy_file"}
    BY <1>7 DEF Unlink, Buttons, Quiet, StopAnswers, Said, AbortAsked, Return,
       Eraser, DirPCs
  <2>3. job = "delete" /\ job' = job => Dealt' = {}
    BY NothingDealt
  <2>4. QED
    BY <2>1, <2>2, <2>3, AheadFree
<1>8. CASE EraseDir
  <2>1. stack' = <<>> \/ (job = "delete" /\ job' = job)
    BY <1>8 DEF EraseDir, Calls, ModesOK, DeletePCs, DirPCs, CopyPCs, MovePCs,
       ListPCs, FilePCs, LoopPCs
  <2>2. pc' \notin DirPCs \cup {"copy_file"}
    BY <1>8 DEF EraseDir, Show, Quiet, Said, AbortAsked, DirPCs
  <2>3. job = "delete" /\ job' = job => Dealt' = {}
    BY NothingDealt
  <2>4. QED
    BY <2>1, <2>2, <2>3, AheadFree
<1>9. CASE query_recursive
  <2>1. stack' = <<>> \/ (job = "delete" /\ job' = job)
    BY <1>9 DEF query_recursive, Calls, ModesOK, DeletePCs, DirPCs, CopyPCs,
       MovePCs, ListPCs, FilePCs, LoopPCs
  <2>2. pc' \notin DirPCs \cup {"copy_file"}
    BY <1>9 DEF query_recursive, Push, Return, Quiet, Said, AbortAsked, DirPCs
  <2>3. job = "delete" /\ job' = job => Dealt' = {}
    BY NothingDealt
  <2>4. QED
    BY <2>1, <2>2, <2>3, AheadFree
<1>10. CASE RecursiveErase
  <2>1. stack' = <<>> \/ (job = "delete" /\ job' = job)
    BY <1>10 DEF RecursiveErase, Calls, ModesOK, DeletePCs, DirPCs, CopyPCs,
       MovePCs, ListPCs, FilePCs, LoopPCs
  <2>2. pc' \notin DirPCs \cup {"copy_file"}
    BY <1>10 DEF RecursiveErase, Quiet, Take, DirPCs
  <2>3. job = "delete" /\ job' = job => Dealt' = {}
    BY NothingDealt
  <2>4. QED
    BY <2>1, <2>2, <2>3, AheadFree
<1>11. CASE RecursiveFails
  <2>1. stack' = <<>> \/ (job = "delete" /\ job' = job)
    BY <1>11 DEF RecursiveFails, Calls, ModesOK, DeletePCs, DirPCs, CopyPCs,
       MovePCs, ListPCs, FilePCs, LoopPCs
  <2>2. pc' \notin DirPCs \cup {"copy_file"}
    BY <1>11 DEF RecursiveFails, Leave, Up, DirPCs
  <2>3. job = "delete" /\ job' = job => Dealt' = {}
    BY NothingDealt
  <2>4. QED
    BY <2>1, <2>2, <2>3, AheadFree
<1>12. CASE RecursiveStops
  <2>1. stack' = <<>> \/ (job = "delete" /\ job' = job)
    BY <1>12 DEF RecursiveStops, Calls, ModesOK, DeletePCs, DirPCs, CopyPCs,
       MovePCs, ListPCs, FilePCs, LoopPCs
  <2>2. pc' \notin DirPCs \cup {"copy_file"}
    BY <1>12 DEF RecursiveStops, Leave, Up, DirPCs
  <2>3. job = "delete" /\ job' = job => Dealt' = {}
    BY NothingDealt
  <2>4. QED
    BY <2>1, <2>2, <2>3, AheadFree
<1>13. CASE RecursiveEnd
  <2>1. stack' = <<>> \/ (job = "delete" /\ job' = job)
    BY <1>13 DEF RecursiveEnd, Calls, ModesOK, DeletePCs, DirPCs, CopyPCs,
       MovePCs, ListPCs, FilePCs, LoopPCs
  <2>2. pc' \notin DirPCs \cup {"copy_file"}
    BY <1>13 DEF RecursiveEnd, Leave, Up, AbortAsked, DirPCs
  <2>3. job = "delete" /\ job' = job => Dealt' = {}
    BY NothingDealt
  <2>4. QED
    BY <2>1, <2>2, <2>3, AheadFree
<1>14. CASE RecursiveRmdir
  <2>1. stack' = <<>> \/ (job = "delete" /\ job' = job)
    BY <1>14 DEF RecursiveRmdir, Calls, ModesOK, DeletePCs, DirPCs, CopyPCs,
       MovePCs, ListPCs, FilePCs, LoopPCs
  <2>2. pc' \notin DirPCs \cup {"copy_file"}
    BY <1>14 DEF RecursiveRmdir, Leave, Up, Retry, StopAnswers, AbortAsked,
       DirPCs
  <2>3. job = "delete" /\ job' = job => Dealt' = {}
    BY NothingDealt
  <2>4. QED
    BY <2>1, <2>2, <2>3, AheadFree
<1>15. CASE Rmdir
  <2>1. stack' = <<>> \/ (job = "delete" /\ job' = job)
    BY <1>15 DEF Rmdir, Calls, ModesOK, DeletePCs, DirPCs, CopyPCs, MovePCs,
       ListPCs, FilePCs, LoopPCs
  <2>2. pc' \notin DirPCs \cup {"copy_file"}
    BY <1>15 DEF Rmdir, Return, Quiet, file_error, Retry, StopAnswers, Said,
       AbortAsked, DirPCs
  <2>3. job = "delete" /\ job' = job => Dealt' = {}
    BY NothingDealt
  <2>4. QED
    BY <2>1, <2>2, <2>3, AheadFree
<1>16. CASE CopyFile
  <2>1. /\ UNCHANGED <<erase_list, stack, arg>>
        /\ skipped' \subseteq skipped \cup {arg}
    BY <1>16 DEF CopyFile
  <2>2. arg \in Nodes /\ cur \in Top
    BY <1>16 DEF CopyFile, Arguments, NodesOK
  <2>3. stack # <<>> => Parent[arg] = Frame.dir /\ arg \notin Frame.left
    BY <1>16 DEF CopyFile, Arguments
  <2>4. pc' \notin DirPCs \cup {"copy_file"}
    BY <1>16 DEF CopyFile, Copier, DirPCs
  <2>5. Dealt' \subseteq Dealt \cup {arg}
    BY <2>1 DEF Dealt
  <2>6. QED
    BY <2>1, <2>2, <2>3, <2>4, <2>5, AheadMore
<1>17. CASE CopyDirFails
  <2>1. UNCHANGED <<erase_list, skipped, stack>>
    BY <1>17 DEF CopyDirFails
  <2>2. pc \in DirPCs \cup {"copy_file"} /\ arg' = arg
    BY <1>17 DEF CopyDirFails, DirPCs
  <2>3. Dealt' = Dealt
    BY <2>1 DEF Dealt
  <2>4. QED
    BY <2>1, <2>2, <2>3, AheadSame
<1>18. CASE CopyDir
  <2>1. UNCHANGED <<erase_list, skipped, stack>>
    BY <1>18 DEF CopyDir
  <2>2. pc \in DirPCs \cup {"copy_file"} /\ arg' = arg
    BY <1>18 DEF CopyDir, DirPCs
  <2>3. Dealt' = Dealt
    BY <2>1 DEF Dealt
  <2>4. QED
    BY <2>1, <2>2, <2>3, AheadSame
<1>19. CASE Mkdir
  <2>1. UNCHANGED <<erase_list, skipped, stack>>
    BY <1>19 DEF Mkdir
  <2>2. pc \in DirPCs \cup {"copy_file"} /\ arg' = arg
    BY <1>19 DEF Mkdir, DirPCs
  <2>3. Dealt' = Dealt
    BY <2>1 DEF Dealt
  <2>4. QED
    BY <2>1, <2>2, <2>3, AheadSame
<1>20. CASE OpenDir
  <2>1. UNCHANGED <<erase_list, skipped, arg>> /\ pc \in DirPCs
    BY <1>20 DEF OpenDir, DirPCs
  <2>2. Dealt' = Dealt
    BY <2>1 DEF Dealt
  <2>3. pc' \notin DirPCs \cup {"copy_file"}
    BY <1>20 DEF OpenDir, Copier, DirPCs
  <2>4. arg \in Dirs
    BY <2>1 DEF Arguments
  <2>5. stack' = stack \/ Push(arg)
    BY <1>20 DEF OpenDir
  <2>6. QED
    BY <2>1, <2>2, <2>3, <2>4, <2>5, AheadSame, AheadPush
<1>21. CASE CopyDirEntry
  <2>1. PICK n \in Frame.left : arg' = n /\ Take(n)
    BY <1>21 DEF CopyDirEntry
  <2>2. UNCHANGED <<erase_list, skipped>> /\ stack # <<>>
    BY <1>21 DEF CopyDirEntry, Calls, LoopPCs
  <2>3. Dealt' = Dealt
    BY <2>2 DEF Dealt
  <2>4. /\ Len(stack') = Len(stack)
        /\ \A k \in 1..Len(stack) : stack'[k].left \subseteq stack[k].left
    BY <2>1, <2>2, Taken DEF SeqsOK, Take
  <2>5. Len(stack) \in 1..Len(stack) /\ arg' \in stack[Len(stack)].left
    BY <2>1, <2>2, LastFrame DEF Frame
  <2>6. QED
    BY <2>3, <2>4, <2>5, AheadSame
<1>22. CASE CopiedEntry
  <2>1. /\ UNCHANGED <<skipped, stack, arg>> /\ pc' = "copy_loop"
        /\ erase_list' = erase_list \/ erase_list' = Append(erase_list, arg)
    BY <1>22 DEF CopiedEntry
  <2>2. /\ arg \in Nodes /\ cur \in Top
        /\ stack # <<>> => Parent[arg] = Frame.dir /\ arg \notin Frame.left
    BY <1>22 DEF CopiedEntry, Arguments, NodesOK
  <2>3. Dealt' \subseteq Dealt \cup {arg}
    BY <2>1, <2>2, DealtMore
  <2>4. pc' \notin DirPCs \cup {"copy_file"}
    BY <2>1 DEF DirPCs
  <2>5. QED
    BY <2>1, <2>2, <2>3, <2>4, AheadMore
<1>23. CASE CopyDirEnd
  <2>1. UNCHANGED <<erase_list, skipped>> /\ stack # <<>> /\ stack' = Pop
    BY <1>23 DEF CopyDirEnd, Calls, LoopPCs
  <2>2. Dealt' = Dealt
    BY <2>1 DEF Dealt
  <2>3. /\ Len(stack') = Len(stack) - 1 /\ Len(stack) \in Nat
        /\ \A k \in 1..Len(stack') : stack'[k] = stack[k]
    BY <2>1, Popped, LastFrame DEF SeqsOK, Pop
  <2>4. \A k \in 1..Len(stack') : k \in 1..Len(stack)
    BY <2>3
  <2>5. pc' \notin DirPCs \cup {"copy_file"}
    BY <1>23 DEF CopyDirEnd, DirPCs
  <2>6. QED
    BY <2>2, <2>3, <2>4, <2>5, AheadSame
<1>24. CASE MoveFile
  <2>1. stack' = <<>>
    BY <1>24 DEF MoveFile, Calls, DeletePCs, DirPCs, CopyPCs, MovePCs, ListPCs,
       FilePCs, LoopPCs
  <2>2. pc' \notin DirPCs \cup {"copy_file"}
    BY <1>24 DEF MoveFile, Said, AbortAsked, DirPCs
  <2>3. QED
    BY <2>1, <2>2, AheadFree
<1>25. CASE MoveDir
  <2>1. stack' = <<>>
    BY <1>25 DEF MoveDir, Calls, DeletePCs, DirPCs, CopyPCs, MovePCs, ListPCs,
       FilePCs, LoopPCs
  <2>2. pc' \notin DirPCs \cup {"copy_file"}
    BY <1>25 DEF MoveDir, Show, Quiet, Said, AbortAsked, DirPCs
  <2>3. QED
    BY <2>1, <2>2, AheadFree
<1>26. CASE MoveDirStat
  <2>1. UNCHANGED <<erase_list, skipped, stack, arg, cur>> /\ stack = <<>>
    BY <1>26 DEF MoveDirStat, Calls, DeletePCs, DirPCs, CopyPCs, MovePCs,
       ListPCs, FilePCs, LoopPCs
  <2>2. erase_list = <<>> /\ Starting /\ cur \in Top /\ arg = cur
    BY <1>26 DEF MoveDirStat, Copied, Starting, Arguments, NodesOK, DeletePCs,
       DirPCs, CopyPCs, MovePCs, ListPCs, FilePCs, LoopPCs
  <2>3. \A x \in skipped : x \in Nodes /\ cur \notin Path[x]
    BY <2>2 DEF Untouched, NodesOK
  <2>4. Dealt' = skipped
    BY <2>1, <2>2, ListOnly
  <2>5. QED
    BY <2>1, <2>2, <2>3, <2>4, AheadFree
<1>27. CASE Rename
  <2>1. stack' = <<>>
    BY <1>27 DEF Rename, Calls, DeletePCs, DirPCs, CopyPCs, MovePCs, ListPCs,
       FilePCs, LoopPCs
  <2>2. pc' \notin DirPCs \cup {"copy_file"}
    BY <1>27 DEF Rename, Return, Quiet, DirPCs
  <2>3. QED
    BY <2>1, <2>2, AheadFree
<1>28. CASE RenameFails
  <2>1. UNCHANGED <<erase_list, skipped, stack, arg, cur>> /\ stack = <<>>
    BY <1>28 DEF RenameFails, Calls, DeletePCs, DirPCs, CopyPCs, MovePCs,
       ListPCs, FilePCs, LoopPCs
  <2>2. erase_list = <<>> /\ Starting /\ cur \in Top /\ arg = cur
    BY <1>28 DEF RenameFails, Copied, Starting, Arguments, NodesOK, DeletePCs,
       DirPCs, CopyPCs, MovePCs, ListPCs, FilePCs, LoopPCs
  <2>3. \A x \in skipped : x \in Nodes /\ cur \notin Path[x]
    BY <2>2 DEF Untouched, NodesOK
  <2>4. Dealt' = skipped
    BY <2>1, <2>2, ListOnly
  <2>5. QED
    BY <2>1, <2>2, <2>3, <2>4, AheadFree
<1>29. CASE Moved
  <2>1. stack' = <<>>
    BY <1>29 DEF Moved, Calls, DeletePCs, DirPCs, CopyPCs, MovePCs, ListPCs,
       FilePCs, LoopPCs
  <2>2. pc' \notin DirPCs \cup {"copy_file"}
    BY <1>29 DEF Moved, Buttons, Quiet, StopAnswers, Said, AbortAsked, DirPCs
  <2>3. QED
    BY <2>1, <2>2, AheadFree
<1>30. CASE EraseList
  <2>1. stack' = <<>>
    BY <1>30 DEF EraseList, Calls, DeletePCs, DirPCs, CopyPCs, MovePCs,
       ListPCs,
       FilePCs, LoopPCs
  <2>2. pc' \notin DirPCs \cup {"copy_file"}
    BY <1>30 DEF EraseList, Quiet, DirPCs
  <2>3. QED
    BY <2>1, <2>2, AheadFree
<1>31. CASE Erased
  <2>1. stack' = <<>>
    BY <1>31 DEF Erased, Calls, DeletePCs, DirPCs, CopyPCs, MovePCs, ListPCs,
       FilePCs, LoopPCs
  <2>2. pc' \notin DirPCs \cup {"copy_file"}
    BY <1>31 DEF Erased, Quiet, DirPCs
  <2>3. QED
    BY <2>1, <2>2, AheadFree
<1>32. CASE EraseDirIffEmpty
  <2>1. stack' = <<>>
    BY <1>32 DEF EraseDirIffEmpty, Calls, DeletePCs, DirPCs, CopyPCs, MovePCs,
       ListPCs, FilePCs, LoopPCs
  <2>2. pc' \notin DirPCs \cup {"copy_file"}
    BY <1>32 DEF EraseDirIffEmpty, IffEmpty, AbortAsked, DirPCs
  <2>3. QED
    BY <2>1, <2>2, AheadFree
<1>33. CASE RmdirIffEmpty
  <2>1. stack' = <<>>
    BY <1>33 DEF RmdirIffEmpty, Calls, DeletePCs, DirPCs, CopyPCs, MovePCs,
       ListPCs, FilePCs, LoopPCs
  <2>2. pc' \notin DirPCs \cup {"copy_file"}
    BY <1>33 DEF RmdirIffEmpty, IffEmpty, AbortAsked, Retry, StopAnswers,
       DirPCs
  <2>3. QED
    BY <2>1, <2>2, AheadFree
<1>34. CASE UNCHANGED vars
  BY <1>34 DEF vars, Ahead, Dealt
<1>35. QED
  BY <1>1, <1>2, <1>3, <1>4, <1>5, <1>6, <1>7, <1>8, <1>9, <1>10, <1>11,
     <1>12, <1>13, <1>14, <1>15, <1>16, <1>17, <1>18, <1>19, <1>20, <1>21,
     <1>22, <1>23, <1>24, <1>25, <1>26, <1>27, <1>28, <1>29, <1>30, <1>31,
     <1>32, <1>33, <1>34
     DEF Next, Done, Step, panel_operate, erase_dir, copy_dir_dir, move_dir_dir

\* What is copied now was not copied or skipped before.
LEMMA NotYet ==
    ASSUME NodesOK, SeqsOK, Ahead, pc \in DirPCs \cup {"copy_file"}
    PROVE  /\ \A i \in 1..Len(erase_list) : erase_list[i] # arg
           /\ arg \notin skipped
<1>1. \A x \in Dealt : x \in Nodes
  BY ElementOfSeq DEF Dealt, NodesOK, SeqsOK
<1>2. \A x \in Dealt : x # arg
  BY <1>1, PathSelf DEF Ahead
<1>3. QED
  BY <1>2 DEF Dealt

\* Every step keeps Copied.
LEMMA CopiedStep ==
    ASSUME ModesOK, NodesOK, SeqsOK, Calls, Arguments, Frames, Ahead, Copied,
           EraseListSafe, [Next]_vars
    PROVE  Copied'
<1> USE DEF Copied, Calls, DeletePCs, DirPCs, CopyPCs, MovePCs, ListPCs,
            FilePCs, LoopPCs
<1>1. CASE NextEntry
  BY <1>1 DEF NextEntry, Quiet, ModesOK
<1>2. CASE LastEntry
  BY <1>2 DEF LastEntry
<1>3. CASE EntryDone
  BY <1>3 DEF EntryDone, Show, Quiet, Said, AbortAsked
<1>4. CASE Aborted
  BY <1>4 DEF Aborted
<1>5. CASE EraseFile
  BY <1>5 DEF EraseFile, Show, Quiet, Said, AbortAsked, Eraser
<1>6. CASE UnlinkFails
  BY <1>6 DEF UnlinkFails, file_error, Retry, StopAnswers, Said, AbortAsked,
     Eraser
<1>7. CASE Unlink
  BY <1>7 DEF Unlink, Buttons, Quiet, StopAnswers, Said, AbortAsked, Return,
     Eraser
<1>8. CASE EraseDir
  BY <1>8 DEF EraseDir, Show, Quiet, Said, AbortAsked
<1>9. CASE query_recursive
  BY <1>9 DEF query_recursive, Push, Return, Quiet, Said, AbortAsked
<1>10. CASE RecursiveErase
  BY <1>10 DEF RecursiveErase, Quiet, Take
<1>11. CASE RecursiveFails
  BY <1>11 DEF RecursiveFails, Leave, Up
<1>12. CASE RecursiveStops
  BY <1>12 DEF RecursiveStops, Leave, Up
<1>13. CASE RecursiveEnd
  BY <1>13 DEF RecursiveEnd, Leave, Up, AbortAsked
<1>14. CASE RecursiveRmdir
  BY <1>14 DEF RecursiveRmdir, Leave, Up, Retry, StopAnswers, AbortAsked
<1>15. CASE Rmdir
  BY <1>15 DEF Rmdir, Return, Quiet, file_error, Retry, StopAnswers, Said,
     AbortAsked
<1>16. CASE CopyFile
  <2>1. /\ \A i \in 1..Len(erase_list) : erase_list[i] # arg
        /\ arg \notin skipped
    BY <1>16, NotYet DEF CopyFile
  <2>2. arg \notin Dirs
    BY <1>16 DEF CopyFile, Arguments
  <2>3. QED
    BY <1>16, <2>1, <2>2 DEF CopyFile, Said, AbortAsked, Copier
<1>17. CASE CopyDirFails
  <2>1. /\ \A i \in 1..Len(erase_list) : erase_list[i] # arg
        /\ arg \notin skipped
    BY <1>17, NotYet DEF CopyDirFails, DirPCs
  <2>2. QED
    BY <1>17, <2>1 DEF CopyDirFails, file_error, Retry, StopAnswers, Said,
       AbortAsked, Return, Quiet, Copier
<1>18. CASE CopyDir
  BY <1>18 DEF CopyDir, Quiet
<1>19. CASE Mkdir
  <2>1. /\ \A i \in 1..Len(erase_list) : erase_list[i] # arg
        /\ arg \notin skipped
    BY <1>19, NotYet DEF Mkdir, DirPCs
  <2>2. QED
    BY <1>19, <2>1 DEF Mkdir, Quiet, file_error, Retry, StopAnswers, Said,
       AbortAsked, Copier
<1>20. CASE OpenDir
  <2>1. /\ \A i \in 1..Len(erase_list) : erase_list[i] # arg
        /\ arg \notin skipped
    BY <1>20, NotYet DEF OpenDir
  <2>2. arg \in Dirs /\ (stack = <<>> => arg = cur)
    BY <1>20 DEF OpenDir, Arguments
  <2>3. Children(arg, src) \in SUBSET Nodes
    BY DEF Children, NodesOK
  <2>4. /\ UNCHANGED <<job, cur, arg, erase_list, skipped>>
        /\ dst' = dst \cup ({arg} \ taken) /\ taken' = taken
    BY <1>20 DEF OpenDir
  <2>5. CASE pc' = Copier /\ UNCHANGED stack
    <3>1. pc' \in {"copied_entry", "moved", "returned"}
      BY <2>5 DEF Copier
    <3>2. erase_list # <<>> => stack # <<>>
      BY <1>20 DEF OpenDir
    <3>3. stack # <<>> => pc' = "copied_entry"
      BY <2>5 DEF Copier
    <3>4. pc' = "moved" => stack = <<>>
      BY <3>3
    <3>5. QED
      BY <2>1, <2>2, <2>4, <2>5, <3>1, <3>2, <3>3, <3>4
  <2>6. CASE pc' = "copy_loop" /\ Push(arg)
    <3>1. /\ Len(stack') = Len(stack) + 1 /\ Len(stack) \in Nat
          /\ stack' # <<>>
          /\ \A k \in 1..Len(stack) : stack'[k] = stack[k]
          /\ stack'[Len(stack')].dir = arg
      BY <2>2, <2>3, <2>6, Pushed, LenProperties DEF SeqsOK, Push
    <3>2. \A k \in 1..Len(stack') : k \in 1..Len(stack) \/ k = Len(stack')
      BY <3>1
    <3>3. ASSUME job # "delete", NEW k \in 1..Len(stack')
          PROVE  /\ stack'[k].dir \in dst' \cup taken
                 /\ \A i \in 1..Len(erase_list) :
                       erase_list[i] # stack'[k].dir
      <4>1. CASE k \in 1..Len(stack)
        BY <2>4, <3>1, <3>3, <4>1
      <4>2. CASE k = Len(stack')
        BY <2>1, <2>4, <3>1, <4>2
      <4>3. QED
        BY <3>2, <4>1, <4>2
    <3>4. QED
      BY <2>4, <2>6, <3>1, <3>3
  <2>7. QED
    BY <1>20, <2>5, <2>6 DEF OpenDir
<1>21. CASE CopyDirEntry
  <2>1. PICK n \in Frame.left : arg' = n /\ Take(n)
    BY <1>21 DEF CopyDirEntry
  <2>2. /\ UNCHANGED <<job, cur, erase_list, skipped, dst, taken>> /\ stack # <<>>
        /\ pc' \in {"copy_dir", "copy_file"} /\ pc = "copy_loop"
    BY <1>21 DEF CopyDirEntry
  <2>3. /\ Len(stack') = Len(stack) /\ stack' # <<>>
        /\ \A k \in 1..Len(stack) : stack'[k].dir = stack[k].dir
    BY <2>1, <2>2, Taken DEF SeqsOK, Take
  <2>4. QED
    BY <2>2, <2>3
<1>22. CASE CopiedEntry
  <2>1. /\ UNCHANGED <<job, cur, arg, stack, skipped, dst, taken>>
        /\ stack # <<>> /\ pc' = "copy_loop" /\ job # "delete"
        /\ \/ erase_list' = erase_list
           \/ job = "move" /\ erase_list' = Append(erase_list, arg)
    BY <1>22 DEF CopiedEntry
  <2>2. arg \in Nodes
    BY <1>22 DEF CopiedEntry, Arguments
  <2>3. CASE erase_list' = erase_list
    BY <2>1, <2>3
  <2>4. CASE job = "move" /\ erase_list' = Append(erase_list, arg)
    <3>1. /\ Len(erase_list') = Len(erase_list) + 1
          /\ Len(erase_list) \in Nat
          /\ \A i \in 1..Len(erase_list) : erase_list'[i] = erase_list[i]
          /\ erase_list'[Len(erase_list) + 1] = arg
      BY <2>2, <2>4, Listed, LenProperties DEF SeqsOK
    <3>2. \A i \in 1..Len(erase_list') :
             i \in 1..Len(erase_list) \/ i = Len(erase_list) + 1
      BY <3>1
    <3>3. ASSUME NEW k \in 1..Len(stack) PROVE stack[k].dir # arg
      <4>1. Parent[arg] = stack[Len(stack)].dir /\ Parent[arg] < arg
        BY <1>22, <2>1, <2>2 DEF CopiedEntry, Arguments, Frame
      <4>2. \A j \in 1..Len(stack) : stack[j] \in Frm
        BY ElementOfSeq DEF SeqsOK
      <4>3. \A d \in Dirs : d \in Nat
        BY DEF Nodes
      <4>4. \A j \in 1..Len(stack) : stack[j].dir \in Nat
        BY <4>2, <4>3 DEF Frm
      <4>5. Len(stack) \in 1..Len(stack) /\ Len(stack) \in Nat
        BY <2>1, LastFrame
      <4>6. k = Len(stack) \/ stack[k].dir < stack[Len(stack)].dir
        <5>1. k = Len(stack) \/ k \in 1..(Len(stack) - 1)
          BY <4>5
        <5>2. QED
          BY <4>5, <5>1 DEF Frames, Chain
      <4>7. QED
        BY <4>1, <4>4, <4>5, <4>6
    <3>4. ASSUME NEW k \in 1..Len(stack), NEW i \in 1..Len(erase_list')
          PROVE  erase_list'[i] # stack[k].dir
      BY <2>1, <3>1, <3>2, <3>3
    <3>5. QED
      BY <2>1, <2>4, <3>4
  <2>5. QED
    BY <2>1, <2>3, <2>4
<1>23. CASE CopyDirEnd
  <2>1. /\ UNCHANGED <<job, cur, erase_list, skipped, dst, taken>> /\ stack # <<>>
        /\ pc = "copy_loop" /\ arg' = Frame.dir /\ stack' = Pop
        /\ pc' = IF Len(stack) > 1 THEN "copied_entry"
                ELSE IF job = "move" THEN "moved" ELSE "returned"
    BY <1>23 DEF CopyDirEnd
  <2>2. /\ Len(stack') = Len(stack) - 1
        /\ \A k \in 1..Len(stack') : stack'[k] = stack[k]
    BY ZenonT(60), <2>1, Popped DEF SeqsOK, Pop
  <2>a. Len(stack) \in Nat /\ Len(stack) > 0
    BY <2>1, LastFrame
  <2>0. stack' = <<>> <=> ~(Len(stack) > 1)
    BY <2>1, Popped DEF SeqsOK, Pop
  <2>3. \A k \in 1..Len(stack') : k \in 1..Len(stack)
    BY <2>2, <2>a
  <2>4. /\ Len(stack) \in 1..Len(stack) /\ job # "delete"
        /\ Frame.dir \in dst \cup taken /\ Frame.dir \notin skipped
        /\ \A i \in 1..Len(erase_list) : erase_list[i] # Frame.dir
    <3>1. Len(stack) \in 1..Len(stack) /\ Frame.dir \in Dirs
      BY <2>1, LastFrame
    <3>2. job # "delete"
      BY <2>1
    <3>3. QED
      BY <3>1, <3>2 DEF Frame
  <2>5. ASSUME ~(Len(stack) > 1) PROVE cur \in dst \cup taken
    <3>1. Len(stack) = 1
      BY <2>2, <2>5, <2>a
    <3>2. QED
      BY <2>1, <2>4, <3>1 DEF Frames, Chain, Frame
  <2>6. \A k \in 1..Len(stack') :
           /\ stack'[k].dir \in dst \cup taken
           /\ \A i \in 1..Len(erase_list) : erase_list[i] # stack'[k].dir
    BY <2>2, <2>3, <2>4
  <2>7. CASE Len(stack) > 1
    BY <2>0, <2>1, <2>2, <2>4, <2>6, <2>7
  <2>8. CASE ~(Len(stack) > 1)
    BY <2>0, <2>1, <2>2, <2>4, <2>5, <2>6, <2>8
  <2>9. QED
    BY <2>7, <2>8
<1>24. CASE MoveFile
  BY <1>24 DEF MoveFile, Said, AbortAsked
<1>25. CASE MoveDir
  BY <1>25 DEF MoveDir, Show, Quiet, Said, AbortAsked
<1>26. CASE MoveDirStat
  BY <1>26 DEF MoveDirStat, Quiet, file_error, Retry, StopAnswers, Said,
     AbortAsked
<1>27. CASE Rename
  BY <1>27 DEF Rename, Return, Quiet
<1>28. CASE RenameFails
  BY <1>28 DEF RenameFails, Quiet, file_error, Retry, StopAnswers, Said,
     AbortAsked
<1>29. CASE Moved
  BY <1>29 DEF Moved, Buttons, Quiet, StopAnswers, Said, AbortAsked
<1>30. CASE EraseList
  BY <1>30 DEF EraseList, Quiet
<1>31. CASE Erased
  BY <1>31 DEF Erased, Quiet
<1>32. CASE EraseDirIffEmpty
  BY <1>32 DEF EraseDirIffEmpty, IffEmpty, AbortAsked
<1>33. CASE RmdirIffEmpty
  BY <1>33 DEF RmdirIffEmpty, IffEmpty, AbortAsked, Retry, StopAnswers
<1>34. CASE UNCHANGED vars
  BY <1>34 DEF vars
<1>35. QED
  BY <1>1, <1>2, <1>3, <1>4, <1>5, <1>6, <1>7, <1>8, <1>9, <1>10, <1>11,
     <1>12, <1>13, <1>14, <1>15, <1>16, <1>17, <1>18, <1>19, <1>20, <1>21,
     <1>22, <1>23, <1>24, <1>25, <1>26, <1>27, <1>28, <1>29, <1>30, <1>31,
     <1>32, <1>33, <1>34
     DEF Next, Done, Step, panel_operate, erase_dir, copy_dir_dir, move_dir_dir

\* Every step keeps EraseListSafe.
LEMMA ListStep ==
    ASSUME ModesOK, NodesOK, SeqsOK, Calls, Arguments, Frames, Ahead, Copied,
           EraseListSafe, [Next]_vars
    PROVE  EraseListSafe'
<1> USE DEF EraseListSafe
<1>1. CASE NextEntry
  <2>1. erase_list = <<>> /\ erase_list' = erase_list
    BY <1>1 DEF NextEntry, Copied, DeletePCs, DirPCs, CopyPCs, MovePCs,
       ListPCs,
       FilePCs, LoopPCs
  <2>2. QED
    BY <2>1
<1>2. CASE LastEntry
  BY <1>2 DEF LastEntry
<1>3. CASE EntryDone
  BY <1>3 DEF EntryDone, Show, Quiet, Said, AbortAsked
<1>4. CASE Aborted
  BY <1>4 DEF Aborted
<1>5. CASE EraseFile
  BY <1>5 DEF EraseFile, Show, Quiet, Said, AbortAsked, Eraser
<1>6. CASE UnlinkFails
  BY <1>6 DEF UnlinkFails, file_error, Retry, StopAnswers, Said, AbortAsked,
     Eraser
<1>7. CASE Unlink
  BY <1>7 DEF Unlink, Buttons, Quiet, StopAnswers, Said, AbortAsked, Return,
     Eraser
<1>8. CASE EraseDir
  BY <1>8 DEF EraseDir, Show, Quiet, Said, AbortAsked
<1>9. CASE query_recursive
  BY <1>9 DEF query_recursive, Push, Return, Quiet, Said, AbortAsked
<1>10. CASE RecursiveErase
  BY <1>10 DEF RecursiveErase, Quiet, Take
<1>11. CASE RecursiveFails
  BY <1>11 DEF RecursiveFails, Leave, Up
<1>12. CASE RecursiveStops
  BY <1>12 DEF RecursiveStops, Leave, Up
<1>13. CASE RecursiveEnd
  BY <1>13 DEF RecursiveEnd, Leave, Up, AbortAsked
<1>14. CASE RecursiveRmdir
  BY <1>14 DEF RecursiveRmdir, Leave, Up, Retry, StopAnswers, AbortAsked
<1>15. CASE Rmdir
  BY <1>15 DEF Rmdir, Return, Quiet, file_error, Retry, StopAnswers, Said,
     AbortAsked
<1>16. CASE CopyFile
  <2>1. \A i \in 1..Len(erase_list) : erase_list[i] # arg
    BY <1>16, NotYet DEF CopyFile
  <2>2. QED
    BY <1>16, <2>1 DEF CopyFile
<1>17. CASE CopyDirFails
  BY <1>17 DEF CopyDirFails, file_error, Retry, StopAnswers, Said, AbortAsked,
     Return, Quiet, Copier
<1>18. CASE CopyDir
  BY <1>18 DEF CopyDir, Quiet
<1>19. CASE Mkdir
  BY <1>19 DEF Mkdir, Quiet, file_error, Retry, StopAnswers, Said, AbortAsked,
     Copier
<1>20. CASE OpenDir
  BY <1>20 DEF OpenDir, Push, Copier
<1>21. CASE CopyDirEntry
  BY <1>21 DEF CopyDirEntry, Take, Quiet
<1>22. CASE CopiedEntry
  <2>1. /\ UNCHANGED <<cur, skipped, dst, taken>> /\ stack # <<>>
        /\ \/ erase_list' = erase_list
           \/ status = "cont" /\ erase_list' = Append(erase_list, arg)
    BY <1>22 DEF CopiedEntry, Calls, LoopPCs
  <2>2. CASE erase_list' = erase_list
    BY <2>1, <2>2
  <2>3. CASE status = "cont" /\ erase_list' = Append(erase_list, arg)
    <3>1. /\ arg \in Nodes /\ cur \in Path[arg] /\ Parent[arg] = Frame.dir
          /\ cur \in Top
      BY <1>22, <2>1 DEF CopiedEntry, Arguments, NodesOK
    <3>2. /\ Len(erase_list') = Len(erase_list) + 1
          /\ Len(erase_list) \in Nat
          /\ \A i \in 1..Len(erase_list) : erase_list'[i] = erase_list[i]
          /\ erase_list'[Len(erase_list) + 1] = arg
      BY <2>3, <3>1, Listed, LenProperties DEF SeqsOK
    <3>3. arg \in (dst \cup taken) \ skipped
      BY <1>22, <2>3 DEF CopiedEntry, Copied
    <3>4. Parent[arg] # 0 /\ arg # cur /\ RootOf[arg] = cur
      <4>1. Frame.dir \in Dirs /\ 0 \notin Nodes
        BY <2>1, LastFrame DEF Nodes
      <4>2. QED
        BY <3>1, <4>1, RootAbove DEF Top
    <3>5. ASSUME NEW j \in 1..Len(erase_list), erase_list[j] \in Path[arg]
          PROVE  FALSE
      <4>1. erase_list[j] # arg
        BY <1>22 DEF CopiedEntry, Copied
      <4>2. erase_list[j] \in Path[Frame.dir]
        BY <3>1, <3>5, <4>1, PathParent
      <4>3. Len(stack) \in 1..Len(stack) /\ Len(stack) \in Nat
        BY <2>1, LastFrame
      <4>4. PICK k \in 1..Len(stack) : erase_list[j] = stack[k].dir
        BY <4>2, <4>3 DEF Frames, Chain, Frame
      <4>5. job # "delete"
        BY <1>22 DEF CopiedEntry, Calls, DeletePCs, DirPCs, CopyPCs, MovePCs,
           ListPCs, FilePCs, LoopPCs
      <4>6. QED
        BY <4>4, <4>5 DEF Copied
    <3>6. ASSUME NEW i \in 1..Len(erase_list')
          PROVE  /\ erase_list'[i] \in (dst \cup taken) \ skipped
                 /\ RootOf[erase_list'[i]] = cur /\ erase_list'[i] # cur
                 /\ \A j \in 1..(i - 1) :
                       erase_list'[j] \notin Path[erase_list'[i]]
      <4>1. \A j \in 1..(i - 1) : /\ j \in 1..Len(erase_list)
                                  /\ erase_list'[j] = erase_list[j]
        BY <3>2
      <4>2. CASE i \in 1..Len(erase_list)
        BY <3>2, <4>1, <4>2
      <4>3. CASE i = Len(erase_list) + 1
        BY <3>2, <3>3, <3>4, <3>5, <4>1, <4>3
      <4>4. i \in 1..Len(erase_list) \/ i = Len(erase_list) + 1
        BY <3>2
      <4>5. QED
        BY <4>2, <4>3, <4>4
    <3>7. QED
      BY <2>1, <3>6
  <2>4. QED
    BY <2>1, <2>2, <2>3
<1>23. CASE CopyDirEnd
  BY <1>23 DEF CopyDirEnd
<1>24. CASE MoveFile
  BY <1>24 DEF MoveFile, Said, AbortAsked
<1>25. CASE MoveDir
  BY <1>25 DEF MoveDir, Show, Quiet, Said, AbortAsked
<1>26. CASE MoveDirStat
  BY <1>26 DEF MoveDirStat, Quiet, file_error, Retry, StopAnswers, Said,
     AbortAsked
<1>27. CASE Rename
  BY <1>27 DEF Rename, Return, Quiet
<1>28. CASE RenameFails
  BY <1>28 DEF RenameFails, Quiet, file_error, Retry, StopAnswers, Said,
     AbortAsked
<1>29. CASE Moved
  <2>1. cur' = cur /\ erase_list' \in {erase_list, <<>>}
    BY <1>29 DEF Moved, IffEmpty
  <2>2. UNCHANGED <<dst, skipped, taken>>
    BY <1>29 DEF Moved
  <2>3. QED
    BY <2>1, <2>2
<1>30. CASE EraseList
  BY <1>30 DEF EraseList, Quiet
<1>31. CASE Erased
  <2>1. /\ UNCHANGED <<cur, dst, skipped, taken>>
        /\ erase_list' = Tail(erase_list) /\ erase_list # <<>>
    BY <1>31 DEF Erased, Arguments, Calls, DeletePCs, DirPCs, CopyPCs, MovePCs,
       ListPCs, FilePCs, LoopPCs
  <2>2. /\ Len(erase_list') = Len(erase_list) - 1 /\ Len(erase_list) \in Nat
        /\ \A i \in 1..Len(erase_list') : /\ erase_list'[i] = erase_list[i + 1]
                                          /\ i + 1 \in 1..Len(erase_list)
    BY <2>1, Shorter, LenProperties DEF SeqsOK
  <2>3. ASSUME NEW i \in 1..Len(erase_list'), NEW j \in 1..(i - 1)
        PROVE  erase_list'[j] \notin Path[erase_list'[i]]
    <3>1. /\ j \in 1..Len(erase_list') /\ i + 1 \in 1..Len(erase_list)
          /\ j + 1 \in 1..((i + 1) - 1)
      BY <2>2
    <3>2. QED
      BY <2>2, <3>1
  <2>4. QED
    BY <2>1, <2>2, <2>3
<1>32. CASE EraseDirIffEmpty
  <2>1. cur' = cur /\ erase_list' \in {erase_list, <<>>}
    BY <1>32 DEF EraseDirIffEmpty, IffEmpty
  <2>2. UNCHANGED <<dst, skipped, taken>>
    BY <1>32 DEF EraseDirIffEmpty
  <2>3. QED
    BY <2>1, <2>2
<1>33. CASE RmdirIffEmpty
  <2>1. cur' = cur /\ erase_list' \in {erase_list, <<>>}
    BY <1>33 DEF RmdirIffEmpty, IffEmpty
  <2>2. UNCHANGED <<dst, skipped, taken>>
    BY <1>33 DEF RmdirIffEmpty
  <2>3. QED
    BY <2>1, <2>2
<1>34. CASE UNCHANGED vars
  BY <1>34 DEF vars
<1>35. QED
  BY <1>1, <1>2, <1>3, <1>4, <1>5, <1>6, <1>7, <1>8, <1>9, <1>10, <1>11,
     <1>12, <1>13, <1>14, <1>15, <1>16, <1>17, <1>18, <1>19, <1>20, <1>21,
     <1>22, <1>23, <1>24, <1>25, <1>26, <1>27, <1>28, <1>29, <1>30, <1>31,
     <1>32, <1>33, <1>34
     DEF Next, Done, Step, panel_operate, erase_dir, copy_dir_dir, move_dir_dir

\* The first of the list is nowhere else in it, and was not skipped.
LEMMA FirstOnly ==
    ASSUME SeqsOK, EraseListSafe, erase_list # <<>>
    PROVE  /\ Head(erase_list) \notin skipped
           /\ \A i \in 1..Len(erase_list) :
                 i > 1 => erase_list[i] # Head(erase_list)
<1>1. /\ 1 \in 1..Len(erase_list) /\ Len(erase_list) \in Nat
      /\ Head(erase_list) = erase_list[1]
  BY FirstListed
<1>2. ASSUME NEW i \in 1..Len(erase_list), i > 1
      PROVE  erase_list[i] # erase_list[1]
  <2>1. 1 \in 1..(i - 1)
    BY <1>1, <1>2
  <2>2. erase_list[1] \notin Path[erase_list[i]]
    BY <2>1 DEF EraseListSafe
  <2>3. erase_list[i] \in Nodes
    BY ElementOfSeq DEF SeqsOK
  <2>4. QED
    BY <2>2, <2>3, PathSelf
<1>3. QED
  BY <1>1, <1>2 DEF EraseListSafe

\* Every step keeps Kept.
LEMMA KeptStep ==
    ASSUME ModesOK, NodesOK, SeqsOK, Calls, Arguments, Frames, Untouched,
           Copied, EraseListSafe, Kept, [Next]_vars
    PROVE  Kept'
<1> USE DEF Kept
<1>1. CASE NextEntry
  <2>1. /\ UNCHANGED <<job, stack, erase_list, skipped, src>>
        /\ cur' \in Top /\ cur' > cur /\ arg' = cur'
        /\ pc = "next"
    BY <1>1 DEF NextEntry, Later, NodesOK
  <2>2. cur' \in Nodes /\ cur' \in Path[cur']
    BY <2>1, PathSelf DEF Top
  <2>3. cur' \in src
    BY <2>1, <2>2 DEF Untouched
  <2>4. QED
    BY <2>1, <2>3
<1>2. CASE LastEntry
  BY <1>2 DEF LastEntry, CopyPCs, DirPCs
<1>3. CASE EntryDone
  BY <1>3 DEF EntryDone, Show, Quiet, Said, AbortAsked, CopyPCs, DirPCs
<1>4. CASE Aborted
  BY <1>4 DEF Aborted, CopyPCs, DirPCs
<1>5. CASE EraseFile
  BY <1>5 DEF EraseFile, Show, Quiet, Said, AbortAsked, Eraser, CopyPCs,
     DirPCs
<1>6. CASE UnlinkFails
  BY <1>6 DEF UnlinkFails, file_error, Retry, StopAnswers, Said, AbortAsked,
     Eraser, CopyPCs, DirPCs
<1>7. CASE Unlink
  <2>1. pc' \notin CopyPCs
    BY <1>7 DEF Unlink, Buttons, Quiet, Return, Eraser, CopyPCs, DirPCs
  <2>2. UNCHANGED <<job, stack, erase_list, skipped>> /\ job # "copy"
    BY <1>7 DEF Unlink, Calls, DeletePCs, DirPCs, CopyPCs, MovePCs, ListPCs,
       FilePCs, LoopPCs
  <2>3. CASE job = "delete"
    BY <2>1, <2>2, <2>3 DEF Copied
  <2>4. CASE job = "move"
    <3>1. /\ stack = <<>> /\ pc' = "erased" /\ src' = src \ {arg}
          /\ erase_list # <<>> /\ arg = Head(erase_list)
      BY <1>7, <2>4 DEF Unlink, Return, Eraser, Calls, Arguments, FilePCs,
         CopyPCs,
         DirPCs
    <3>2. /\ arg \notin skipped
          /\ \A i \in 1..Len(erase_list) : i > 1 => erase_list[i] # arg
      BY <3>1, FirstOnly
    <3>3. QED
      BY <2>1, <2>2, <2>4, <3>1, <3>2
  <2>5. QED
    BY <2>2, <2>3, <2>4 DEF ModesOK
<1>8. CASE EraseDir
  <2>1. /\ job = "delete" /\ erase_list = <<>>
        /\ UNCHANGED <<job, erase_list>>
    BY <1>8 DEF EraseDir, Calls, Copied, DeletePCs, DirPCs, CopyPCs, MovePCs,
       ListPCs, FilePCs, LoopPCs
  <2>2. pc' \notin CopyPCs
    BY <1>8 DEF EraseDir, Show, Quiet, Said, AbortAsked, CopyPCs, DirPCs
  <2>3. QED
    BY <2>1, <2>2
<1>9. CASE query_recursive
  <2>1. /\ job = "delete" /\ erase_list = <<>>
        /\ UNCHANGED <<job, erase_list>>
    BY <1>9 DEF query_recursive, Calls, Copied, DeletePCs, DirPCs, CopyPCs,
       MovePCs, ListPCs, FilePCs, LoopPCs
  <2>2. pc' \notin CopyPCs
    BY <1>9 DEF query_recursive, Push, Return, Quiet, Said, AbortAsked,
       CopyPCs,
       DirPCs
  <2>3. QED
    BY <2>1, <2>2
<1>10. CASE RecursiveErase
  <2>1. /\ job = "delete" /\ erase_list = <<>>
        /\ UNCHANGED <<job, erase_list>>
    BY <1>10 DEF RecursiveErase, Calls, Copied, DeletePCs, DirPCs, CopyPCs,
       MovePCs, ListPCs, FilePCs, LoopPCs
  <2>2. pc' \notin CopyPCs
    BY <1>10 DEF RecursiveErase, Quiet, Take, CopyPCs, DirPCs
  <2>3. QED
    BY <2>1, <2>2
<1>11. CASE RecursiveFails
  <2>1. /\ job = "delete" /\ erase_list = <<>>
        /\ UNCHANGED <<job, erase_list>>
    BY <1>11 DEF RecursiveFails, Calls, Copied, DeletePCs, DirPCs, CopyPCs,
       MovePCs, ListPCs, FilePCs, LoopPCs
  <2>2. pc' \notin CopyPCs
    BY <1>11 DEF RecursiveFails, Leave, Up, CopyPCs, DirPCs
  <2>3. QED
    BY <2>1, <2>2
<1>12. CASE RecursiveStops
  <2>1. /\ job = "delete" /\ erase_list = <<>>
        /\ UNCHANGED <<job, erase_list>>
    BY <1>12 DEF RecursiveStops, Calls, Copied, DeletePCs, DirPCs, CopyPCs,
       MovePCs, ListPCs, FilePCs, LoopPCs
  <2>2. pc' \notin CopyPCs
    BY <1>12 DEF RecursiveStops, Leave, Up, CopyPCs, DirPCs
  <2>3. QED
    BY <2>1, <2>2
<1>13. CASE RecursiveEnd
  <2>1. /\ job = "delete" /\ erase_list = <<>>
        /\ UNCHANGED <<job, erase_list>>
    BY <1>13 DEF RecursiveEnd, Calls, Copied, DeletePCs, DirPCs, CopyPCs,
       MovePCs, ListPCs, FilePCs, LoopPCs
  <2>2. pc' \notin CopyPCs
    BY <1>13 DEF RecursiveEnd, Leave, Up, AbortAsked, CopyPCs, DirPCs
  <2>3. QED
    BY <2>1, <2>2
<1>14. CASE RecursiveRmdir
  <2>1. /\ job = "delete" /\ erase_list = <<>>
        /\ UNCHANGED <<job, erase_list>>
    BY <1>14 DEF RecursiveRmdir, Calls, Copied, DeletePCs, DirPCs, CopyPCs,
       MovePCs, ListPCs, FilePCs, LoopPCs
  <2>2. pc' \notin CopyPCs
    BY <1>14 DEF RecursiveRmdir, Leave, Up, Retry, StopAnswers, AbortAsked,
       CopyPCs, DirPCs
  <2>3. QED
    BY <2>1, <2>2
<1>15. CASE Rmdir
  <2>1. /\ job = "delete" /\ erase_list = <<>>
        /\ UNCHANGED <<job, erase_list>>
    BY <1>15 DEF Rmdir, Calls, Copied, DeletePCs, DirPCs, CopyPCs, MovePCs,
       ListPCs, FilePCs, LoopPCs
  <2>2. pc' \notin CopyPCs
    BY <1>15 DEF Rmdir, Return, Quiet, file_error, Retry, StopAnswers, Said,
       AbortAsked, CopyPCs, DirPCs
  <2>3. QED
    BY <2>1, <2>2
<1>16. CASE CopyFile
  <2>1. /\ UNCHANGED <<job, stack, erase_list, src, arg>>
        /\ skipped' \subseteq skipped \cup {arg} /\ pc = "copy_file"
        /\ pc' # "erased"
    BY <1>16 DEF CopyFile, Copier
  <2>2. arg \in src
    BY <2>1 DEF CopyPCs
  <2>3. QED
    BY <2>1, <2>2
<1>17. CASE CopyDirFails
  BY <1>17 DEF CopyDirFails, file_error, Retry, StopAnswers, Said, AbortAsked,
     Return, Quiet, Copier, CopyPCs, DirPCs
<1>18. CASE CopyDir
  BY <1>18 DEF CopyDir, Quiet, CopyPCs, DirPCs
<1>19. CASE Mkdir
  BY <1>19 DEF Mkdir, Quiet, file_error, Retry, StopAnswers, Said, AbortAsked,
     Copier, CopyPCs, DirPCs
<1>20. CASE OpenDir
  <2>1. /\ UNCHANGED <<job, erase_list, src, arg, skipped>>
        /\ pc' # "erased" /\ pc = "opendir"
        /\ stack' = stack \/ Push(arg)
    BY <1>20 DEF OpenDir, Copier
  <2>2. arg \in src /\ arg \in Dirs
    BY <2>1 DEF CopyPCs, DirPCs, Arguments
  <2>3. CASE stack' = stack
    BY <2>1, <2>2, <2>3
  <2>4. CASE Push(arg)
    <3>1. Children(arg, src) \in SUBSET Nodes
      BY DEF Children, NodesOK
    <3>2. /\ Len(stack') = Len(stack) + 1 /\ Len(stack) \in Nat
          /\ \A k \in 1..Len(stack) : stack'[k] = stack[k]
          /\ stack'[Len(stack')].dir = arg
      BY <2>2, <2>4, <3>1, Pushed, LenProperties DEF SeqsOK, Push
    <3>3. \A k \in 1..Len(stack') : k \in 1..Len(stack) \/ k = Len(stack')
      BY <3>2
    <3>4. job # "delete" => \A k \in 1..Len(stack') : stack'[k].dir \in src
      BY <2>2, <3>2, <3>3
    <3>5. QED
      BY <2>1, <2>2, <3>4
  <2>5. QED
    BY <2>1, <2>3, <2>4
<1>21. CASE CopyDirEntry
  <2>1. PICK n \in Frame.left : arg' = n /\ Take(n)
    BY <1>21 DEF CopyDirEntry
  <2>2. /\ UNCHANGED <<job, erase_list, src, skipped>> /\ stack # <<>>
        /\ pc = "copy_loop" /\ job # "delete"
    BY <1>21 DEF CopyDirEntry, Calls, DeletePCs, DirPCs, CopyPCs, MovePCs,
       ListPCs, FilePCs, LoopPCs
  <2>3. /\ Len(stack') = Len(stack)
        /\ \A k \in 1..Len(stack) : stack'[k].dir = stack[k].dir
    BY <2>1, <2>2, Taken DEF SeqsOK, Take
  <2>4. arg' \in src
    BY <2>1, <2>2, LastFrame DEF Frame, Frames
  <2>5. QED
    BY <2>2, <2>3, <2>4
<1>22. CASE CopiedEntry
  <2>1. /\ UNCHANGED <<job, stack, skipped, src, arg>> /\ pc = "copied_entry"
        /\ \/ erase_list' = erase_list
           \/ erase_list' = Append(erase_list, arg)
        /\ pc' = "copy_loop"
    BY <1>22 DEF CopiedEntry
  <2>2. arg \in src /\ arg \in Nodes
    BY <2>1 DEF CopyPCs, NodesOK
  <2>3. CASE erase_list' = erase_list
    BY <2>1, <2>3
  <2>4. CASE erase_list' = Append(erase_list, arg)
    <3>1. /\ Len(erase_list') = Len(erase_list) + 1
          /\ Len(erase_list) \in Nat
          /\ \A i \in 1..Len(erase_list) : erase_list'[i] = erase_list[i]
          /\ erase_list'[Len(erase_list) + 1] = arg
      BY <2>2, <2>4, Listed, LenProperties DEF SeqsOK
    <3>2. \A i \in 1..Len(erase_list') :
             i \in 1..Len(erase_list) \/ i = Len(erase_list) + 1
      BY <3>1
    <3>3. \A i \in 1..Len(erase_list') : erase_list'[i] \in src
      BY <2>1, <2>2, <3>1, <3>2
    <3>4. QED
      BY <2>1, <2>2, <3>3
  <2>5. QED
    BY <2>1, <2>3, <2>4
<1>23. CASE CopyDirEnd
  <2>1. /\ UNCHANGED <<job, erase_list, src, skipped>> /\ stack # <<>>
        /\ pc = "copy_loop" /\ job # "delete"
        /\ arg' = Frame.dir /\ stack' = Pop
    BY <1>23 DEF CopyDirEnd, Calls, DeletePCs, DirPCs, CopyPCs, MovePCs,
       ListPCs,
       FilePCs, LoopPCs
  <2>2. /\ Len(stack') = Len(stack) - 1
        /\ \A k \in 1..Len(stack') : stack'[k] = stack[k]
    BY <2>1, Popped DEF SeqsOK, Pop
  <2>3. Len(stack) \in Nat /\ Len(stack) \in 1..Len(stack)
    BY <2>1, LastFrame
  <2>4. \A k \in 1..Len(stack') : k \in 1..Len(stack)
    BY <2>2, <2>3
  <2>5. arg' \in src
    BY <2>1, <2>3 DEF Frame
  <2>6. QED
    BY <2>1, <2>2, <2>4, <2>5
<1>24. CASE MoveFile
  <2>1. /\ UNCHANGED <<job, stack, erase_list, skipped>>
        /\ stack = <<>> /\ erase_list = <<>>
    BY <1>24 DEF MoveFile, Calls, Copied, DeletePCs, DirPCs, CopyPCs, MovePCs,
       ListPCs, FilePCs, LoopPCs
  <2>2. arg \in Nodes /\ arg \in Path[arg] /\ arg = cur /\ cur \in Top
    BY <1>24, PathSelf DEF MoveFile, Arguments, MovePCs, NodesOK
  <2>3. \A n \in skipped : n \in src => n \in src'
    BY <1>24, <2>2 DEF MoveFile, Untouched, Starting, MovePCs, NodesOK
  <2>4. pc' \notin CopyPCs
    BY <1>24 DEF MoveFile, Return, CopyPCs, DirPCs
  <2>5. QED
    BY <2>1, <2>3, <2>4
<1>25. CASE MoveDir
  BY <1>25 DEF MoveDir, Show, Quiet, Said, AbortAsked, CopyPCs, DirPCs
<1>26. CASE MoveDirStat
  <2>1. /\ UNCHANGED <<job, cur, arg, stack, erase_list, skipped, src>>
        /\ stack = <<>> /\ erase_list = <<>> /\ job = "move"
    BY <1>26 DEF MoveDirStat, Calls, Copied, DeletePCs, DirPCs, CopyPCs,
       MovePCs,
       ListPCs, FilePCs, LoopPCs
  <2>2. arg \in Nodes /\ arg \in Path[arg] /\ arg = cur /\ cur \in Top
    BY <1>26, PathSelf DEF MoveDirStat, Arguments, MovePCs, NodesOK
  <2>3. arg \in src
    BY <1>26, <2>2 DEF MoveDirStat, Untouched, Starting, MovePCs
  <2>4. QED
    BY <2>1, <2>3
<1>27. CASE Rename
  <2>1. /\ UNCHANGED <<job, stack, erase_list, skipped>>
        /\ stack = <<>> /\ erase_list = <<>>
    BY <1>27 DEF Rename, Calls, Copied, DeletePCs, DirPCs, CopyPCs, MovePCs,
       ListPCs, FilePCs, LoopPCs
  <2>2. arg \in Nodes /\ arg \in Path[arg] /\ arg = cur /\ cur \in Top
    BY <1>27, PathSelf DEF Rename, Arguments, MovePCs, NodesOK
  <2>3. \A n \in skipped : n \in src => n \in src'
    BY <1>27, <2>2 DEF Rename, Untouched, Starting, MovePCs, NodesOK, Subtree
  <2>4. pc' \notin CopyPCs
    BY <1>27 DEF Rename, Return, CopyPCs, DirPCs
  <2>5. QED
    BY <2>1, <2>3, <2>4
<1>28. CASE RenameFails
  <2>1. /\ UNCHANGED <<job, cur, arg, stack, erase_list, skipped, src>>
        /\ stack = <<>> /\ erase_list = <<>> /\ job = "move"
    BY <1>28 DEF RenameFails, Calls, Copied, DeletePCs, DirPCs, CopyPCs,
       MovePCs,
       ListPCs, FilePCs, LoopPCs
  <2>2. arg \in Nodes /\ arg \in Path[arg] /\ arg = cur /\ cur \in Top
    BY <1>28, PathSelf DEF RenameFails, Arguments, MovePCs, NodesOK
  <2>3. arg \in src
    BY <1>28, <2>2 DEF RenameFails, Untouched, Starting, MovePCs
  <2>4. QED
    BY <2>1, <2>3
<1>29. CASE Moved
  BY <1>29 DEF Moved, Buttons, Quiet, StopAnswers, Said, AbortAsked, CopyPCs,
     DirPCs
<1>30. CASE EraseList
  BY <1>30 DEF EraseList, Quiet, CopyPCs, DirPCs
<1>31. CASE Erased
  <2>1. /\ UNCHANGED <<job, stack, skipped, src>> /\ stack = <<>>
        /\ erase_list' = Tail(erase_list) /\ erase_list # <<>>
        /\ pc' = "erase_list" /\ pc = "erased"
    BY <1>31 DEF Erased, Arguments, Calls, DeletePCs, DirPCs, CopyPCs, MovePCs,
       ListPCs, FilePCs, LoopPCs
  <2>2. \A i \in 1..Len(erase_list') :
           /\ erase_list'[i] = erase_list[i + 1]
           /\ i + 1 \in 1..Len(erase_list) /\ i + 1 > 1
    BY <2>1, Shorter DEF SeqsOK
  <2>3. pc' \notin CopyPCs
    BY <2>1 DEF CopyPCs, DirPCs
  <2>4. QED
    BY <2>1, <2>2, <2>3
<1>32. CASE EraseDirIffEmpty
  BY <1>32 DEF EraseDirIffEmpty, IffEmpty, AbortAsked, CopyPCs, DirPCs
<1>33. CASE RmdirIffEmpty
  <2>1. /\ UNCHANGED <<job, stack, skipped, arg>> /\ stack = <<>>
        /\ job = "move" /\ cur \in Dirs
    BY <1>33 DEF RmdirIffEmpty, Arguments, Calls, DeletePCs, DirPCs, CopyPCs,
       MovePCs, ListPCs, FilePCs, LoopPCs
  <2>2. pc' \notin CopyPCs /\ pc = "rmdir_iff_empty"
    BY <1>33 DEF RmdirIffEmpty, IffEmpty, Retry, CopyPCs, DirPCs
  <2>3. CASE UNCHANGED <<src, erase_list>>
    BY <2>1, <2>2, <2>3
  <2>4. CASE UNCHANGED src /\ erase_list' = <<>>
    BY <2>1, <2>2, <2>4
  <2>5. CASE src' = src \ {arg} /\ arg = cur /\ erase_list' = <<>>
    <3>1. arg \notin skipped
      BY <2>1, <2>5 DEF Copied
    <3>2. QED
      BY <2>1, <2>2, <2>5, <3>1
  <2>6. CASE /\ src' = src \ {arg} /\ arg # cur
             /\ UNCHANGED erase_list /\ pc' = "erased"
    <3>1. erase_list # <<>> /\ arg = Head(erase_list)
      BY <2>2, <2>6 DEF Arguments
    <3>2. /\ arg \notin skipped
          /\ \A i \in 1..Len(erase_list) : i > 1 => erase_list[i] # arg
      BY <3>1, FirstOnly
    <3>3. QED
      BY <2>1, <2>2, <2>6, <3>2
  <2>7. QED
    BY <1>33, <2>3, <2>4, <2>5, <2>6 DEF RmdirIffEmpty, IffEmpty, Retry
<1>34. CASE UNCHANGED vars
  BY <1>34 DEF vars
<1>35. QED
  BY <1>1, <1>2, <1>3, <1>4, <1>5, <1>6, <1>7, <1>8, <1>9, <1>10, <1>11,
     <1>12, <1>13, <1>14, <1>15, <1>16, <1>17, <1>18, <1>19, <1>20, <1>21,
     <1>22, <1>23, <1>24, <1>25, <1>26, <1>27, <1>28, <1>29, <1>30, <1>31,
     <1>32, <1>33, <1>34
     DEF Next, Done, Step, panel_operate, erase_dir, copy_dir_dir, move_dir_dir

\* A tagged entry is not below a plain file.
LEMMA TopFree ==
    ASSUME NodesOK, cur # 0
    PROVE  Parent[cur] \notin taken
BY DEF NodesOK, Top, Nodes

\* The plain files at the target are what they are.
LEMMA TakenStep ==
    ASSUME TakenOK, [Next]_vars
    PROVE  UNCHANGED choice /\ TakenOK'
<1>1. UNCHANGED choice
  BY DEF Next, Done, Step, panel_operate, erase_dir, copy_dir_dir,
     move_dir_dir, vars, NextEntry, LastEntry, EntryDone, Aborted, EraseFile,
     UnlinkFails, Unlink, EraseDir, query_recursive, RecursiveErase,
     RecursiveFails, RecursiveStops, RecursiveEnd, RecursiveRmdir, Rmdir,
     CopyFile, CopyDirFails, CopyDir, Mkdir, OpenDir, CopyDirEntry,
     CopiedEntry, CopyDirEnd, MoveFile, MoveDir, MoveDirStat, Rename,
     RenameFails, Moved, EraseList, Erased, EraseDirIffEmpty, RmdirIffEmpty
<1>2. QED
  BY <1>1 DEF TakenOK

\* Every step keeps Blocked.
LEMMA BlockedStep ==
    ASSUME ModesOK, NodesOK, SeqsOK, Calls, Arguments, Blocked, [Next]_vars
    PROVE  Blocked'
<1> SUFFICES /\ \A n \in Nodes : Parent[n] \in taken' => n \notin dst'
             /\ pc' = "opendir" => Parent[arg'] \notin taken'
             /\ pc' = "rename" =>
                   \A n \in taken' : n = cur' \/ cur' \notin Path[n]
  BY TakenStep DEF Blocked
<1> USE DEF Blocked
<1>1. CASE NextEntry
  BY <1>1 DEF NextEntry, Quiet, ModesOK
<1>2. CASE LastEntry
  BY <1>2 DEF LastEntry
<1>3. CASE EntryDone
  BY <1>3 DEF EntryDone, Show, Quiet, Said, AbortAsked
<1>4. CASE Aborted
  BY <1>4 DEF Aborted
<1>5. CASE EraseFile
  BY <1>5 DEF EraseFile, Show, Quiet, Said, AbortAsked, Eraser
<1>6. CASE UnlinkFails
  BY <1>6 DEF UnlinkFails, file_error, Retry, StopAnswers, Said, AbortAsked,
     Eraser
<1>7. CASE Unlink
  BY <1>7 DEF Unlink, Buttons, Quiet, StopAnswers, Said, AbortAsked, Return,
     Eraser
<1>8. CASE EraseDir
  BY <1>8 DEF EraseDir, Show, Quiet, Said, AbortAsked
<1>9. CASE query_recursive
  BY <1>9 DEF query_recursive, Push, Return, Quiet, Said, AbortAsked
<1>10. CASE RecursiveErase
  BY <1>10 DEF RecursiveErase, Quiet, Take
<1>11. CASE RecursiveFails
  BY <1>11 DEF RecursiveFails, Leave, Up
<1>12. CASE RecursiveStops
  BY <1>12 DEF RecursiveStops, Leave, Up
<1>13. CASE RecursiveEnd
  BY <1>13 DEF RecursiveEnd, Leave, Up, AbortAsked
<1>14. CASE RecursiveRmdir
  BY <1>14 DEF RecursiveRmdir, Leave, Up, Retry, StopAnswers, AbortAsked
<1>15. CASE Rmdir
  BY <1>15 DEF Rmdir, Return, Quiet, file_error, Retry, StopAnswers, Said,
     AbortAsked
<1>16. CASE CopyFile
  <2>1. /\ UNCHANGED taken /\ pc' \notin {"opendir", "rename"}
        /\ dst' \in {dst, dst \cup {arg}}
        /\ Parent[arg] \in taken => dst' = dst
    BY <1>16 DEF CopyFile, Copier
  <2>2. QED
    BY <2>1
<1>17. CASE CopyDirFails
  BY <1>17 DEF CopyDirFails, file_error, Retry, StopAnswers, Said, AbortAsked,
     Return, Quiet, Copier
<1>18. CASE CopyDir
  <2>1. UNCHANGED <<taken, dst, arg>> /\ pc' \in {"mkdir", "opendir"}
    BY <1>18 DEF CopyDir
  <2>2. ASSUME pc' = "opendir" PROVE Parent[arg] \notin taken
    <3>1. CASE stack = <<>>
      BY <1>18, <3>1, TopFree DEF CopyDir, Arguments, DirPCs
    <3>2. CASE stack # <<>>
      BY <1>18, <2>2, <3>2 DEF CopyDir
    <3>3. QED
      BY <3>1, <3>2
  <2>3. QED
    BY <2>1, <2>2
<1>19. CASE Mkdir
  <2>1. UNCHANGED <<taken, dst, arg>> /\ pc' # "rename"
    BY <1>19 DEF Mkdir, file_error, Retry, Copier
  <2>2. pc' = "opendir" => Parent[arg] \notin taken
    BY <1>19 DEF Mkdir, file_error, Retry, Copier
  <2>3. QED
    BY <2>1, <2>2
<1>20. CASE OpenDir
  <2>1. /\ UNCHANGED taken /\ pc' \notin {"opendir", "rename"}
        /\ dst' \subseteq dst \cup {arg} /\ Parent[arg] \notin taken
    BY <1>20 DEF OpenDir, Copier
  <2>2. QED
    BY <2>1
<1>21. CASE CopyDirEntry
  BY <1>21 DEF CopyDirEntry, Take, Quiet
<1>22. CASE CopiedEntry
  BY <1>22 DEF CopiedEntry
<1>23. CASE CopyDirEnd
  BY <1>23 DEF CopyDirEnd
<1>24. CASE MoveFile
  <2>1. /\ UNCHANGED taken /\ pc' = "returned"
        /\ dst' \in {dst, dst \cup {arg}} /\ arg = cur /\ cur # 0
    BY <1>24 DEF MoveFile, Arguments
  <2>2. Parent[arg] \notin taken
    BY <2>1, TopFree
  <2>3. QED
    BY <2>1, <2>2
<1>25. CASE MoveDir
  BY <1>25 DEF MoveDir, Show, Quiet, Said, AbortAsked
<1>26. CASE MoveDirStat
  <2>1. UNCHANGED <<taken, dst, arg, cur>> /\ pc' # "opendir"
    BY <1>26 DEF MoveDirStat, file_error, Retry
  <2>2. ASSUME pc' = "rename", NEW n \in taken, n # cur, cur \in Path[n]
        PROVE  FALSE
    <3>1. cur \in Top /\ arg = cur /\ n \in Nodes
      BY <1>26 DEF MoveDirStat, Arguments, MovePCs, NodesOK
    <3>2. RootOf[n] = cur
      BY <2>2, <3>1, RootAbove
    <3>3. Parent[n] # 0
      BY <2>2, <3>1, PathParent
    <3>4. obstacle[cur] # "none" /\ ~dive_into_subdirs
      BY <3>2, <3>3 DEF TakenOK
    <3>5. QED
      BY <1>26, <2>2, <3>1, <3>4 DEF MoveDirStat, file_error, Retry
  <2>3. QED
    BY <2>1, <2>2
<1>27. CASE Rename
  <2>1. /\ UNCHANGED taken /\ pc' = "returned" /\ pc = "rename"
        /\ dst' = dst \cup Subtree(arg) /\ arg = cur /\ cur # 0
        /\ arg \notin taken
    BY <1>27 DEF Rename, Return, Arguments, MovePCs
  <2>2. ASSUME NEW n \in Subtree(arg), Parent[n] \in taken PROVE FALSE
    <3>1. n \in Nodes /\ cur \in Path[n] /\ cur \in Top
      BY <2>1, <2>2 DEF Subtree, NodesOK
    <3>2. Parent[n] # 0 /\ n # cur
      BY <2>2, <3>1 DEF Top, NodesOK, Nodes
    <3>3. cur \in Path[Parent[n]]
      BY <3>1, <3>2, PathParent
    <3>4. QED
      BY <2>1, <2>2, <3>3
  <2>3. QED
    BY <2>1, <2>2
<1>28. CASE RenameFails
  BY <1>28 DEF RenameFails, Quiet, file_error, Retry, StopAnswers, Said,
     AbortAsked
<1>29. CASE Moved
  BY <1>29 DEF Moved, Buttons, Quiet, StopAnswers, Said, AbortAsked
<1>30. CASE EraseList
  BY <1>30 DEF EraseList, Quiet
<1>31. CASE Erased
  BY <1>31 DEF Erased, Quiet
<1>32. CASE EraseDirIffEmpty
  BY <1>32 DEF EraseDirIffEmpty, IffEmpty, AbortAsked
<1>33. CASE RmdirIffEmpty
  BY <1>33 DEF RmdirIffEmpty, IffEmpty, AbortAsked, Retry, StopAnswers
<1>34. CASE UNCHANGED vars
  BY <1>34 DEF vars
<1>35. QED
  BY <1>1, <1>2, <1>3, <1>4, <1>5, <1>6, <1>7, <1>8, <1>9, <1>10, <1>11,
     <1>12, <1>13, <1>14, <1>15, <1>16, <1>17, <1>18, <1>19, <1>20, <1>21,
     <1>22, <1>23, <1>24, <1>25, <1>26, <1>27, <1>28, <1>29, <1>30, <1>31,
     <1>32, <1>33, <1>34
     DEF Next, Done, Step, panel_operate, erase_dir, copy_dir_dir, move_dir_dir

\* A directory that was moved onto a plain file and is empty was always empty.
LEMMA WasEmpty ==
    ASSUME NodesOK, Blocked, MoveKeeps, job = "move", NEW n \in taken,
           Children(n, src) = {}
    PROVE  Children(n, Nodes) = {}
<1> SUFFICES ASSUME NEW c \in Nodes, Parent[c] = n PROVE FALSE
  BY DEF Children
<1>1. c \notin src
  BY DEF Children
<1>2. c \notin dst
  BY DEF Blocked
<1>3. c \in taken
  BY <1>1, <1>2 DEF MoveKeeps
<1>4. n \in Path[c] /\ n # c
  <2>1. n \in Nodes /\ n # 0 /\ n < c
    BY DEF NodesOK, Nodes
  <2>2. n \in Path[n]
    BY <2>1, PathOf
  <2>3. QED
    BY <2>1, <2>2, ChildPath DEF Nodes
<1>5. QED
  BY <1>3, <1>4 DEF Blocked, TakenOK

\* Every step keeps MoveKeeps.
LEMMA MoveKeepsStep ==
    ASSUME NodesOK, SeqsOK, Calls, Arguments, Copied, EraseListSafe,
           Blocked, MoveKeeps, [Next]_vars
    PROVE  MoveKeeps'
<1>0. taken' = taken
  BY TakenStep DEF Blocked
<1> USE DEF MoveKeeps
<1>1. CASE NextEntry
  BY <1>0, <1>1 DEF NextEntry, Quiet
<1>2. CASE LastEntry
  BY <1>0, <1>2 DEF LastEntry
<1>3. CASE EntryDone
  BY <1>0, <1>3 DEF EntryDone, Show, Quiet, Said, AbortAsked
<1>4. CASE Aborted
  BY <1>0, <1>4 DEF Aborted
<1>5. CASE EraseFile
  BY <1>0, <1>5 DEF EraseFile, Show, Quiet, Said, AbortAsked, Eraser
<1>6. CASE UnlinkFails
  BY <1>0, <1>6 DEF UnlinkFails, file_error, Retry, StopAnswers, Said, AbortAsked,
     Eraser
<1>7. CASE Unlink
  <2>1. UNCHANGED <<job, dst>> /\ src' = src \ {arg}
    BY <1>7 DEF Unlink
  <2>2. ASSUME job = "move" PROVE arg \in dst
    <3>1. erase_list # <<>> /\ arg = Head(erase_list) /\ arg \notin Dirs
      BY <1>7, <2>2 DEF Unlink, Arguments, FilePCs
    <3>2. arg \in dst \cup taken
      BY <3>1, FirstListed DEF EraseListSafe
    <3>3. QED
      BY <3>1, <3>2 DEF NodesOK
  <2>3. QED
    BY <1>0, <2>1, <2>2
<1>8. CASE EraseDir
  BY <1>0, <1>8 DEF EraseDir, Show, Quiet, Said, AbortAsked
<1>9. CASE query_recursive
  BY <1>0, <1>9 DEF query_recursive, Push, Return, Quiet, Said, AbortAsked
<1>10. CASE RecursiveErase
  BY <1>0, <1>10 DEF RecursiveErase, Quiet, Take
<1>11. CASE RecursiveFails
  BY <1>0, <1>11 DEF RecursiveFails, Leave, Up
<1>12. CASE RecursiveStops
  BY <1>0, <1>12 DEF RecursiveStops, Leave, Up
<1>13. CASE RecursiveEnd
  BY <1>0, <1>13 DEF RecursiveEnd, Leave, Up, AbortAsked
<1>14. CASE RecursiveRmdir
  <2>1. job' # "move"
    BY <1>14 DEF RecursiveRmdir, Calls, DeletePCs, DirPCs, CopyPCs, MovePCs,
       ListPCs, FilePCs, LoopPCs
  <2>2. QED
    BY <2>1
<1>15. CASE Rmdir
  <2>1. job' # "move"
    BY <1>15 DEF Rmdir, Calls, DeletePCs, DirPCs, CopyPCs, MovePCs, ListPCs,
       FilePCs, LoopPCs
  <2>2. QED
    BY <2>1
<1>16. CASE CopyFile
  BY <1>0, <1>16 DEF CopyFile, Said, AbortAsked, Copier
<1>17. CASE CopyDirFails
  BY <1>0, <1>17 DEF CopyDirFails, file_error, Retry, StopAnswers, Said, AbortAsked,
     Return, Quiet, Copier
<1>18. CASE CopyDir
  BY <1>0, <1>18 DEF CopyDir, Quiet
<1>19. CASE Mkdir
  BY <1>0, <1>19 DEF Mkdir, Quiet, file_error, Retry, StopAnswers, Said, AbortAsked,
     Copier
<1>20. CASE OpenDir
  BY <1>0, <1>20 DEF OpenDir, Push, Copier
<1>21. CASE CopyDirEntry
  BY <1>0, <1>21 DEF CopyDirEntry, Take, Quiet
<1>22. CASE CopiedEntry
  BY <1>0, <1>22 DEF CopiedEntry
<1>23. CASE CopyDirEnd
  BY <1>0, <1>23 DEF CopyDirEnd
<1>24. CASE MoveFile
  BY <1>0, <1>24 DEF MoveFile, Said, AbortAsked
<1>25. CASE MoveDir
  BY <1>0, <1>25 DEF MoveDir, Show, Quiet, Said, AbortAsked
<1>26. CASE MoveDirStat
  BY <1>0, <1>26 DEF MoveDirStat, Quiet, file_error, Retry, StopAnswers, Said,
     AbortAsked
<1>27. CASE Rename
  BY <1>0, <1>27 DEF Rename, Return, Quiet, Subtree, NodesOK
<1>28. CASE RenameFails
  BY <1>0, <1>28 DEF RenameFails, Quiet, file_error, Retry, StopAnswers, Said,
     AbortAsked
<1>29. CASE Moved
  BY <1>0, <1>29 DEF Moved, Buttons, Quiet, StopAnswers, Said, AbortAsked
<1>30. CASE EraseList
  BY <1>0, <1>30 DEF EraseList, Quiet
<1>31. CASE Erased
  BY <1>0, <1>31 DEF Erased, Quiet
<1>32. CASE EraseDirIffEmpty
  BY <1>0, <1>32 DEF EraseDirIffEmpty, IffEmpty, AbortAsked
<1>33. CASE RmdirIffEmpty
  <2>1. /\ UNCHANGED <<job, dst>>
        /\ src' = src \/ (src' = src \ {arg} /\ Children(arg, src) = {})
    BY <1>33 DEF RmdirIffEmpty
  <2>2. ASSUME job = "move" PROVE arg \in dst \cup taken
    <3>1. arg = cur \/ (erase_list # <<>> /\ arg = Head(erase_list))
      BY <1>33 DEF RmdirIffEmpty, Arguments
    <3>2. cur \in dst \cup taken
      BY <1>33, <2>2 DEF RmdirIffEmpty, Copied, ListPCs
    <3>3. QED
      BY <3>1, <3>2, FirstListed DEF EraseListSafe
  <2>3. ASSUME job = "move", arg \in taken, Children(arg, src) = {}
        PROVE  Children(arg, Nodes) = {}
    BY <2>3, WasEmpty
  <2>4. QED
    BY <1>0, <2>1, <2>2, <2>3
<1>34. CASE UNCHANGED vars
  BY <1>0, <1>34 DEF vars
<1>35. QED
  BY <1>1, <1>2, <1>3, <1>4, <1>5, <1>6, <1>7, <1>8, <1>9, <1>10, <1>11,
     <1>12, <1>13, <1>14, <1>15, <1>16, <1>17, <1>18, <1>19, <1>20, <1>21,
     <1>22, <1>23, <1>24, <1>25, <1>26, <1>27, <1>28, <1>29, <1>30, <1>31,
     <1>32, <1>33, <1>34
     DEF Next, Done, Step, panel_operate, erase_dir, copy_dir_dir, move_dir_dir

\* As long as the first of the list is there the moved directory is not empty.
LEMMA NotEmpty ==
    ASSUME NodesOK, SeqsOK, SrcClosed, EraseListSafe, erase_list # <<>>,
           Head(erase_list) \in src, cur \in Top
    PROVE  Children(cur, src) # {}
<1> DEFINE h == Head(erase_list)
<1>1. h \in Nodes /\ h # cur /\ RootOf[h] = cur
  BY FirstListed DEF EraseListSafe
<1>2. cur \in Path[h]
  BY <1>1, RootAbove
<1>3. PICK c \in Path[h] : c \in Nodes /\ Parent[c] = cur
  BY <1>1, <1>2, PathDown
<1>4. c \in src
  BY <1>3, SrcUp
<1>5. QED
  BY <1>3, <1>4 DEF Children

\* Every step keeps Stopping.
LEMMA StoppingStep ==
    ASSUME ModesOK, NodesOK, SeqsOK, Calls, Arguments, SrcClosed,
           EraseListSafe, Kept, Stopping, [Next]_vars
    PROVE  Stopping'
<1> USE DEF Stopping, RestPCs
<1>0. cur <= cur
  BY DEF NodesOK, Top, Nodes
<1>1. CASE NextEntry
  <2>1. cur' \in Nat /\ cur' > cur /\ cur \in Nat
    BY <1>1 DEF NextEntry, Later, NodesOK, Top, Nodes
  <2>2. aborted' = aborted
    BY <1>1 DEF NextEntry, Quiet
  <2>3. \A t \in aborted : t \in Nat
    BY DEF NodesOK, Top, Nodes
  <2>4. QED
    BY <2>1, <2>2, <2>3
<1>2. CASE LastEntry
  BY <1>2, <1>0 DEF LastEntry
<1>3. CASE EntryDone
  BY <1>3, <1>0 DEF EntryDone, Show, Quiet, Said, AbortAsked
<1>4. CASE Aborted
  BY <1>4, <1>0 DEF Aborted
<1>5. CASE EraseFile
  <2>1. UNCHANGED <<cur, src>>
    BY <1>5 DEF EraseFile
  <2>2. ASSUME job = "move" PROVE Children(cur, src) # {}
    <3>1. /\ erase_list # <<>> /\ arg = Head(erase_list) /\ cur \in Top
          /\ pc # "erased"
      BY <1>5, <2>2 DEF EraseFile, Arguments, FilePCs, NodesOK
    <3>2. arg \in src
      BY <3>1, FirstListed DEF Kept
    <3>3. QED
      BY <3>1, <3>2, NotEmpty
  <2>3. QED
    BY <1>0, <1>5, <2>1, <2>2 DEF EraseFile, Show, Quiet, Said, AbortAsked,
       Eraser
<1>6. CASE UnlinkFails
  <2>1. UNCHANGED <<cur, src>>
    BY <1>6 DEF UnlinkFails
  <2>2. ASSUME job = "move" PROVE Children(cur, src) # {}
    <3>1. /\ erase_list # <<>> /\ arg = Head(erase_list) /\ cur \in Top
          /\ pc # "erased"
      BY <1>6, <2>2 DEF UnlinkFails, Arguments, FilePCs, NodesOK
    <3>2. arg \in src
      BY <3>1, FirstListed DEF Kept
    <3>3. QED
      BY <3>1, <3>2, NotEmpty
  <2>3. QED
    BY <1>0, <1>6, <2>1, <2>2 DEF UnlinkFails, file_error, Retry, StopAnswers,
       Said, AbortAsked, Eraser
<1>7. CASE Unlink
  BY <1>7, <1>0 DEF Unlink, Buttons, Quiet, StopAnswers, Said, AbortAsked,
     Return, Eraser
<1>8. CASE EraseDir
  BY <1>8, <1>0 DEF EraseDir, Show, Quiet, Said, AbortAsked
<1>9. CASE query_recursive
  BY <1>9, <1>0 DEF query_recursive, Push, Return, Quiet, Said, AbortAsked
<1>10. CASE RecursiveErase
  BY <1>10, <1>0 DEF RecursiveErase, Quiet, Take
<1>11. CASE RecursiveFails
  BY <1>11, <1>0 DEF RecursiveFails, Leave, Up
<1>12. CASE RecursiveStops
  BY <1>12, <1>0 DEF RecursiveStops, Leave, Up
<1>13. CASE RecursiveEnd
  BY <1>13, <1>0 DEF RecursiveEnd, Leave, Up, AbortAsked
<1>14. CASE RecursiveRmdir
  BY <1>14, <1>0 DEF RecursiveRmdir, Leave, Up, Retry, StopAnswers, AbortAsked
<1>15. CASE Rmdir
  BY <1>15, <1>0 DEF Rmdir, Return, Quiet, file_error, Retry, StopAnswers,
     Said, AbortAsked
<1>16. CASE CopyFile
  BY <1>16, <1>0 DEF CopyFile, Said, AbortAsked, Copier
<1>17. CASE CopyDirFails
  BY <1>17, <1>0 DEF CopyDirFails, file_error, Retry, StopAnswers, Said,
     AbortAsked, Return, Quiet, Copier
<1>18. CASE CopyDir
  BY <1>18, <1>0 DEF CopyDir, Quiet
<1>19. CASE Mkdir
  BY <1>19, <1>0 DEF Mkdir, Quiet, file_error, Retry, StopAnswers, Said,
     AbortAsked, Copier
<1>20. CASE OpenDir
  BY <1>20, <1>0 DEF OpenDir, Push, Copier
<1>21. CASE CopyDirEntry
  BY <1>21, <1>0 DEF CopyDirEntry, Take, Quiet
<1>22. CASE CopiedEntry
  BY <1>22, <1>0 DEF CopiedEntry
<1>23. CASE CopyDirEnd
  BY <1>23, <1>0 DEF CopyDirEnd
<1>24. CASE MoveFile
  BY <1>24, <1>0 DEF MoveFile, Said, AbortAsked
<1>25. CASE MoveDir
  BY <1>25, <1>0 DEF MoveDir, Show, Quiet, Said, AbortAsked
<1>26. CASE MoveDirStat
  BY <1>26, <1>0 DEF MoveDirStat, Quiet, file_error, Retry, StopAnswers, Said,
     AbortAsked
<1>27. CASE Rename
  BY <1>27, <1>0 DEF Rename, Return, Quiet
<1>28. CASE RenameFails
  BY <1>28, <1>0 DEF RenameFails, Quiet, file_error, Retry, StopAnswers, Said,
     AbortAsked
<1>29. CASE Moved
  BY <1>29, <1>0 DEF Moved, Buttons, Quiet, StopAnswers, Said, AbortAsked
<1>30. CASE EraseList
  BY <1>30, <1>0 DEF EraseList, Quiet
<1>31. CASE Erased
  BY <1>31, <1>0 DEF Erased, Quiet
<1>32. CASE EraseDirIffEmpty
  <2>1. UNCHANGED <<cur, src>>
    BY <1>32 DEF EraseDirIffEmpty
  <2>2. ASSUME arg # cur PROVE Children(cur, src) # {}
    <3>1. /\ erase_list # <<>> /\ arg = Head(erase_list) /\ cur \in Top
          /\ pc # "erased"
      BY <1>32, <2>2 DEF EraseDirIffEmpty, Arguments, FilePCs, NodesOK
    <3>2. arg \in src
      BY <3>1, FirstListed DEF Kept
    <3>3. QED
      BY <3>1, <3>2, NotEmpty
  <2>3. QED
    BY <1>0, <1>32, <2>1, <2>2 DEF EraseDirIffEmpty, IffEmpty, AbortAsked
<1>33. CASE RmdirIffEmpty
  <2>1. cur' = cur
    BY <1>33 DEF RmdirIffEmpty
  <2>2. ASSUME arg # cur PROVE Children(cur, src) # {}
    <3>1. /\ erase_list # <<>> /\ arg = Head(erase_list) /\ cur \in Top
          /\ pc # "erased"
      BY <1>33, <2>2 DEF RmdirIffEmpty, Arguments, FilePCs, NodesOK
    <3>2. arg \in src
      BY <3>1, FirstListed DEF Kept
    <3>3. QED
      BY <3>1, <3>2, NotEmpty
  <2>3. QED
    BY <1>0, <1>33, <2>1, <2>2 DEF RmdirIffEmpty, IffEmpty, AbortAsked, Retry,
       StopAnswers
<1>34. CASE UNCHANGED vars
  BY <1>34, <1>0 DEF vars
<1>35. QED
  BY <1>1, <1>2, <1>3, <1>4, <1>5, <1>6, <1>7, <1>8, <1>9, <1>10, <1>11,
     <1>12, <1>13, <1>14, <1>15, <1>16, <1>17, <1>18, <1>19, <1>20, <1>21,
     <1>22, <1>23, <1>24, <1>25, <1>26, <1>27, <1>28, <1>29, <1>30, <1>31,
     <1>32, <1>33, <1>34
     DEF Next, Done, Step, panel_operate, erase_dir, copy_dir_dir, move_dir_dir

\* Within an entry in which Abort was asked for nothing is copied or erased.
LEMMA AbortStep ==
    ASSUME Calls, Stopping, [Next]_vars, cur \in aborted, cur' = cur
    PROVE  UNCHANGED tree
<1> USE DEF Stopping, RestPCs
<1>1. CASE NextEntry
  BY <1>1 DEF NextEntry, Quiet
<1>2. CASE LastEntry
  BY <1>2 DEF LastEntry
<1>3. CASE EntryDone
  BY <1>3 DEF EntryDone, Show, Quiet, Said, AbortAsked
<1>4. CASE Aborted
  BY <1>4 DEF Aborted
<1>5. CASE EraseFile
  BY <1>5 DEF EraseFile, Show, Quiet, Said, AbortAsked, Eraser
<1>6. CASE UnlinkFails
  BY <1>6 DEF UnlinkFails, file_error, Retry, StopAnswers, Said, AbortAsked,
     Eraser
<1>7. CASE Unlink
  BY <1>7 DEF Unlink, Buttons, Quiet, StopAnswers, Said, AbortAsked, Return,
     Eraser
<1>8. CASE EraseDir
  BY <1>8 DEF EraseDir, Show, Quiet, Said, AbortAsked
<1>9. CASE query_recursive
  BY <1>9 DEF query_recursive, Push, Return, Quiet, Said, AbortAsked
<1>10. CASE RecursiveErase
  BY <1>10 DEF RecursiveErase, Quiet, Take
<1>11. CASE RecursiveFails
  BY <1>11 DEF RecursiveFails, Leave, Up
<1>12. CASE RecursiveStops
  BY <1>12 DEF RecursiveStops, Leave, Up
<1>13. CASE RecursiveEnd
  BY <1>13 DEF RecursiveEnd, Leave, Up, AbortAsked
<1>14. CASE RecursiveRmdir
  BY <1>14 DEF RecursiveRmdir, Leave, Up, Retry, StopAnswers, AbortAsked
<1>15. CASE Rmdir
  BY <1>15 DEF Rmdir, Return, Quiet, file_error, Retry, StopAnswers, Said,
     AbortAsked
<1>16. CASE CopyFile
  BY <1>16 DEF CopyFile, Said, AbortAsked, Copier
<1>17. CASE CopyDirFails
  BY <1>17 DEF CopyDirFails, file_error, Retry, StopAnswers, Said, AbortAsked,
     Return, Quiet, Copier
<1>18. CASE CopyDir
  BY <1>18 DEF CopyDir, Quiet
<1>19. CASE Mkdir
  BY <1>19 DEF Mkdir, Quiet, file_error, Retry, StopAnswers, Said, AbortAsked,
     Copier
<1>20. CASE OpenDir
  BY <1>20 DEF OpenDir, Push, Copier
<1>21. CASE CopyDirEntry
  BY <1>21 DEF CopyDirEntry, Take, Quiet
<1>22. CASE CopiedEntry
  BY <1>22 DEF CopiedEntry
<1>23. CASE CopyDirEnd
  BY <1>23 DEF CopyDirEnd
<1>24. CASE MoveFile
  BY <1>24 DEF MoveFile, Said, AbortAsked
<1>25. CASE MoveDir
  BY <1>25 DEF MoveDir, Show, Quiet, Said, AbortAsked
<1>26. CASE MoveDirStat
  BY <1>26 DEF MoveDirStat, Quiet, file_error, Retry, StopAnswers, Said,
     AbortAsked
<1>27. CASE Rename
  BY <1>27 DEF Rename, Return, Quiet
<1>28. CASE RenameFails
  BY <1>28 DEF RenameFails, Quiet, file_error, Retry, StopAnswers, Said,
     AbortAsked
<1>29. CASE Moved
  BY <1>29 DEF Moved, Buttons, Quiet, StopAnswers, Said, AbortAsked
<1>30. CASE EraseList
  BY <1>30 DEF EraseList, Quiet
<1>31. CASE Erased
  BY <1>31 DEF Erased, Quiet
<1>32. CASE EraseDirIffEmpty
  BY <1>32 DEF EraseDirIffEmpty, IffEmpty, AbortAsked
<1>33. CASE RmdirIffEmpty
  BY <1>33 DEF RmdirIffEmpty, IffEmpty, AbortAsked, Retry, StopAnswers
<1>34. CASE UNCHANGED vars
  BY <1>34 DEF vars
<1>35. QED
  BY <1>1, <1>2, <1>3, <1>4, <1>5, <1>6, <1>7, <1>8, <1>9, <1>10, <1>11,
     <1>12, <1>13, <1>14, <1>15, <1>16, <1>17, <1>18, <1>19, <1>20, <1>21,
     <1>22, <1>23, <1>24, <1>25, <1>26, <1>27, <1>28, <1>29, <1>30, <1>31,
     <1>32, <1>33, <1>34
     DEF Next, Done, Step, panel_operate, erase_dir, copy_dir_dir, move_dir_dir

-----------------------------------------------------------------------------
(* The theorems.                                                            *)

Inv ==
    /\ ModesOK /\ NodesOK /\ SeqsOK
    /\ Calls /\ Arguments /\ Frames
    /\ SrcClosed /\ Untouched /\ Ahead /\ Copied /\ Kept
    /\ Refused /\ Stopping
    /\ EraseListSafe /\ Blocked /\ MoveKeeps

\* The invariant holds at the start.
LEMMA InitInv == Init => Inv
<1> SUFFICES ASSUME Init PROVE Inv
  OBVIOUS
<1>1. /\ src = Nodes /\ dst = {} /\ tagged = Top /\ job \in Jobs
      /\ cur = 0 /\ arg = 0 /\ stack = <<>> /\ erase_list = <<>>
      /\ budget = MaxRetry /\ aborted = {} /\ refused = {} /\ skipped = {}
      /\ obstacle \in [Top -> Targets]
  BY DEF Init
<1>2. pc = "next" /\ status = "cont" /\ recursive_result = "none"
  BY DEF Init
<1>3. Len(<<>>) = 0 /\ 1..0 = {} /\ 1..(0 - 1) = {}
  OBVIOUS
<1>4. ModesOK
  <2>1. job \in {"copy", "move", "delete"} /\ budget \in 0..MaxRetry
    BY <1>1
  <2>2. dive_into_subdirs \in BOOLEAN
    BY DEF Init
  <2>3. QED
    BY <1>2, <2>1, <2>2 DEF ModesOK, PCs, Status, Answers
<1>5. NodesOK
  <2>1. obstacle \in [Top -> Obstacles]
    BY <1>1
  <2>2. taken \subseteq Dirs
    BY DEF Init
  <2>3. QED
    BY <1>1, <2>1, <2>2 DEF NodesOK
<1>6. SeqsOK
  BY <1>1, EmptySeq DEF SeqsOK
<1>7. Calls /\ Arguments
  BY <1>1, <1>2 DEF Calls, Arguments, DeletePCs, DirPCs, CopyPCs, MovePCs,
     ListPCs, FilePCs, LoopPCs
<1>8. Frames /\ EraseListSafe
  BY <1>1, <1>3 DEF Frames, Chain, EraseListSafe
<1>9. SrcClosed /\ MoveKeeps /\ Untouched
  BY <1>1 DEF SrcClosed, MoveKeeps, Untouched
<1>10. Ahead /\ Copied
  <2>1. Dealt = {}
    BY <1>1, <1>3 DEF Dealt
  <2>2. Ahead
    BY <2>1 DEF Ahead
  <2>3. Copied
    BY <1>1, <1>2, <1>3 DEF Copied, ListPCs, FilePCs
  <2>4. QED
    BY <2>2, <2>3
<1>11. Kept
  BY <1>1, <1>2, <1>3 DEF Kept, CopyPCs, DirPCs
<1>12. Refused /\ Stopping
  BY <1>1 DEF Refused, Stopping
<1>13. Blocked
  BY <1>1, <1>2 DEF Blocked, Init
<1>14. QED
  BY <1>4, <1>5, <1>6, <1>7, <1>8, <1>9, <1>10, <1>11, <1>12, <1>13 DEF Inv

\* The invariant is inductive.
LEMMA AlwaysInv == Spec => []Inv
<1>1. Inv /\ [Next]_vars => Inv'
  <2> SUFFICES ASSUME Inv, [Next]_vars PROVE Inv'
    OBVIOUS
  <2> USE DEF Inv
  <2>1. ModesOK' /\ NodesOK' /\ SeqsOK'
    BY ModesStep, NodesStep, SeqsStep
  <2>2. Calls' /\ Arguments' /\ Frames'
    BY CallsStep, ArgumentsStep, FramesStep
  <2>3. src' = src \/ \E S : Removed(S)
    BY WhatGoes
  <2>4. SrcClosed'
    BY <2>3, SrcClosedStep
  <2>5. Untouched'
    <3>1. Moves
      BY MovesStep
    <3>2. cur' \in Top \cup {0}
      BY <2>1 DEF NodesOK
    <3>3. QED
      BY <2>3, <3>1, <3>2, UntouchedStep
  <2>6. Copied' /\ EraseListSafe' /\ Kept' /\ MoveKeeps' /\ Stopping'
    BY CopiedStep, ListStep, KeptStep, MoveKeepsStep, StoppingStep
  <2>7. Ahead'
    BY <2>6, AheadStep
  <2>8. Refused'
    <3>1. \A d \in refused : Subtree(d) \subseteq src'
      BY <2>3, RefusedKept
    <3>2. QED
      BY <3>1, RefusedStep
  <2>9. Blocked'
    BY BlockedStep
  <2>10. QED
    BY <2>1, <2>2, <2>4, <2>5, <2>6, <2>7, <2>8, <2>9
<1>2. QED
  BY <1>1, InitInv, PTL DEF Spec

\* The types, and: what move_dir_dir notes down for erasing has been copied or
\* is a directory for which a plain file was taken, belongs to the directory
\* being moved, and comes before the directory it is in (file.c:1331).
THEOREM ErasesWhatIsCopied == Spec => []Consistent
<1>1. Inv => Consistent
  BY Types DEF Inv, Consistent
<1>2. QED
  BY <1>1, AlwaysInv, PTL

\* A move never loses a file, nor a directory that holds anything: what has gone
\* from the source is complete at the target, through copying, erasing and
\* renaming (file.c:1331); only an empty directory may be lost, to a plain file
\* of its name (file.c:951).
THEOREM MovedTreesStay == Spec => []MoveKeeps
<1>1. Inv => MoveKeeps
  BY DEF Inv
<1>2. QED
  BY <1>1, AlwaysInv, PTL

\* What was skipped in a move stays with the directories it is in, and a
\* directory that the user would not have deleted stays with all it holds
\* (file.c:1086, 2145).
THEOREM SkippedAndRefusedStay == Spec => []SkippedStays
<1>1. Inv => SkippedStays
  <2> SUFFICES ASSUME Inv PROVE SkippedStays
    OBVIOUS
  <2>1. ASSUME NEW n \in skipped, job = "move" PROVE Path[n] \subseteq src
    <3>1. n \in src
      BY <2>1 DEF Inv, Kept
    <3>2. QED
      BY <3>1, SrcUp DEF Inv
  <2>2. \A d \in refused : Subtree(d) \subseteq src
    BY DEF Inv, Refused
  <2>3. QED
    BY <2>1, <2>2 DEF SkippedStays
<1>2. QED
  BY <1>1, AlwaysInv, PTL

\* In the tagged entry in which the user asked for Abort nothing more is copied
\* or erased, however deep the calls are nested (file.c:1417).
THEOREM AbortStops == Spec => AbortStopsEntry
<1>1. Inv /\ [Next]_vars =>
          [(cur \in aborted) /\ cur' = cur => UNCHANGED tree]_vars
  BY AbortStep DEF Inv
<1>2. QED
  BY <1>1, AlwaysInv, PTL DEF Spec, AbortStopsEntry
=============================================================================
