-------------------------- MODULE BackgroundProofs --------------------------
(***************************************************************************)
(* The calls of background jobs into their parent, for any number of jobs, *)
(* files, retries and nested dialogs: a question is in one place, and gets *)
(* one answer, its own, so that parent_call is a procedure call.           *)
(***************************************************************************)
EXTENDS Background, SequenceTheorems, FiniteSetTheorems, TLAPS

Frames == [job : Jobs, about : {"replace", "error", "death"}]

(* A dialog about c is open; the one dialog about c is open.               *)
Open(c) == \E i \in 1..Len(stack) : stack[i].job = c
Dialog(c, about) ==
    \E i \in 1..Len(stack) :
        /\ stack[i].job = c /\ stack[i].about = about
        /\ \A j \in 1..Len(stack) : stack[j].job = c => j = i

Routine(c) == IF job[c] = "ask" THEN "replace" ELSE "error"

Clear(c) == up[c] = <<>> /\ down[c] = <<>> /\ ~Open(c)

(* The question of a job is in one place, and is the one that it waits     *)
(* for; a Retry on its way back was one that it may still get.             *)
OnItsWay(c) == up[c] = <<Routine(c)>> /\ down[c] = <<>> /\ ~Open(c)
InDialog(c) == up[c] = <<>> /\ down[c] = <<>> /\ Dialog(c, Routine(c))
Replied(c) ==
    /\ up[c] = <<>> /\ ~Open(c)
    /\ Len(down[c]) = 1
    /\ job[c] = "error" /\ Head(down[c]).status = "retry" => retries[c] > 0

(* What a job has in the sockets and on the screen, for each place it may  *)
(* be at.  Nothing is known of the sockets of a job that was killed.       *)
InStep(c) ==
    /\ job[c] \in {"ask", "open", "error"} => file[c] <= NFiles
    /\ Asking(c) => OnItsWay(c) \/ InDialog(c) \/ Replied(c)
    /\ job[c] \in {"none", "file", "open", "leaving"} => Clear(c)
    /\ job[c] = "none" => c \notin channels
    /\ job[c] = "gone" =>
          /\ down[c] = <<>> /\ ~Open(c)
          /\ up[c] = <<"exit">> \/ (up[c] = <<>> /\ c \notin channels)

(* While the dialog that replace_dlg points to has no result, it is above  *)
(* every other replace dialog.                                             *)
Newest ==
    replace_dlg.ret = "none" =>
        \A i \in 1..Len(stack) : stack[i].about = "replace" =>
            \E j \in i..Len(stack) :
                stack[j].job = replace_dlg.job /\ stack[j].about = "replace"

(* Invariant and inductive.                                                *)
IInv == TypeOK /\ (pc # "dead" => Newest /\ \A c \in Jobs : InStep(c))

USE BackgroundAssumption
    DEF jobs, sockets, globals, loop, history, vars, parent

-----------------------------------------------------------------------------
(* Sequences of at most one message.                                       *)

LEMMA SendOne ==
    ASSUME NEW S, NEW m \in S
    PROVE  /\ Append(<<>>, m) = <<m>> /\ <<m>> \in Seq(S) /\ <<m>> # <<>>
           /\ Len(<<m>>) = 1 /\ Head(<<m>>) = m /\ Tail(<<m>>) = <<>>
  OBVIOUS

LEMMA OnlyOne ==
    ASSUME NEW S, NEW s \in Seq(S), Len(s) = 1
    PROVE  s # <<>> /\ Head(s) \in S /\ Tail(s) = <<>>
<1>1. s # <<>>
  BY SMTT(30), EmptySeq
<1>2. Head(s) \in S /\ Tail(s) \in Seq(S) /\ Len(Tail(s)) = 0
  BY <1>1, HeadTailProperties
<1>3. QED
  BY <1>1, <1>2, EmptySeq

LEMMA TailType ==
    ASSUME NEW S, NEW s \in Seq(S), s # <<>>
    PROVE  Tail(s) \in Seq(S) /\ Head(s) \in S
  BY HeadTailProperties

-----------------------------------------------------------------------------
(* The stack of dialogs.                                                   *)

LEMMA Pushing ==
    ASSUME stack \in Seq(Frames), NEW c \in Jobs,
           NEW about \in {"replace", "error", "death"},
           stack' = Append(stack, [job |-> c, about |-> about])
    PROVE  /\ stack' \in Seq(Frames)
           /\ \A d \in Jobs \ {c} :
                 /\ Open(d)' <=> Open(d)
                 /\ \A b : Dialog(d, b) => Dialog(d, b)'
           /\ ~Open(c) => Dialog(c, about)'
           /\ Len(stack) \in Nat /\ Len(stack') = Len(stack) + 1
           /\ \A i \in 1..Len(stack) : stack'[i] = stack[i]
           /\ stack'[Len(stack) + 1].job = c
           /\ stack'[Len(stack) + 1].about = about
<1> DEFINE frame == [job |-> c, about |-> about]
<1>1. frame \in Frames /\ frame.job = c /\ frame.about = about
  BY DEF Frames
<1> HIDE DEF frame
<1>2. /\ stack' \in Seq(Frames) /\ Len(stack') = Len(stack) + 1
      /\ \A i \in 1..Len(stack) : stack'[i] = stack[i]
      /\ stack'[Len(stack) + 1] = frame
  BY <1>1, AppendProperties DEF frame
<1>3. Len(stack) \in Nat
  BY LenProperties
<1>4. QED
  BY <1>1, <1>2, <1>3 DEF Open, Dialog

LEMMA Popping ==
    ASSUME stack \in Seq(Frames), stack # <<>>,
           stack' = SubSeq(stack, 1, Len(stack) - 1),
           NEW c \in Jobs, c = Top.job
    PROVE  /\ stack' \in Seq(Frames) /\ Top \in Frames
           /\ \A d \in Jobs \ {c} :
                 /\ Open(d)' <=> Open(d)
                 /\ \A b : Dialog(d, b) => Dialog(d, b)'
           /\ \A b : Dialog(c, b) => Top.about = b /\ ~Open(c)'
           /\ Open(c)
           /\ Len(stack) \in Nat \ {0} /\ Len(stack') = Len(stack) - 1
           /\ \A i \in 1..Len(stack) - 1 : stack'[i] = stack[i]
<1>1. Len(stack) \in Nat \ {0} /\ Top \in Frames
  BY EmptySeq, ElementOfSeq, LenProperties DEF Top
<1>2. /\ stack' \in Seq(Frames) /\ Len(stack') = Len(stack) - 1
      /\ \A i \in 1..Len(stack) - 1 : stack'[i] = stack[i]
  <2>1. \A i \in 1..Len(stack) - 1 : stack[i] \in Frames
    BY <1>1, ElementOfSeq
  <2>2. QED
    <3> DEFINE n == Len(stack) - 1
               t == SubSeq(stack, 1, n)
    <3>1. n \in Nat /\ 1 \in Int /\ \A i \in 1..n : stack[i] \in Frames
      BY <1>1, <2>1
    <3> HIDE DEF n
    <3>2. /\ t \in Seq(Frames)
          /\ Len(t) = IF 1 <= n THEN n - 1 + 1 ELSE 0
          /\ \A i \in 1..n - 1 + 1 : t[i] = stack[1 + i - 1]
      BY <3>1, SubSeqProperties
    <3>3. stack' = t
      BY DEF n
    <3> HIDE DEF t
    <3>4. stack' \in Seq(Frames) /\ Len(stack') = n
      BY <3>1, <3>2, <3>3
    <3>5. \A i \in 1..n : stack'[i] = stack[i]
      BY <3>1, <3>2, <3>3
    <3>6. QED
      BY <3>4, <3>5 DEF n
<1>3. /\ \A d \in Jobs \ {c} : Open(d)' <=> Open(d)
      /\ Open(c)
  BY <1>1, <1>2 DEF Open, Top
<1>4. ASSUME NEW d \in Jobs \ {c}, NEW b, Dialog(d, b)
      PROVE  Dialog(d, b)'
  BY <1>1, <1>2, <1>4 DEF Dialog, Top
<1>5. ASSUME NEW b, Dialog(c, b)
      PROVE  Top.about = b /\ ~Open(c)'
  <2>1. /\ \A j \in 1..Len(stack) : stack[j].job = c => j = Len(stack)
        /\ Top.about = b
    BY <1>1, <1>5 DEF Dialog, Top
  <2>2. ~\E i \in 1..Len(stack') : stack'[i].job = c
    BY <1>1, <1>2, <2>1
  <2>3. QED
    BY <2>1, <2>2 DEF Open
<1>6. QED
  BY <1>1, <1>2, <1>3, <1>4, <1>5

LEMMA Untouched ==
    ASSUME UNCHANGED stack
    PROVE  \A d \in Jobs : /\ Open(d)' <=> Open(d)
                           /\ \A b : Dialog(d, b)' <=> Dialog(d, b)
  BY DEF Open, Dialog

(* What is in step stays so while others are attended to.                  *)
LEMMA Elsewhere ==
    ASSUME NEW d \in Jobs, InStep(d),
           job'[d] = job[d], file'[d] = file[d], retries'[d] = retries[d],
           up'[d] = up[d], down'[d] = down[d],
           d \in channels' => d \in channels,
           Open(d)' <=> Open(d), \A b : Dialog(d, b) => Dialog(d, b)'
    PROVE  InStep(d)'
<1>1. Asking(d)' <=> Asking(d)
  BY DEF Asking
<1>2. Routine(d)' = Routine(d)
  BY DEF Routine
<1>3. Clear(d) => Clear(d)'
  BY DEF Clear
<1>4. OnItsWay(d) => OnItsWay(d)'
  BY <1>2 DEF OnItsWay
<1>5. InDialog(d) => InDialog(d)'
  <2>1. Dialog(d, Routine(d)) => Dialog(d, Routine(d))'
    <3>1. ASSUME NEW r, r = Routine(d), Dialog(d, r)
          PROVE  Dialog(d, Routine(d))'
      <4>1. Dialog(d, r)' /\ Routine(d)' = r
        BY <1>2, <3>1
      <4>2. QED
        BY <4>1 DEF Dialog
    <3>2. QED
      BY <3>1
  <2>2. QED
    BY <2>1 DEF InDialog
<1>6. Replied(d) => Replied(d)'
  BY DEF Replied
<1>7. QED
  BY <1>1, <1>3, <1>4, <1>5, <1>6 DEF InStep

-----------------------------------------------------------------------------
(* The jobs.                                                               *)

(* A step of job c is one of its own; the parent and the others stand.     *)
LEMMA ChildLocal ==
    ASSUME TypeOK, NEW c \in Jobs, Child(c)
    PROVE  /\ UNCHANGED parent /\ pc # "dead"
           /\ \A d \in Jobs \ {c} :
                 /\ job'[d] = job[d] /\ file'[d] = file[d]
                 /\ retries'[d] = retries[d]
                 /\ up'[d] = up[d] /\ down'[d] = down[d]
<1> USE DEF TypeOK, At
<1>1. CASE ChildFile(c)
  BY <1>1 DEF ChildFile, Send
<1>2. CASE ChildAnswered(c)
  BY <1>2 DEF ChildAnswered, Proceed
<1>3. CASE ChildCopies(c)
  BY <1>3 DEF ChildCopies
<1>4. CASE ChildFails(c)
  BY <1>4 DEF ChildFails, Send
<1>5. CASE ChildErrorAnswered(c)
  BY <1>5 DEF ChildErrorAnswered, Proceed
<1>6. CASE ChildExits(c)
  BY <1>6 DEF ChildExits, Send
<1>7. QED
  BY <1>1, <1>2, <1>3, <1>4, <1>5, <1>6 DEF Child

(* A job that does not wait has nothing in the sockets, and sends one      *)
(* message.                                                                *)
LEMMA Sending ==
    ASSUME TypeOK, NEW c \in Jobs, Clear(c), NEW m \in Messages, Send(c, m)
    PROVE  /\ up' \in [Jobs -> Seq(Messages)] /\ down' \in [Jobs -> Seq(Reply)]
           /\ up'[c] = <<m>> /\ down'[c] = <<>>
  BY SendOne DEF TypeOK, Clear, Send

(* A job that reads its answer has got it, and nothing else is left.       *)
LEMMA Receiving ==
    ASSUME TypeOK, NEW c \in Jobs, Asking(c), InStep(c), down[c] # <<>>,
           down' = [down EXCEPT ![c] = Tail(@)]
    PROVE  /\ down' \in [Jobs -> Seq(Reply)] /\ down'[c] = <<>>
           /\ Head(down[c]) \in Reply /\ up[c] = <<>> /\ ~Open(c)
           /\ file[c] <= NFiles
           /\ job[c] = "error" /\ Head(down[c]).status = "retry"
              => retries[c] > 0
<1>1. Replied(c) /\ file[c] <= NFiles
  BY DEF InStep, OnItsWay, InDialog, Asking
<1>2. down[c] \in Seq(Reply)
  BY DEF TypeOK
<1>3. Head(down[c]) \in Reply /\ Tail(down[c]) = <<>>
  BY <1>1, <1>2, OnlyOne DEF Replied
<1>4. <<>> \in Seq(Reply)
  BY EmptySeq
<1>5. QED
  BY <1>1, <1>3, <1>4 DEF TypeOK, Replied

LEMMA Proceeding ==
    ASSUME TypeOK, NEW c \in Jobs, NEW status \in Status, Proceed(c, status),
           file[c] <= NFiles
    PROVE  /\ job' \in [Jobs -> JobStates]
           /\ file' \in [Jobs -> 1..(NFiles + 1)]
           /\ job'[c] \in {"open", "file", "leaving"}
           /\ job'[c] = "open" => file'[c] <= NFiles
  BY DEF TypeOK, Proceed, Status, JobStates

LEMMA ChildSteps ==
    ASSUME IInv, NEW c \in Jobs, Child(c)
    PROVE  IInv'
<1>1. pc # "dead" /\ TypeOK /\ Newest /\ \A d \in Jobs : InStep(d)
  BY ChildLocal DEF IInv
<1>2. Newest'
  BY <1>1, ChildLocal DEF Newest
<1>3. ASSUME NEW d \in Jobs \ {c}
      PROVE  InStep(d)'
  BY <1>1, ChildLocal, Untouched, Elsewhere
<1>4. Open(c)' <=> Open(c)
  BY <1>1, ChildLocal, Untouched
<1>5. TypeOK' /\ InStep(c)'
  <2> USE DEF At
  <2>1. CASE ChildFile(c)
    <3>1. Clear(c) /\ UNCHANGED <<file, channels>>
      BY <1>1, <2>1 DEF ChildFile, InStep
    <3>2. CASE Send(c, "replace") /\ job' = [job EXCEPT ![c] = "ask"]
      <4>1. up'[c] = <<"replace">> /\ down'[c] = <<>> /\ job'[c] = "ask"
        BY <1>1, <3>1, <3>2, Sending DEF Messages, TypeOK
      <4>2. TypeOK'
        BY <1>1, <2>1, <3>1, <3>2, Sending
           DEF ChildFile, TypeOK, JobStates, Messages
      <4>3. InStep(c)'
        BY <1>4, <2>1, <3>1, <4>1
           DEF ChildFile, InStep, Asking, OnItsWay, Routine, Clear
      <4>4. QED
        BY <4>2, <4>3
    <3>3. CASE job' = [job EXCEPT ![c] = "open"] /\ UNCHANGED sockets
      BY <1>1, <1>4, <2>1, <3>1, <3>3
         DEF ChildFile, TypeOK, JobStates, InStep, Asking, Clear
    <3>4. QED
      BY <2>1, <3>2, <3>3 DEF ChildFile
  <2>2. CASE ChildAnswered(c)
    <3>1. Asking(c) /\ down[c] # <<>> /\ down' = [down EXCEPT ![c] = Tail(@)]
      BY <2>2 DEF ChildAnswered, Asking
    <3>2. Proceed(c, Head(down[c]).status) /\ Head(down[c]).status \in Status
      BY <1>1, <2>2, <3>1, Receiving DEF ChildAnswered, Reply
    <3>3. append' \in [Jobs -> BOOLEAN]
      BY <1>1, <2>2, <3>1, Receiving DEF ChildAnswered, Reply, TypeOK
    <3>4. TypeOK'
      BY <1>1, <2>2, <3>1, <3>2, <3>3, Receiving, Proceeding
         DEF ChildAnswered, TypeOK
    <3>5. InStep(c)'
      BY <1>1, <1>4, <2>2, <3>1, <3>2, Receiving, Proceeding
         DEF ChildAnswered, InStep, Asking, Clear
    <3>6. QED
      BY <3>4, <3>5
  <2>3. CASE ChildCopies(c)
    <3>1. Clear(c) /\ file[c] <= NFiles
      BY <1>1, <2>3 DEF ChildCopies, InStep
    <3>2. done' \in [Jobs -> [Files -> {"none", "written", "appended"}]]
      BY <1>1, <2>3 DEF ChildCopies, TypeOK
    <3>3. file' \in [Jobs -> 1..(NFiles + 1)]
      BY <1>1, <2>3, <3>1 DEF ChildCopies, TypeOK
    <3>4. append' \in [Jobs -> BOOLEAN] /\ job' \in [Jobs -> JobStates]
      BY <1>1, <2>3 DEF ChildCopies, TypeOK, JobStates
    <3>5. TypeOK'
      BY <1>1, <2>3, <3>2, <3>3, <3>4 DEF ChildCopies, TypeOK
    <3>6. InStep(c)'
      BY <1>1, <1>4, <2>3, <3>1
         DEF ChildCopies, TypeOK, InStep, Asking, Clear
    <3>7. QED
      BY <3>5, <3>6
  <2>4. CASE ChildFails(c)
    <3>1. Clear(c) /\ file[c] <= NFiles
      BY <1>1, <2>4 DEF ChildFails, InStep
    <3>2. up'[c] = <<"error">> /\ down'[c] = <<>> /\ job'[c] = "error"
      BY <1>1, <2>4, <3>1, Sending DEF ChildFails, Messages, TypeOK
    <3>3. TypeOK'
      BY <1>1, <2>4, <3>1, Sending DEF ChildFails, TypeOK, JobStates, Messages
    <3>4. InStep(c)'
      BY <1>4, <2>4, <3>1, <3>2
         DEF ChildFails, InStep, Asking, OnItsWay, Routine, Clear
    <3>5. QED
      BY <3>3, <3>4
  <2>5. CASE ChildErrorAnswered(c)
    <3>1. /\ Asking(c) /\ down[c] # <<>> /\ job[c] = "error"
          /\ down' = [down EXCEPT ![c] = Tail(@)]
      BY <2>5 DEF ChildErrorAnswered, Asking
    <3>2. Proceed(c, Head(down[c]).status) /\ Head(down[c]).status \in Status
      BY <1>1, <2>5, <3>1, Receiving DEF ChildErrorAnswered, Reply
    <3>3. append' \in [Jobs -> BOOLEAN]
      <4> DEFINE both == /\ Head(down[c]).status = "retry"
                         /\ Head(down[c]).append
      <4>1. both \in BOOLEAN
        OBVIOUS
      <4>2. append' = [append EXCEPT ![c] = both]
        BY <2>5 DEF ChildErrorAnswered
      <4> HIDE DEF both
      <4>3. QED
        BY <1>1, <4>1, <4>2 DEF TypeOK
    <3>4. retries' \in [Jobs -> 0..Retries]
      <4>1. Head(down[c]).status = "retry" => retries[c] - 1 \in 0..Retries
        <5>1. Head(down[c]).status = "retry" => retries[c] > 0
          BY <1>1, <3>1, Receiving
        <5>2. retries[c] \in 0..Retries
          BY <1>1 DEF TypeOK
        <5>3. QED
          BY <5>1, <5>2
      <4>2. QED
        BY <1>1, <2>5, <4>1 DEF ChildErrorAnswered, TypeOK
    <3>5. TypeOK'
      BY <1>1, <2>5, <3>1, <3>2, <3>3, <3>4, Receiving, Proceeding
         DEF ChildErrorAnswered, TypeOK
    <3>6. InStep(c)'
      BY <1>1, <1>4, <2>5, <3>1, <3>2, Receiving, Proceeding
         DEF ChildErrorAnswered, InStep, Asking, Clear
    <3>7. QED
      BY <3>5, <3>6
  <2>6. CASE ChildExits(c)
    <3>1. Clear(c)
      BY <1>1, <2>6 DEF ChildExits, InStep
    <3>2. up'[c] = <<"exit">> /\ down'[c] = <<>> /\ job'[c] = "gone"
      BY <1>1, <2>6, <3>1, Sending DEF ChildExits, Messages, TypeOK
    <3>3. TypeOK'
      BY <1>1, <2>6, <3>1, Sending DEF ChildExits, TypeOK, JobStates, Messages
    <3>4. InStep(c)'
      BY <1>4, <3>1, <3>2 DEF InStep, Asking, Clear
    <3>5. QED
      BY <3>3, <3>4
  <2>7. QED
    BY <2>1, <2>2, <2>3, <2>4, <2>5, <2>6 DEF Child
<1>6. QED
  BY <1>2, <1>3, <1>5 DEF IInv

-----------------------------------------------------------------------------
(* The parent.                                                             *)

(* A message that the parent finds is the question of a job that waits, or *)
(* the good-bye of one that has left; nothing comes behind it.             *)
LEMMA Arrived ==
    ASSUME TypeOK, NEW c \in Jobs, InStep(c), job[c] # "killed", up[c] # <<>>
    PROVE  /\ down[c] = <<>> /\ ~Open(c) /\ Tail(up[c]) = <<>>
           /\ \/ Asking(c) /\ Head(up[c]) = Routine(c)
              \/ job[c] = "gone" /\ Head(up[c]) = "exit"
<1>1. CASE Asking(c)
  <2>1. OnItsWay(c)
    BY <1>1 DEF InStep, InDialog, Replied
  <2>2. QED
    BY <1>1, <2>1, SendOne DEF OnItsWay
<1>2. CASE job[c] = "gone"
  BY <1>2, SendOne DEF InStep
<1>3. CASE job[c] \in {"none", "file", "open", "leaving"}
  BY <1>3 DEF InStep, Clear
<1>4. QED
  BY <1>1, <1>2, <1>3 DEF TypeOK, JobStates, Asking

LEMMA Taking ==
    ASSUME TypeOK, NEW c \in Jobs, up[c] # <<>>, Take(c)
    PROVE  /\ up' \in [Jobs -> Seq(Messages)] /\ up'[c] = Tail(up[c])
           /\ \A d \in Jobs \ {c} : up'[d] = up[d]
  BY TailType DEF TypeOK, Take

(* A reply goes out to a job that has none yet; a killed one gets none.    *)
LEMMA Replying ==
    ASSUME TypeOK, NEW c \in Jobs, job[c] # "killed" => down[c] = <<>>,
           NEW status \in Status, do_append' \in BOOLEAN, SendReply(c, status)
    PROVE  /\ down' \in [Jobs -> Seq(Reply)]
           /\ \A d \in Jobs \ {c} : down'[d] = down[d]
           /\ job[c] = "killed" => down' = down
           /\ job[c] # "killed" =>
                 /\ down'[c] = <<[status |-> status, append |-> do_append']>>
                 /\ Len(down'[c]) = 1 /\ Head(down'[c]).status = status
                 /\ Head(down'[c]) \in Reply
<1> DEFINE r == [status |-> status, append |-> do_append']
<1>1. r \in Reply /\ r.status = status
  BY DEF Reply
<1>2. CASE job[c] = "killed"
  BY <1>2 DEF SendReply, TypeOK
<1>3. CASE job[c] # "killed"
  <2>1. down' = [down EXCEPT ![c] = <<r>>]
    BY <1>3, <1>1, SendOne DEF SendReply, TypeOK
  <2> HIDE DEF r
  <2>2. QED
    BY <1>1, <1>3, <2>1, SendOne DEF TypeOK, r
<1>4. QED
  BY <1>2, <1>3

LEMMA Opening ==
    ASSUME IInv, pc # "dead", NEW c \in Jobs,
           NEW about \in {"replace", "error", "death"}, Opens(c, about),
           \/ about = "replace" /\ replace_dlg' = [job |-> c, ret |-> "none"]
           \/ about # "replace" /\ UNCHANGED replace_dlg
    PROVE  /\ UNCHANGED <<at, select_set>>
           /\ \/ pc' = "dead" /\ UNCHANGED stack
              \/ /\ pc' = "select" /\ stack' \in Seq(Frames)
                 /\ \A d \in Jobs \ {c} :
                       /\ Open(d)' <=> Open(d)
                       /\ \A b : Dialog(d, b) => Dialog(d, b)'
                 /\ ~Open(c) => Dialog(c, about)'
                 /\ Newest'
<1>1. stack \in Seq(Frames) /\ Newest
  BY DEF IInv, TypeOK, Frames
<1>2. CASE pc' = "dead" /\ UNCHANGED stack
  BY <1>2 DEF Opens
<1>3. CASE /\ pc' = "select"
           /\ stack' = Append(stack, [job |-> c, about |-> about])
  <2>1. CASE about = "replace" /\ replace_dlg' = [job |-> c, ret |-> "none"]
    <3>1. Newest'
      BY <1>1, <1>3, <2>1, Pushing DEF Newest
    <3>2. QED
      BY <1>1, <1>3, <3>1, Pushing DEF Opens
  <2>2. CASE about # "replace" /\ UNCHANGED replace_dlg
    <3>1. Newest'
      BY <1>1, <1>3, <2>2, Pushing DEF Newest
    <3>2. QED
      BY <1>1, <1>3, <3>1, Pushing DEF Opens
  <2>3. QED
    BY <2>1, <2>2
<1>4. QED
  BY <1>2, <1>3 DEF Opens

(* The dialog on top is about a job that waits for its answer, or one that *)
(* was killed.                                                             *)
LEMMA Closing ==
    ASSUME IInv, pc # "dead", NEW kinds, Closes(kinds), NEW c, c = Top.job
    PROVE  /\ c \in Jobs /\ Top.about \in kinds
           /\ Top.about \in {"replace", "error", "death"}
           /\ pc' = "walk" /\ at' = c
           /\ UNCHANGED <<select_set, jobs, up, done>>
           /\ stack' \in Seq(Frames)
           /\ \A d \in Jobs \ {c} :
                 /\ Open(d)' <=> Open(d)
                 /\ \A b : Dialog(d, b) => Dialog(d, b)'
           /\ job[c] # "killed" =>
                 /\ Asking(c) /\ Top.about = Routine(c)
                 /\ up[c] = <<>> /\ down[c] = <<>> /\ ~Open(c)'
           /\ replace_dlg.ret = "none" /\ Top.about = "replace"
              => replace_dlg.job = c
           /\ Top.about # "replace" /\ UNCHANGED replace_dlg => Newest'
<1>1. /\ stack \in Seq(Frames) /\ stack # <<>>
      /\ stack' = SubSeq(stack, 1, Len(stack) - 1)
  BY DEF IInv, TypeOK, Frames, Closes
<1>2. c \in Jobs /\ Top \in Frames
  <2>1. Len(stack) \in 1..Len(stack)
    BY <1>1, EmptySeq
  <2>2. Top \in Frames
    BY <1>1, <2>1, ElementOfSeq DEF Top
  <2>3. QED
    BY <2>2 DEF Frames
<1>3. job[c] # "killed" => InDialog(c) /\ Asking(c)
  <2>1. Open(c) /\ InStep(c) /\ job[c] \in JobStates
    BY <1>1, <1>2, Popping DEF IInv, TypeOK
  <2>2. QED
    BY <2>1 DEF InStep, OnItsWay, Replied, Clear, JobStates, Asking
<1>4. job[c] # "killed" => Top.about = Routine(c) /\ ~Open(c)'
  BY <1>1, <1>2, <1>3, Popping DEF InDialog
<1>5. replace_dlg.ret = "none" /\ Top.about = "replace" => replace_dlg.job = c
  BY <1>1, <1>2, Popping DEF IInv, Newest, Top
<1>6. Top.about # "replace" /\ UNCHANGED replace_dlg => Newest'
  BY <1>1, <1>2, Popping DEF IInv, Newest, Top
<1>7. QED
  BY <1>1, <1>2, <1>3, <1>4, <1>5, <1>6, Popping
     DEF Closes, Attended, Frames, InDialog

LEMMA Verdicts ==
    ASSUME NEW r \in Buttons
    PROVE  Verdict(r) \subseteq Status /\ r # "none"
  BY DEF Buttons, AllTargets, Verdict, Status

LEMMA SaidType ==
    ASSUME TypeOK, NEW c \in Jobs, NEW a \in Buttons, Said(c, a)
    PROVE  said' \in [Jobs -> [Files -> Buttons \cup {"none"}]]
<1>1. said[c] \in [Files -> Buttons \cup {"none"}]
  BY DEF TypeOK
<1>2. [said[c] EXCEPT ![file[c]] = a] \in [Files -> Buttons \cup {"none"}]
  BY <1>1
<1>3. QED
  BY <1>2 DEF TypeOK, Said

(* The end of the dialog, or the answer that was given for all targets.    *)
LEMMA Replacing ==
    ASSUME TypeOK, NEW c \in Jobs, job[c] # "killed" => down[c] = <<>>,
           NEW r \in Buttons, Replaced(c, r)
    PROVE  /\ do_append' \in BOOLEAN /\ replace_result' \in Buttons
           /\ \E status \in Status : SendReply(c, status)
<1>1. (do_append \/ r \in {"append", "reget"}) \in BOOLEAN
  OBVIOUS
<1>2. do_append' \in BOOLEAN
  BY <1>1 DEF Replaced
<1>3. QED
  BY <1>2, Verdicts DEF Replaced

LEMMA AttendedType ==
    ASSUME TypeOK, NEW c \in Jobs, Attended(c)
    PROVE  /\ pc' = "walk" /\ at' \in 1..(NJobs + 1)
           /\ select_set' \subseteq Jobs \cup {0}
<1>1. c \in 1..(NJobs + 1)
  BY DEF Jobs
<1>2. QED
  BY <1>1 DEF TypeOK, Attended

(* Job c is answered.                                                      *)
LEMMA AnsweredInStep ==
    ASSUME TypeOK, NEW c \in Jobs, InStep(c), UNCHANGED jobs,
           job[c] # "killed" =>
              /\ Asking(c) /\ down[c] = <<>> /\ up'[c] = <<>> /\ ~Open(c)',
           do_append' \in BOOLEAN,
           NEW status \in Status, SendReply(c, status),
           job[c] = "error" /\ status = "retry" => retries[c] > 0
    PROVE  InStep(c)'
<1>1. CASE job[c] = "killed"
  BY <1>1 DEF InStep, Asking
<1>2. CASE job[c] # "killed"
  <2>1. Asking(c)' /\ file'[c] <= NFiles
    BY <1>2 DEF Asking, InStep
  <2>2. Replied(c)'
    BY <1>2, Replying DEF Replied
  <2>3. QED
    BY <2>1, <2>2 DEF InStep, Asking
<1>3. QED
  BY <1>1, <1>2

(* A dialog is opened about job c.                                         *)
LEMMA OpenedInStep ==
    ASSUME TypeOK, NEW c \in Jobs, InStep(c), UNCHANGED <<jobs, down>>,
           NEW about, Dialog(c, about)',
           job[c] # "killed" =>
              /\ Asking(c) /\ down[c] = <<>> /\ up'[c] = <<>>
              /\ about = Routine(c)
    PROVE  InStep(c)'
<1>1. CASE job[c] = "killed"
  BY <1>1 DEF InStep, Asking
<1>2. CASE job[c] # "killed"
  <2>1. Asking(c)' /\ file'[c] <= NFiles
    BY <1>2 DEF Asking, InStep
  <2>2. Routine(c)' = about
    BY <1>2 DEF Routine
  <2>3. InDialog(c)'
    BY <1>2, <2>2 DEF InDialog, Dialog
  <2>4. QED
    BY <2>1, <2>3 DEF InStep, Asking
<1>3. QED
  BY <1>1, <1>2

LEMMA AttendSteps ==
    ASSUME IInv, NEW c \in Jobs, background_attention(c)
    PROVE  IInv'
<1>1. pc # "dead" /\ c \in channels
  BY DEF background_attention, AttendReplace, AttendError, AttendExit,
         AttendDeath, AttendReset, Reads, Rest
<1>2. TypeOK /\ Newest /\ \A d \in Jobs : InStep(d)
  BY <1>1 DEF IInv
<1>3. CASE AttendReplace(c)
  <2>1. /\ up[c] # <<>> /\ Head(up[c]) = "replace" /\ Take(c)
        /\ UNCHANGED <<jobs, channels, done>>
    BY <1>3 DEF AttendReplace
  <2>2. job[c] # "killed" =>
           /\ Asking(c) /\ Routine(c) = "replace" /\ down[c] = <<>>
           /\ ~Open(c) /\ up'[c] = <<>>
    BY <1>2, <2>1, Arrived, Taking
  <2>3. CASE replace_result \in AllTargets
    <3>1. /\ Replaced(c, replace_result) /\ Said(c, replace_result)
          /\ Attended(c) /\ UNCHANGED <<stack, replace_dlg>>
          /\ replace_result \in Buttons
      BY <1>3, <2>3 DEF AttendReplace, Buttons
    <3>2. PICK status \in Status : SendReply(c, status)
      BY <1>2, <2>2, <3>1, Replacing
    <3>3. /\ do_append' \in BOOLEAN /\ replace_result' \in Buttons
          /\ said' \in [Jobs -> [Files -> Buttons \cup {"none"}]]
      BY <1>2, <2>2, <3>1, Replacing, SaidType
    <3>4. TypeOK'
      BY <1>2, <2>1, <2>2, <3>1, <3>2, <3>3, Taking, Replying, AttendedType
         DEF TypeOK
    <3>5. ASSUME NEW d \in Jobs \ {c}
          PROVE  InStep(d)'
      BY <1>2, <2>1, <2>2, <3>1, <3>2, <3>3, Taking, Replying, Untouched,
         Elsewhere
    <3>6. ~Open(c)' \/ job[c] = "killed"
      BY <2>2, <3>1, Untouched
    <3>7. InStep(c)'
      <4>1. job[c] = "error" => job[c] # "killed" /\ Routine(c) = "error"
        BY DEF Routine
      <4>2. QED
        BY <1>2, <2>1, <2>2, <3>2, <3>3, <3>6, <4>1, AnsweredInStep
    <3>8. Newest'
      BY <1>2, <3>1 DEF Newest
    <3>9. QED
      BY <3>4, <3>5, <3>7, <3>8 DEF IInv
  <2>4. CASE replace_result \notin AllTargets
    <3>1. /\ Opens(c, "replace") /\ replace_dlg' = [job |-> c, ret |-> "none"]
          /\ UNCHANGED <<down, do_append, replace_result, said>>
      BY <1>3, <2>4 DEF AttendReplace
    <3>2. TypeOK'
      BY <1>1, <1>2, <2>1, <3>1, Opening, Taking DEF TypeOK, Frames
    <3>3. CASE pc' = "dead"
      BY <3>2, <3>3 DEF IInv
    <3>4. CASE pc' # "dead"
      <4>1. ASSUME NEW d \in Jobs \ {c}
            PROVE  InStep(d)'
        BY <1>1, <1>2, <2>1, <3>1, <3>4, Opening, Taking, Elsewhere
      <4>2. job[c] # "killed" => Dialog(c, "replace")'
        BY <1>1, <2>2, <3>1, <3>4, Opening
      <4>3. InStep(c)'
        <5>1. CASE job[c] = "killed"
          BY <2>1, <5>1 DEF InStep, Asking
        <5>2. CASE job[c] # "killed"
          BY <1>2, <2>1, <2>2, <3>1, <4>2, <5>2, OpenedInStep
        <5>3. QED
          BY <5>1, <5>2
      <4>4. QED
        BY <1>1, <3>1, <3>2, <3>4, <4>1, <4>3, Opening DEF IInv
    <3>5. QED
      BY <3>3, <3>4
  <2>5. QED
    BY <2>3, <2>4
<1>4. CASE AttendError(c)
  <2>1. /\ up[c] # <<>> /\ Head(up[c]) = "error" /\ Take(c)
        /\ Opens(c, "error")
        /\ UNCHANGED <<jobs, down, channels, globals, history>>
    BY <1>4 DEF AttendError
  <2>2. job[c] # "killed" =>
           /\ Asking(c) /\ Routine(c) = "error" /\ down[c] = <<>>
           /\ ~Open(c) /\ up'[c] = <<>>
    BY <1>2, <2>1, Arrived, Taking
  <2>3. TypeOK'
    BY <1>1, <1>2, <2>1, Opening, Taking DEF TypeOK, Frames
  <2>4. CASE pc' = "dead"
    BY <2>3, <2>4 DEF IInv
  <2>5. CASE pc' # "dead"
    <3>1. ASSUME NEW d \in Jobs \ {c}
          PROVE  InStep(d)'
      BY <1>1, <1>2, <2>1, <2>5, Opening, Taking, Elsewhere
    <3>2. job[c] # "killed" => Dialog(c, "error")'
      BY <1>1, <2>1, <2>2, <2>5, Opening
    <3>3. InStep(c)'
      <4>1. CASE job[c] = "killed"
        BY <2>1, <4>1 DEF InStep, Asking
      <4>2. CASE job[c] # "killed"
        BY <1>2, <2>1, <2>2, <3>2, <4>2, OpenedInStep
      <4>3. QED
        BY <4>1, <4>2
    <3>4. QED
      BY <1>1, <2>1, <2>3, <2>5, <3>1, <3>3, Opening DEF IInv
  <2>6. QED
    BY <2>4, <2>5
<1>5. CASE AttendExit(c)
  <2>1. /\ up[c] # <<>> /\ Head(up[c]) = "exit" /\ Take(c) /\ Attended(c)
        /\ channels' = channels \ {c}
        /\ UNCHANGED <<jobs, down, stack, globals, history>>
    BY <1>5 DEF AttendExit
  <2>2. job[c] # "killed" => job[c] = "gone" /\ up'[c] = <<>>
    <3>1. Routine(c) # "exit"
      BY DEF Routine
    <3>2. QED
      BY <1>2, <2>1, <3>1, Arrived, Taking
  <2>3. TypeOK'
    BY <1>2, <2>1, Taking, AttendedType DEF TypeOK
  <2>4. ASSUME NEW d \in Jobs \ {c}
        PROVE  InStep(d)'
    BY <1>2, <2>1, Taking, Untouched, Elsewhere
  <2>5. InStep(c)'
    <3>1. Open(c)' <=> Open(c)
      BY <2>1, Untouched
    <3>2. QED
      BY <1>2, <2>1, <2>2, <3>1 DEF InStep, Asking
  <2>6. Newest'
    BY <1>2, <2>1 DEF Newest
  <2>7. QED
    BY <2>3, <2>4, <2>5, <2>6 DEF IInv
<1>6. CASE AttendDeath(c)
  <2>1. /\ Opens(c, "death") /\ up[c] = <<>> /\ job[c] \in {"gone", "killed"}
        /\ UNCHANGED <<jobs, sockets, channels, globals, history>>
    BY <1>6 DEF AttendDeath
  <2>2. job[c] = "killed"
    BY <1>1, <1>2, <2>1 DEF InStep
  <2>3. TypeOK'
    BY <1>1, <1>2, <2>1, Opening DEF TypeOK, Frames
  <2>4. CASE pc' = "dead"
    BY <2>3, <2>4 DEF IInv
  <2>5. CASE pc' # "dead"
    <3>1. ASSUME NEW d \in Jobs \ {c}
          PROVE  InStep(d)'
      BY <1>1, <1>2, <2>1, <2>5, Opening, Elsewhere
    <3>2. InStep(c)'
      BY <2>1, <2>2 DEF InStep, Asking
    <3>3. QED
      BY <1>1, <2>1, <2>3, <2>5, <3>1, <3>2, Opening DEF IInv
  <2>6. QED
    BY <2>4, <2>5
<1>7. CASE AttendReset(c)
  BY <1>2, <1>7 DEF AttendReset, TypeOK, IInv
<1>8. QED
  BY <1>3, <1>4, <1>5, <1>6, <1>7 DEF background_attention

LEMMA AnswerSteps ==
    ASSUME IInv, AnswerReplace \/ AnswerMessage
    PROVE  IInv'
<1>1. pc # "dead"
  BY DEF AnswerReplace, AnswerMessage, Closes
<1>2. TypeOK /\ Newest /\ \A d \in Jobs : InStep(d)
  BY <1>1 DEF IInv
<1>3. PICK c : c = Top.job
  OBVIOUS
<1>4. CASE AnswerReplace
  <2>1. Closes({"replace"}) /\ UNCHANGED channels
    BY <1>4 DEF AnswerReplace
  <2>2. PICK a \in Answers :
           /\ Said(c, a)
           /\ \E r \in IF replace_dlg.job = c THEN {a}
                                             ELSE {replace_dlg.ret, "abort"} :
                /\ Replaced(c, r)
                /\ replace_dlg' = IF replace_dlg.job = c
                                  THEN [replace_dlg EXCEPT !.ret = r]
                                  ELSE replace_dlg
    BY <1>4, <1>3 DEF AnswerReplace
  <2>3. PICK r \in IF replace_dlg.job = c THEN {a}
                                         ELSE {replace_dlg.ret, "abort"} :
           /\ Said(c, a) /\ Replaced(c, r)
           /\ replace_dlg' = IF replace_dlg.job = c
                             THEN [replace_dlg EXCEPT !.ret = r]
                             ELSE replace_dlg
    BY <2>2
  <2>4. /\ c \in Jobs /\ Top.about = "replace"
        /\ UNCHANGED <<select_set, jobs, up, done>>
        /\ stack' \in Seq(Frames)
        /\ job[c] # "killed" =>
              /\ Asking(c) /\ Routine(c) = "replace"
              /\ up[c] = <<>> /\ down[c] = <<>> /\ ~Open(c)'
        /\ replace_dlg.ret = "none" => replace_dlg.job = c
    BY <1>1, <1>3, <2>1, Closing
  <2>5. ASSUME NEW d \in Jobs \ {c}
        PROVE  /\ Open(d)' <=> Open(d)
               /\ \A b : Dialog(d, b) => Dialog(d, b)'
    BY <1>1, <1>3, <2>1, Closing
  <2>6. a \in Buttons /\ r \in Buttons
    <3>1. /\ replace_dlg.job # c => replace_dlg.ret \in Buttons
          /\ "abort" \in Buttons
      BY <1>2, <2>4 DEF TypeOK, Buttons, AllTargets
    <3>2. QED
      BY <2>3, <3>1
  <2>7. /\ do_append' \in BOOLEAN /\ replace_result' \in Buttons
        /\ said' \in [Jobs -> [Files -> Buttons \cup {"none"}]]
    BY <1>2, <2>3, <2>4, <2>6, Replacing, SaidType
  <2>8. PICK status \in Status : SendReply(c, status)
    BY <1>2, <2>3, <2>4, <2>6, Replacing
  <2>9. /\ replace_dlg' \in [job : Jobs \cup {0}, ret : Buttons \cup {"none"}]
        /\ replace_dlg'.ret # "none"
    <3>1. r # "none" /\ (replace_dlg.job # c => replace_dlg.ret # "none")
      BY <2>4, <2>6, Verdicts
    <3>2. QED
      BY <1>2, <2>3, <2>6, <3>1 DEF TypeOK
  <2>10. Attended(c)
    BY <1>3, <2>1 DEF Closes
  <2>11. TypeOK'
    BY <1>2, <2>1, <2>4, <2>7, <2>8, <2>9, <2>10, Replying, AttendedType
       DEF TypeOK, Frames
  <2>12. ASSUME NEW d \in Jobs \ {c}
         PROVE  InStep(d)'
    BY <1>2, <2>1, <2>4, <2>5, <2>7, <2>8, Replying, Elsewhere
  <2>13. InStep(c)'
    <3>1. job[c] = "error" => job[c] # "killed" /\ Routine(c) = "error"
      BY DEF Routine
    <3>2. QED
      BY <1>2, <2>4, <2>7, <2>8, <3>1, AnsweredInStep
  <2>14. Newest'
    BY <2>9 DEF Newest
  <2>15. QED
    BY <2>11, <2>12, <2>13, <2>14 DEF IInv
<1>5. CASE AnswerMessage
  <2>1. Closes({"error", "death"}) /\ UNCHANGED <<globals, said>>
    BY <1>5 DEF AnswerMessage
  <2>2. \/ Top.about = "error" /\ ErrorReply(c) /\ UNCHANGED channels
        \/ /\ Top.about # "error"
           /\ channels' = channels \ {c} /\ UNCHANGED down
    BY <1>5, <1>3 DEF AnswerMessage
  <2>3. /\ c \in Jobs /\ Top.about \in {"error", "death"}
        /\ UNCHANGED <<select_set, jobs, up, done>>
        /\ stack' \in Seq(Frames)
        /\ job[c] # "killed" =>
              /\ Asking(c) /\ Routine(c) = Top.about
              /\ up[c] = <<>> /\ down[c] = <<>> /\ ~Open(c)'
        /\ Newest'
    BY <1>1, <1>3, <2>1, Closing
  <2>4. ASSUME NEW d \in Jobs \ {c}
        PROVE  /\ Open(d)' <=> Open(d)
               /\ \A b : Dialog(d, b) => Dialog(d, b)'
    BY <1>1, <1>3, <2>1, Closing
  <2>5. Attended(c) /\ do_append' \in BOOLEAN
    BY <1>2, <1>3, <2>1 DEF Closes, TypeOK
  <2>6. CASE Top.about = "error" /\ ErrorReply(c) /\ UNCHANGED channels
    <3>1. PICK status \in Status :
             /\ SendReply(c, status)
             /\ status = "retry" => retries[c] > 0
      BY <2>6 DEF ErrorReply, Status
    <3>2. TypeOK'
      BY <1>2, <2>1, <2>3, <2>5, <2>6, <3>1, Replying, AttendedType
         DEF TypeOK, Frames
    <3>3. ASSUME NEW d \in Jobs \ {c}
          PROVE  InStep(d)'
      BY <1>2, <2>3, <2>4, <2>5, <2>6, <3>1, Replying, Elsewhere
    <3>4. InStep(c)'
      BY <1>2, <2>3, <2>5, <3>1, AnsweredInStep
    <3>5. QED
      BY <2>3, <3>2, <3>3, <3>4 DEF IInv
  <2>7. CASE /\ Top.about # "error"
             /\ channels' = channels \ {c} /\ UNCHANGED down
    <3>1. job[c] = "killed"
      BY <2>3, <2>7 DEF Routine
    <3>2. TypeOK'
      BY <1>2, <2>1, <2>3, <2>5, <2>7, AttendedType DEF TypeOK, Frames
    <3>3. ASSUME NEW d \in Jobs \ {c}
          PROVE  InStep(d)'
      BY <1>2, <2>3, <2>4, <2>7, Elsewhere
    <3>4. InStep(c)'
      BY <2>3, <3>1 DEF InStep, Asking
    <3>5. QED
      BY <2>3, <3>2, <3>3, <3>4 DEF IInv
  <2>8. QED
    BY <2>2, <2>6, <2>7
<1>6. QED
  BY <1>4, <1>5

(* The loop itself, and the commands that have to do with jobs.            *)
LEMMA LoopSteps ==
    ASSUME IInv, Select \/ WalkEnds \/ OtherKey
    PROVE  IInv'
<1>1. /\ pc # "dead" /\ pc' \in {"select", "walk", "key"}
      /\ UNCHANGED <<jobs, sockets, channels, stack, globals, history>>
  BY DEF Select, WalkEnds, OtherKey
<1>2. TypeOK /\ Newest /\ \A d \in Jobs : InStep(d)
  BY <1>1 DEF IInv
<1>3. at' \in 1..(NJobs + 1) /\ select_set' \subseteq Jobs \cup {0}
  <2>1. NJobs + 1 \in 1..(NJobs + 1)
    OBVIOUS
  <2>2. QED
    BY <1>2, <2>1 DEF TypeOK, Select, WalkEnds, OtherKey
<1>4. TypeOK'
  BY <1>1, <1>2, <1>3 DEF TypeOK
<1>5. Newest'
  BY <1>1, <1>2 DEF Newest
<1>6. ASSUME NEW d \in Jobs
      PROVE  InStep(d)'
  BY <1>1, <1>2, Untouched, Elsewhere
<1>7. QED
  BY <1>4, <1>5, <1>6 DEF IInv

LEMMA JobCommands ==
    ASSUME IInv, NEW c \in Jobs, StartJob(c) \/ Kill(c)
    PROVE  IInv'
<1>1. /\ pc # "dead" /\ pc' = "select"
      /\ UNCHANGED <<file, retries, sockets, stack, replace_dlg>>
      /\ \A d \in Jobs \ {c} :
            job'[d] = job[d] /\ (d \in channels' => d \in channels)
  BY DEF StartJob, Kill, IInv, TypeOK
<1>2. TypeOK /\ Newest /\ \A d \in Jobs : InStep(d)
  BY <1>1 DEF IInv
<1>3. ASSUME NEW d \in Jobs \ {c}
      PROVE  InStep(d)'
  BY <1>1, <1>2, <1>3, Untouched, Elsewhere
<1>4. Newest'
  BY <1>1, <1>2 DEF Newest
<1>5. Open(c)' <=> Open(c)
  BY <1>1, Untouched
<1>6. CASE StartJob(c)
  <2>1. Clear(c) /\ job'[c] = "file" /\ UNCHANGED sockets
    BY <1>2, <1>6 DEF StartJob, InStep, TypeOK
  <2>2. TypeOK'
    BY <1>2, <1>6 DEF StartJob, TypeOK, JobStates
  <2>3. InStep(c)'
    BY <1>5, <2>1 DEF InStep, Asking, Clear
  <2>4. QED
    BY <1>3, <1>4, <2>2, <2>3 DEF IInv
<1>7. CASE Kill(c)
  <2>1. TypeOK' /\ job'[c] = "killed"
    BY <1>2, <1>7 DEF Kill, TypeOK, JobStates
  <2>2. InStep(c)'
    BY <2>1 DEF InStep, Asking
  <2>3. QED
    BY <1>3, <1>4, <2>1, <2>2 DEF IInv
<1>8. QED
  BY <1>6, <1>7

-----------------------------------------------------------------------------
(* The theorems.                                                           *)

LEMMA InitHolds == Init => IInv
<1> SUFFICES ASSUME Init PROVE IInv
  OBVIOUS
<1>1. /\ \A S : <<>> \in Seq(S) /\ Len(<<>>) = 0
      /\ NJobs + 1 \in 1..(NJobs + 1) /\ 1 \in 1..(NFiles + 1)
  BY EmptySeq
<1>2. TypeOK
  <2>1. 1 \in 1..(NFiles + 1) /\ NJobs + 1 \in 1..(NJobs + 1)
        /\ Retries \in 0..Retries /\ 0 \in Jobs \cup {0}
    OBVIOUS
  <2>2. /\ job \in [Jobs -> JobStates] /\ file \in [Jobs -> 1..(NFiles + 1)]
        /\ exists \in [Jobs -> [Files -> BOOLEAN]]
        /\ append \in [Jobs -> BOOLEAN] /\ retries \in [Jobs -> 0..Retries]
    BY <2>1 DEF Init, JobStates
  <2>3. /\ up \in [Jobs -> Seq(Messages)] /\ down \in [Jobs -> Seq(Reply)]
        /\ stack \in Seq(Frames)
    BY <1>1 DEF Init
  <2>4. /\ said \in [Jobs -> [Files -> Buttons \cup {"none"}]]
        /\ done \in [Jobs -> [Files -> {"none", "written", "appended"}]]
    BY DEF Init
  <2>5. QED
    BY <2>1, <2>2, <2>3, <2>4 DEF Init, TypeOK, Frames
<1>3. Newest
  BY <1>1 DEF Init, Newest
<1>4. ASSUME NEW c \in Jobs
      PROVE  InStep(c)
  BY <1>1, <1>4 DEF Init, InStep, Asking, Clear, Open
<1>5. QED
  BY <1>2, <1>3, <1>4 DEF IInv

LEMMA StutterKeeps ==
    ASSUME IInv, UNCHANGED vars
    PROVE  IInv'
<1>1. TypeOK'
  BY DEF IInv, TypeOK
<1>2. CASE pc = "dead"
  BY <1>1, <1>2 DEF IInv
<1>3. CASE pc # "dead"
  <2>1. Newest'
    BY <1>3 DEF IInv, Newest
  <2>2. \A d \in Jobs : InStep(d)'
    BY <1>3, Untouched, Elsewhere DEF IInv
  <2>3. QED
    BY <1>1, <2>1, <2>2 DEF IInv
<1>4. QED
  BY <1>2, <1>3

LEMMA Invariance == Spec => []IInv
<1>1. IInv /\ [Next]_vars => IInv'
  <2> SUFFICES ASSUME IInv, [Next]_vars PROVE IInv'
    OBVIOUS
  <2>1. CASE \E c \in Jobs : Child(c)
    BY <2>1, ChildSteps
  <2>2. CASE \E c \in Jobs : background_attention(c)
    BY <2>2, AttendSteps
  <2>3. CASE \E c \in Jobs : StartJob(c) \/ Kill(c)
    BY <2>3, JobCommands
  <2>4. QED
    BY <2>1, <2>2, <2>3, AnswerSteps, LoopSteps, StutterKeeps
       DEF Next, Dead, Session, Parent
<1>2. QED
  BY <1>1, InitHolds, PTL DEF Spec

(* Every variable keeps its type, and each question of a job is in one     *)
(* place: on its way, in one dialog, or answered (background.c, key.c).    *)
THEOREM QuestionsInOnePlace == Spec => []Consistent
<1>1. ASSUME IInv PROVE Consistent
  <2>1. ASSUME pc # "dead", NEW c \in Jobs, Alive(c)
        PROVE  Len(up[c]) + Cardinality(Dialogs(c)) + Len(down[c])
                  = IF Asking(c) THEN 1 ELSE 0
    <3>1. InStep(c) /\ job[c] \in JobStates
      BY <1>1, <2>1 DEF IInv, TypeOK
    <3>2. ~Open(c) => Cardinality(Dialogs(c)) = 0
      <4>1. ~Open(c) => Dialogs(c) = {}
        BY DEF Open, Dialogs
      <4>2. QED
        BY <4>1, FS_EmptySet
    <3>3. ASSUME NEW b, Dialog(c, b) PROVE Cardinality(Dialogs(c)) = 1
      <4>1. PICK i \in 1..Len(stack) : Dialogs(c) = {i}
        BY <3>3 DEF Dialog, Dialogs
      <4>2. QED
        BY <4>1, FS_Singleton
    <3>4. /\ Len(<<>>) = 0
          /\ \A m : Len(<<m>>) = 1
      BY EmptySeq
    <3>5. CASE Asking(c)
      <4>1. CASE OnItsWay(c)
        BY <3>2, <3>4, <3>5, <4>1 DEF OnItsWay
      <4>2. CASE InDialog(c)
        BY <3>3, <3>4, <3>5, <4>2 DEF InDialog
      <4>3. CASE Replied(c)
        BY <3>2, <3>4, <3>5, <4>3 DEF Replied
      <4>4. QED
        BY <3>1, <3>5, <4>1, <4>2, <4>3 DEF InStep
    <3>6. CASE ~Asking(c)
      <4>1. Clear(c)
        BY <2>1, <3>1, <3>6 DEF InStep, Asking, Alive, JobStates
      <4>2. QED
        BY <3>2, <3>4, <3>6, <4>1 DEF Clear
    <3>7. QED
      BY <3>5, <3>6
  <2>2. QED
    BY <1>1, <2>1 DEF IInv, Consistent, Exchange
<1>2. QED
  BY <1>1, Invariance, PTL


-----------------------------------------------------------------------------
(* The refinement.                                                         *)

(* The call that a job makes, for each place it is at; before and after    *)
(* a step.                                                                 *)
LEMMA CallOf ==
    ASSUME NEW c \in Jobs
    PROVE  /\ job[c] \in {"gone", "killed"} => call[c] = Calls!Over
           /\ Asking(c) /\ down[c] = <<>> => call[c] = Calls!Asked(job[c])
           /\ Asking(c) /\ down[c] # <<>>
              => call[c] = Calls!Answered(Head(down[c]))
           /\ job[c] \in {"none", "file", "open", "leaving"}
              => call[c] = Calls!Idle
  BY DEF call, Asking, Calls!Over, Calls!Asked, Calls!Answered, Calls!Idle

LEMMA CallAfter ==
    ASSUME NEW c \in Jobs
    PROVE  /\ job'[c] \in {"gone", "killed"} => call'[c] = Calls!Over
           /\ Asking(c)' /\ down'[c] = <<>>
              => call'[c] = Calls!Asked(job'[c])
           /\ Asking(c)' /\ down'[c] # <<>>
              => call'[c] = Calls!Answered(Head(down'[c]))
           /\ job'[c] \in {"none", "file", "open", "leaving"}
              => call'[c] = Calls!Idle
  BY DEF call, Asking, Calls!Over, Calls!Asked, Calls!Answered, Calls!Idle

LEMMA CallsElsewhere ==
    ASSUME NEW c \in Jobs,
           \A d \in Jobs \ {c} : job'[d] = job[d] /\ down'[d] = down[d]
    PROVE  /\ call' = [call EXCEPT ![c] = call'[c]]
           /\ call'[c] = call[c] => call' = call
<1>1. \A d \in Jobs \ {c} : call'[d] = call[d]
  BY DEF call, Asking
<1>2. call = [d \in Jobs |-> call[d]] /\ call' = [d \in Jobs |-> call'[d]]
  BY DEF call
<1>3. QED
  BY <1>1, <1>2

LEMMA CallsStand ==
    ASSUME UNCHANGED <<job, down>>
    PROVE  call' = call
  BY DEF call, Asking

LEMMA ChildCalls ==
    ASSUME IInv, NEW c \in Jobs, Child(c)
    PROVE  \/ \E q \in {"ask", "error"} : Calls!Ask(c, q)
           \/ Calls!GoOn(c) \/ Calls!Leave(c) \/ UNCHANGED call
<1>1. pc # "dead" /\ TypeOK /\ InStep(c)
  BY ChildLocal DEF IInv
<1>2. /\ call' = [call EXCEPT ![c] = call'[c]]
      /\ call'[c] = call[c] => call' = call
  BY <1>1, ChildLocal, CallsElsewhere
<1> USE DEF At
<1>3. CASE ChildFile(c)
  <2>1. call[c] = Calls!Idle /\ down[c] = <<>>
    BY <1>1, <1>3, CallOf DEF ChildFile, InStep, Clear
  <2>2. CASE exists[c][file[c]]
    <3>1. job'[c] = "ask" /\ down'[c] = <<>>
      BY <1>1, <1>3, <2>1, <2>2 DEF ChildFile, Send, TypeOK
    <3>2. call'[c] = Calls!Asked("ask")
      BY <3>1, CallAfter DEF Asking
    <3>3. QED
      BY <1>2, <2>1, <3>2 DEF Calls!Ask
  <2>3. CASE ~exists[c][file[c]]
    <3>1. job'[c] = "open"
      BY <1>1, <1>3, <2>3 DEF ChildFile, TypeOK
    <3>2. QED
      BY <1>2, <2>1, <3>1, CallAfter
  <2>4. QED
    BY <2>2, <2>3
<1>4. CASE ChildAnswered(c)
  <2>1. /\ Asking(c) /\ Head(down[c]) \in Reply /\ file[c] <= NFiles
        /\ call[c] = Calls!Answered(Head(down[c]))
    BY <1>1, <1>4, Receiving, CallOf DEF ChildAnswered, Asking
  <2>2. job'[c] \in {"open", "file", "leaving"}
    BY <1>1, <1>4, <2>1, Proceeding DEF ChildAnswered, Reply
  <2>3. QED
    BY <1>2, <2>1, <2>2, CallAfter DEF Calls!GoOn
<1>5. CASE ChildCopies(c)
  <2>1. job[c] = "open" /\ job'[c] = "file"
    BY <1>1, <1>5 DEF ChildCopies, TypeOK
  <2>2. QED
    BY <1>2, <2>1, CallOf, CallAfter
<1>6. CASE ChildFails(c)
  <2>1. call[c] = Calls!Idle /\ down[c] = <<>>
    BY <1>1, <1>6, CallOf DEF ChildFails, InStep, Clear
  <2>2. job'[c] = "error" /\ down'[c] = <<>>
    BY <1>1, <1>6, <2>1 DEF ChildFails, Send, TypeOK
  <2>3. call'[c] = Calls!Asked("error")
    BY <2>2, CallAfter DEF Asking
  <2>4. QED
    BY <1>2, <2>1, <2>3 DEF Calls!Ask
<1>7. CASE ChildErrorAnswered(c)
  <2>1. /\ Asking(c) /\ Head(down[c]) \in Reply /\ file[c] <= NFiles
        /\ call[c] = Calls!Answered(Head(down[c]))
    BY <1>1, <1>7, Receiving, CallOf DEF ChildErrorAnswered, Asking
  <2>2. job'[c] \in {"open", "file", "leaving"}
    BY <1>1, <1>7, <2>1, Proceeding DEF ChildErrorAnswered, Reply
  <2>3. QED
    BY <1>2, <2>1, <2>2, CallAfter DEF Calls!GoOn
<1>8. CASE ChildExits(c)
  <2>1. call[c] = Calls!Idle
    BY <1>8, CallOf DEF ChildExits
  <2>2. job'[c] = "gone"
    BY <1>1, <1>8 DEF ChildExits, TypeOK
  <2>3. QED
    BY <1>2, <2>1, <2>2, CallAfter DEF Calls!Leave, Calls!Idle, Calls!Over
<1>9. QED
  BY <1>3, <1>4, <1>5, <1>6, <1>7, <1>8 DEF Child

(* The parent replies to a job that waits, or to one that was killed.      *)
LEMMA ReplyCalls ==
    ASSUME TypeOK, NEW c \in Jobs, UNCHANGED jobs,
           job[c] # "killed" => Asking(c) /\ down[c] = <<>>,
           do_append' \in BOOLEAN,
           NEW status \in Status, SendReply(c, status)
    PROVE  \/ \E r \in Reply : Calls!Answer(c, r)
           \/ UNCHANGED call
<1>1. CASE job[c] = "killed"
  BY <1>1, Replying, CallsStand
<1>2. CASE job[c] # "killed"
  <2>1. /\ down'[c] # <<>> /\ Head(down'[c]) \in Reply
        /\ call' = [call EXCEPT ![c] = call'[c]]
    <3>1. /\ Len(down'[c]) = 1 /\ Head(down'[c]) \in Reply
          /\ \A d \in Jobs \ {c} : job'[d] = job[d] /\ down'[d] = down[d]
      BY <1>2, Replying
    <3>2. Len(<<>>) = 0
      BY EmptySeq
    <3>3. QED
      BY <3>1, <3>2, CallsElsewhere
  <2>2. call'[c] = Calls!Answered(Head(down'[c]))
    BY <1>2, <2>1, CallAfter DEF Asking
  <2>3. job[c] \in {"ask", "error"} /\ call[c] = Calls!Asked(job[c])
    BY <1>2, CallOf DEF Asking
  <2>4. QED
    BY <2>1, <2>2, <2>3 DEF Calls!Answer
<1>3. QED
  BY <1>1, <1>2

LEMMA ParentCalls ==
    ASSUME IInv, Parent
    PROVE  \/ \E c \in Jobs, r \in Reply : Calls!Answer(c, r)
           \/ UNCHANGED call
<1>1. CASE Select \/ WalkEnds \/ OtherKey
  BY <1>1, CallsStand DEF Select, WalkEnds, OtherKey
<1>2. CASE \E c \in Jobs : background_attention(c)
  <2>1. PICK c \in Jobs : background_attention(c)
    BY <1>2
  <2>2. pc # "dead"
    BY <2>1 DEF background_attention, AttendReplace, AttendError, AttendExit,
                AttendDeath, AttendReset, Reads
  <2>3. TypeOK /\ InStep(c)
    BY <2>2 DEF IInv
  <2>4. CASE AttendReplace(c) /\ replace_result \in AllTargets
    <3>1. /\ up[c] # <<>> /\ Head(up[c]) = "replace" /\ UNCHANGED jobs
          /\ Replaced(c, replace_result) /\ replace_result \in Buttons
      BY <2>4 DEF AttendReplace, Buttons
    <3>2. job[c] # "killed" => Asking(c) /\ down[c] = <<>>
      BY <2>3, <3>1, Arrived
    <3>3. /\ do_append' \in BOOLEAN
          /\ \E status \in Status : SendReply(c, status)
      BY <2>3, <3>1, <3>2, Replacing
    <3>4. QED
      BY <2>3, <3>1, <3>2, <3>3, ReplyCalls
  <2>5. CASE ~(AttendReplace(c) /\ replace_result \in AllTargets)
    <3>1. UNCHANGED <<job, down>>
      BY <2>1, <2>5 DEF background_attention, AttendReplace, AttendError,
                        AttendExit, AttendDeath, AttendReset
    <3>2. QED
      BY <3>1, CallsStand
  <2>6. QED
    BY <2>4, <2>5
<1>3. CASE AnswerReplace \/ AnswerMessage
  <2>1. PICK c : c = Top.job
    OBVIOUS
  <2>2. PICK kinds \in {{"replace"}, {"error", "death"}} : Closes(kinds)
    BY <1>3 DEF AnswerReplace, AnswerMessage
  <2>3. pc # "dead" /\ TypeOK
    BY <2>2 DEF Closes, IInv
  <2>4. /\ c \in Jobs /\ UNCHANGED jobs
        /\ job[c] # "killed" => Asking(c) /\ down[c] = <<>>
        /\ replace_dlg.ret = "none" /\ Top.about = "replace"
           => replace_dlg.job = c
    BY <2>1, <2>2, <2>3, Closing
  <2>5. CASE AnswerReplace
    <3>1. Top.about = "replace"
      BY <2>5 DEF AnswerReplace, Closes
    <3>2. PICK r \in Answers \cup {replace_dlg.ret, "abort"} :
             /\ Replaced(c, r)
             /\ r = replace_dlg.ret /\ r \notin Answers
                => replace_dlg.job # c
      BY <2>1, <2>5 DEF AnswerReplace
    <3>3. r \in Buttons
      BY <2>3, <2>4, <3>1, <3>2 DEF TypeOK, Buttons, AllTargets
    <3>4. /\ do_append' \in BOOLEAN
          /\ \E status \in Status : SendReply(c, status)
      BY <2>3, <2>4, <3>2, <3>3, Replacing
    <3>5. QED
      BY <2>3, <2>4, <3>4, ReplyCalls
  <2>6. CASE AnswerMessage
    <3>1. do_append' \in BOOLEAN
      BY <2>3, <2>6 DEF AnswerMessage, TypeOK
    <3>2. CASE Top.about = "error"
      <4>1. PICK status \in Status : SendReply(c, status)
        BY <2>1, <2>6, <3>2 DEF AnswerMessage, ErrorReply, Status
      <4>2. QED
        BY <2>3, <2>4, <3>1, <4>1, ReplyCalls
    <3>3. CASE Top.about # "error"
      BY <2>4, <2>6, <3>3, CallsStand DEF AnswerMessage
    <3>4. QED
      BY <3>2, <3>3
  <2>7. QED
    BY <1>3, <2>5, <2>6
<1>4. QED
  BY <1>1, <1>2, <1>3 DEF Parent

LEMMA CommandCalls ==
    ASSUME IInv, NEW c \in Jobs, StartJob(c) \/ Kill(c)
    PROVE  Calls!Leave(c) \/ UNCHANGED call
<1>1. /\ TypeOK
      /\ \A d \in Jobs \ {c} : job'[d] = job[d] /\ down'[d] = down[d]
  BY DEF IInv, TypeOK, StartJob, Kill
<1>2. /\ call' = [call EXCEPT ![c] = call'[c]]
      /\ call'[c] = call[c] => call' = call
  BY <1>1, CallsElsewhere
<1>3. CASE StartJob(c)
  <2>1. job[c] = "none" /\ job'[c] = "file"
    BY <1>1, <1>3 DEF StartJob, TypeOK
  <2>2. QED
    BY <1>2, <2>1, CallOf, CallAfter
<1>4. CASE Kill(c)
  <2>1. job'[c] = "killed" /\ job[c] \notin {"gone", "killed"}
    BY <1>1, <1>4 DEF Kill, TypeOK
  <2>2. call'[c] = Calls!Over
    BY <2>1, CallAfter
  <2>3. call[c] # Calls!Over
    <3>1. /\ Calls!Idle.state = "idle" /\ Calls!Over.state = "over"
          /\ \A q : Calls!Asked(q).state = "asked"
          /\ \A r : Calls!Answered(r).state = "answered"
      BY DEF Calls!Idle, Calls!Over, Calls!Asked, Calls!Answered
    <3>2. \/ Asking(c) /\ down[c] = <<>>
          \/ Asking(c) /\ down[c] # <<>>
          \/ job[c] \in {"none", "file", "open", "leaving"}
      BY <1>1, <2>1 DEF TypeOK, JobStates, Asking
    <3>3. call[c] # Calls!Over
      <4>1. CASE Asking(c) /\ down[c] = <<>>
        <5>1. call[c] = Calls!Asked(job[c])
          BY <4>1, CallOf
        <5>2. QED
          BY <3>1, <5>1
      <4>2. CASE Asking(c) /\ down[c] # <<>>
        <5>1. call[c] = Calls!Answered(Head(down[c]))
          BY <4>2, CallOf
        <5>2. QED
          BY <3>1, <5>1
      <4>3. CASE job[c] \in {"none", "file", "open", "leaving"}
        <5>1. call[c] = Calls!Idle
          BY <4>3, CallOf
        <5>2. QED
          BY <3>1, <5>1
      <4>4. QED
        BY <3>2, <4>1, <4>2, <4>3
    <3>4. QED
      BY <3>3
  <2>4. QED
    BY <1>2, <2>2, <2>3 DEF Calls!Leave
<1>5. QED
  BY <1>3, <1>4

(* Background implements BackgroundCalls: to a job, parent_call of         *)
(* background.c is a procedure call, whatever else the parent attends to   *)
(* in between, and whichever jobs are killed.                              *)
THEOREM CallsAreProcedureCalls == Spec => CallsAnsweredOnce
<1>1. Init => Calls!Init
  BY DEF Init, Calls!Init, Calls!Idle, call, Asking
<1>2. IInv /\ [Next]_vars => [Calls!Next]_call
  <2> SUFFICES ASSUME IInv, [Next]_vars
               PROVE  Calls!Next \/ UNCHANGED call
    OBVIOUS
  <2>1. CASE \E c \in Jobs : Child(c)
    BY <2>1, ChildCalls DEF Calls!Next
  <2>2. CASE Parent
    BY <2>2, ParentCalls DEF Calls!Next
  <2>3. CASE \E c \in Jobs : StartJob(c) \/ Kill(c)
    BY <2>3, CommandCalls DEF Calls!Next
  <2>4. CASE UNCHANGED vars
    BY <2>4, CallsStand
  <2>5. QED
    BY <2>1, <2>2, <2>3, <2>4 DEF Next, Dead, Session
<1>3. QED
  BY <1>1, <1>2, Invariance, PTL DEF Spec, Calls!Spec, CallsAnsweredOnce
=============================================================================
