-------------------------- MODULE BackgroundCalls --------------------------
(***************************************************************************)
(* What src/background.c promises to a background job: parent_call is a    *)
(* procedure call.  A job asks, is answered exactly once, and goes on with *)
(* the answer to its own question; when it says good-bye it asks no more.  *)
(* The processes, the sockets and the dialogs are in module Background,    *)
(* which implements this one.                                              *)
(***************************************************************************)
CONSTANTS
    Jobs,       \* the background jobs
    Questions,  \* the routines a job has invoked in the parent
    Replies     \* what these routines return

VARIABLE call   \* the state of the call of each job

Idle == [state |-> "idle"]
Over == [state |-> "over"]
Asked(q) == [state |-> "asked", question |-> q]
Answered(r) == [state |-> "answered", reply |-> r]

Init == call = [c \in Jobs |-> Idle]

Ask(c, q) == call[c] = Idle /\ call' = [call EXCEPT ![c] = Asked(q)]

\* The same question cannot be answered twice, nor one that was not asked.
Answer(c, r) ==
    /\ \E q \in Questions : call[c] = Asked(q)
    /\ call' = [call EXCEPT ![c] = Answered(r)]

GoOn(c) ==
    /\ \E r \in Replies : call[c] = Answered(r)
    /\ call' = [call EXCEPT ![c] = Idle]

\* A job leaves when it is not asking, and may be killed at any time.
Leave(c) == call[c] # Over /\ call' = [call EXCEPT ![c] = Over]

Next == \E c \in Jobs : \/ \E q \in Questions : Ask(c, q)
                        \/ \E r \in Replies : Answer(c, r)
                        \/ GoOn(c) \/ Leave(c)

Spec == Init /\ [][Next]_call
=============================================================================
