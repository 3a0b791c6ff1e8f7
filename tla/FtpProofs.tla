------------------------------ MODULE FtpProofs ------------------------------
(***************************************************************************)
(* That commands and replies of an ftp connection stay in step, what the   *)
(* cache holds, and what an operation may report, for every set of         *)
(* directories and any number of lost links.                               *)
(*                                                                         *)
(* Each function of Ftp has a lemma that says what it leaves behind when   *)
(* it is called in a Good state; the lemmas are put together in the order  *)
(* in which the functions call each other, up to the entry points, which   *)
(* are the actions.  Inv is the invariant between two entry points.        *)
(***************************************************************************)
EXTENDS Ftp, SequenceTheorems, TLAPS

Plain == {"CWD", "PORT", "PASV", "TYPE", "REST", "RNFR", "RNTO", "DELE",
          "CHMOD"}
Commands == Plain \cup Transfers \cup {"ABOR"}
Types == {"unknown", "ascii", "binary"}
Linear == {"none", "closed", "open", "ended"}

Codes == {150, 225, 226, 250, 350, 425, 426, 550}
Results == Codes \cup {0, 200, 421}
Replies == [of : Commands, code : Codes]
Buckets == [link : Links, type : Types, cwd : Dirs \cup {NoDir},
            cwd_defered : BOOLEAN, use_passive : BOOLEAN, strict : BOOLEAN,
            listed : BOOLEAN, linear : Linear]
Servers == [cwd : Dirs, transfer : Transfers \cup {"none"},
            replies : Seq(Replies)]
Listings == [from : Dirs, whole : BOOLEAN, astray : BOOLEAN,
             links : {"none", "unresolved", "resolved"}]
Caches == [Dirs -> Listings \cup {NoListing}]
Histories == [crossed : BOOLEAN, hung : BOOLEAN, overlooked : BOOLEAN,
              astray : BOOLEAN, drops : Nat, failed : Nat, lied : BOOLEAN,
              unsure : BOOLEAN]
States == [bucket : Buckets, server : Servers,
           cache : Caches,
           got_sigpipe : BOOLEAN, force : BOOLEAN, history : Histories,
           code : Results, ok : BOOLEAN, done : BOOLEAN, rnfr : BOOLEAN,
           again : BOOLEAN, unsure : BOOLEAN]

\* Between two commands at most one reply is left over, and then by what the
\* user has interrupted.  A reply that is mistaken for another leaves its own
\* behind.
Idle(s) ==
    /\ \/ s.server.replies = <<>>
       \/ \E r \in Replies : /\ s.server.replies = <<r>>
                             /\ s.history.crossed \/ r.of \notin Plain
    /\ s.history.crossed \/ s.server.replies # <<>> => s.history.overlooked
    /\ ~s.history.hung
    /\ s.history.crossed /\ s.bucket.link = "up" => s.server.replies # <<>>
    /\ s.server.transfer # "none" =>
          s.history.crossed /\ s.bucket.link = "up"

\* During a transfer.
Busy(s, cmd) ==
    /\ s.server.replies = <<>> /\ ~s.history.crossed /\ ~s.history.hung
    /\ s.bucket.link \in {"up", "closed"}
    /\ s.server.transfer = IF s.bucket.link = "up" THEN cmd ELSE "none"

\* Where the server is thought to be it is.
Placed(s) ==
    s.history.crossed \/ s.bucket.link = "unset" \/ s.bucket.cwd_defered
    \/ s.history.astray \/ s.bucket.cwd \in {NoDir, s.server.cwd}

CacheOK(s) ==
    \A d \in Dirs : s.cache[d] # NoListing =>
        s.cache[d].whole /\ (s.cache[d].from = d \/ s.cache[d].astray)

\* How near a lost link is to being made again.
Stage(s) == CASE s.bucket.link = "closed" -> 0
              [] s.bucket.link # "closed" /\ ~s.got_sigpipe -> 1
              [] OTHER -> 2
Repairing(s) == s.history.failed <= (IF Lost(s) THEN Stage(s) ELSE 0)

Good(s) == s \in States /\ Idle(s) /\ Placed(s) /\ CacheOK(s)

Safe(s) ==
    /\ s \in States /\ Placed(s) /\ CacheOK(s) /\ Repairing(s)
    /\ IF s.bucket.linear = "open" THEN Busy(s, "RETR") ELSE Idle(s)
    /\ s.bucket.linear # "none" => s.bucket.link # "none"
    /\ s.history.lied => s.history.overlooked \/ s.history.unsure

Inv == Safe(Now)

\* What commands leave alone.
Settled(s, t) ==
    /\ t.cache = s.cache
    /\ t.bucket.cwd = s.bucket.cwd /\ t.bucket.strict = s.bucket.strict
    /\ t.bucket.cwd_defered = s.bucket.cwd_defered
    /\ t.history.astray = s.history.astray

\* No reply that is left over can be taken for the start of a transfer.
Ready(s) == \/ s.server.replies = <<>>
            \/ s.history.crossed /\ Head(s.server.replies).code # 150

\* What no function undoes.
Goes(s, t) ==
    /\ t.bucket.linear = s.bucket.linear
    /\ t.history.failed = s.history.failed
    /\ s.history.crossed => t.history.crossed
    /\ s.history.overlooked => t.history.overlooked
    /\ s.bucket.link # "none" => t.bucket.link # "none"
    /\ s.bucket.link = "unset" => t.bucket.link = "unset"
    /\ t.history.drops >= s.history.drops
    /\ Lost(s) => /\ Lost(t) /\ t.history.drops = s.history.drops
                  /\ Stage(t) >= Stage(s)
    /\ Lost(t) /\ ~Lost(s) => t.history.drops # s.history.drops

\* Writing to a lost link brings it nearer to being made again.
Bites(s, t) == Lost(s) => Stage(t) > Stage(s) \/ Stage(t) = 2

-----------------------------------------------------------------------------
(* Replies and states.                                                      *)

\* A queue of at most two replies.
LEMMA Queues ==
    ASSUME NEW r \in Replies, NEW q \in Replies
    PROVE  /\ <<>> \in Seq(Replies) /\ <<r>> \in Seq(Replies) /\ <<r>> # <<>>
           /\ Append(<<>>, r) = <<r>> /\ Append(<<r>>, q) = <<r, q>>
           /\ <<r, q>> \in Seq(Replies) /\ <<r, q>> # <<>>
           /\ Head(<<r>>) = r /\ Tail(<<r>>) = <<>>
           /\ Head(<<r, q>>) = r /\ Tail(<<r, q>>) = <<q>>
<1>1. /\ <<r>> \in Seq(Replies) /\ <<r, q>> \in Seq(Replies)
      /\ <<>> \in Seq(Replies)
  OBVIOUS
<1>2. Append(<<r>>, q) = <<r, q>>
  <2>1. Append(<<r>>, q) \in Seq(Replies)
    BY <1>1
  <2>2. Len(Append(<<r>>, q)) = 2 /\ Len(<<r, q>>) = 2
    OBVIOUS
  <2>3. \A i \in 1..2 : Append(<<r>>, q)[i] = <<r, q>>[i]
    <3>1. Append(<<r>>, q)[1] = r
      OBVIOUS
    <3>2. Append(<<r>>, q)[2] = q
      OBVIOUS
    <3>3. \A i \in 1..2 : i = 1 \/ i = 2
      OBVIOUS
    <3>4. QED
      BY <3>1, <3>2, <3>3
  <2>4. QED
    BY <1>1, <2>1, <2>2, <2>3, SeqEqual
<1>3. <<r>> # <<>> /\ <<r, q>> # <<>>
  <2>1. Len(<<r>>) = 1 /\ Len(<<r, q>>) = 2 /\ Len(<<>>) = 0
    OBVIOUS
  <2>2. QED
    BY <2>1
<1>4. Append(<<>>, r) = <<r>>
  OBVIOUS
<1>5. /\ Head(<<r>>) = r /\ Tail(<<r>>) = <<>>
      /\ Head(<<r, q>>) = r /\ Tail(<<r, q>>) = <<q>>
  OBVIOUS
<1>6. QED
  BY <1>1, <1>2, <1>3, <1>4, <1>5

\* The server hangs up.
LEMMA HungUp ==
    ASSUME NEW s \in States, NEW t \in HangUp(s)
    PROVE  /\ t \in States /\ t.cache = s.cache
           /\ t.got_sigpipe = s.got_sigpipe /\ t.code = s.code
           /\ t.done = s.done /\ t.ok = s.ok
           /\ t.bucket = [s.bucket EXCEPT !.link = "closed"]
           /\ t.server = [s.server EXCEPT !.transfer = "none"]
           /\ t.history = [s.history EXCEPT !.drops = @ + 1]
<1>1. t = [s EXCEPT !.bucket.link = "closed", !.server.transfer = "none",
                    !.history.drops = @ + 1]
  BY DEF HangUp
<1>2. /\ t.bucket = [s.bucket EXCEPT !.link = "closed"]
      /\ t.server = [s.server EXCEPT !.transfer = "none"]
      /\ t.history = [s.history EXCEPT !.drops = @ + 1]
  BY <1>1 DEF States
<1>3. t.bucket \in Buckets
  BY <1>2 DEF States, Buckets, Links
<1>4. t.server \in Servers
  BY <1>2 DEF States, Servers
<1>5. t.history \in Histories
  BY <1>2 DEF States, Histories
<1>6. t = [s EXCEPT !.bucket = t.bucket, !.server = t.server,
                    !.history = t.history]
  BY <1>1, <1>2 DEF States
<1>7. QED
  BY <1>2, <1>3, <1>4, <1>5, <1>6 DEF States

\* The server sends a reply.
Queued(s, r, t) ==
    /\ t \in States /\ t.cache = s.cache
    /\ t.bucket = s.bucket /\ t.history = s.history
    /\ t.got_sigpipe = s.got_sigpipe /\ t.code = s.code
    /\ t.done = s.done /\ t.ok = s.ok
    /\ t.server = [s.server EXCEPT !.replies = Append(@, r)]

\* Sending a reply changes nothing but the queue.
LEMMA Replied ==
    ASSUME NEW s \in States, NEW cmd \in Commands, NEW code \in Codes,
           NEW t, t = Answer(s, cmd, code)
    PROVE  \E r \in Replies : /\ r.of = cmd /\ r.code = code
                              /\ Queued(s, r, t)
<1> DEFINE r == [of |-> cmd, code |-> code]
<1>1. r \in Replies /\ r.of = cmd /\ r.code = code
  BY DEF Replies
<1>2. t = [s EXCEPT !.server.replies = Append(@, r)]
  BY DEF Answer
<1> HIDE DEF r
<1>3. t.server = [s.server EXCEPT !.replies = Append(@, r)]
  BY <1>2 DEF States
<1>4. t.server \in Servers
  <2>1. Append(s.server.replies, r) \in Seq(Replies)
    BY <1>1 DEF States, Servers
  <2>2. QED
    BY <1>3, <2>1 DEF States, Servers
<1>5. t = [s EXCEPT !.server = t.server]
  BY <1>2, <1>3 DEF States
<1>6. Queued(s, r, t)
  BY <1>3, <1>4, <1>5 DEF States, Queued
<1>7. QED
  BY <1>1, <1>6

\* What is left of a command that the server carries out.
Obeyed(s, cmd, arg, t) ==
    /\ t \in States /\ t.cache = s.cache
    /\ t.bucket = s.bucket /\ t.history = s.history
    /\ t.got_sigpipe = s.got_sigpipe /\ t.code = s.code
    /\ t.server = [s.server EXCEPT
          !.cwd = IF cmd = "CWD" THEN arg ELSE @,
          !.transfer = IF cmd \in Transfers THEN cmd ELSE @]
    /\ cmd \in {"DELE", "RNTO"} => t.done

\* The server does what it is told to.
LEMMA DoneAsTold ==
    ASSUME NEW s \in States, NEW cmd \in Plain \cup Transfers,
           NEW arg \in Dirs \cup {NoDir}, cmd = "CWD" => arg \in Dirs,
           NEW t, t = Performed(s, cmd, arg)
    PROVE  Obeyed(s, cmd, arg, t)
<1> DEFINE x == cmd = "RNFR"
           y == cmd \in {"DELE", "RNTO", "CHMOD"}
           u == [s EXCEPT !.rnfr = x, !.done = y]
<1>1. /\ u \in States /\ u.cache = s.cache
      /\ u.bucket = s.bucket /\ u.history = s.history
      /\ u.got_sigpipe = s.got_sigpipe /\ u.code = s.code
      /\ u.server = s.server /\ (y => u.done)
  <2>1. x \in BOOLEAN /\ y \in BOOLEAN
    OBVIOUS
  <2> HIDE DEF x, y
  <2>2. QED
    BY <2>1 DEF States
<1>2. t = CASE cmd = "CWD" -> [u EXCEPT !.server.cwd = arg]
            [] cmd \in Transfers -> [u EXCEPT !.server.transfer = cmd]
            [] OTHER -> u
  BY Zenon DEF Performed
<1>3. "CWD" \notin Transfers /\ (y => cmd \notin Transfers /\ cmd # "CWD")
  BY DEF Transfers
<1>4. cmd \in {"DELE", "RNTO"} => y
  OBVIOUS
<1> HIDE DEF u, x, y
<1>5. CASE cmd = "CWD"
  <2>1. t = [u EXCEPT !.server.cwd = arg]
    BY <1>2, <1>3, <1>5
  <2>2. t.server = [s.server EXCEPT !.cwd = arg]
    BY <1>1, <2>1 DEF States
  <2>3. t.server \in Servers
    BY <1>5, <2>2 DEF States, Servers
  <2>4. /\ t \in States /\ t.cache = s.cache
        /\ t.bucket = s.bucket /\ t.history = s.history
        /\ t.got_sigpipe = s.got_sigpipe /\ t.code = s.code
    BY <1>1, <2>1, <2>3 DEF States
  <2>5. t.server = [s.server EXCEPT
                 !.cwd = IF cmd = "CWD" THEN arg ELSE @,
                 !.transfer = IF cmd \in Transfers THEN cmd ELSE @]
    BY <1>3, <1>5, <2>2 DEF States, Servers
  <2>6. QED
    BY <1>3, <1>4, <1>5, <2>4, <2>5 DEF Obeyed
<1>6. CASE cmd \in Transfers
  <2>1. t = [u EXCEPT !.server.transfer = cmd]
    BY <1>2, <1>3, <1>6
  <2>2. t.server = [s.server EXCEPT !.transfer = cmd]
    BY <1>1, <2>1 DEF States
  <2>3. t.server \in Servers
    BY <1>6, <2>2 DEF States, Servers
  <2>4. /\ t \in States /\ t.cache = s.cache
        /\ t.bucket = s.bucket /\ t.history = s.history
        /\ t.got_sigpipe = s.got_sigpipe /\ t.code = s.code
    BY <1>1, <2>1, <2>3 DEF States
  <2>5. t.server = [s.server EXCEPT
                 !.cwd = IF cmd = "CWD" THEN arg ELSE @,
                 !.transfer = IF cmd \in Transfers THEN cmd ELSE @]
    BY <1>3, <1>6, <2>2 DEF States, Servers
  <2>6. QED
    BY <1>3, <1>4, <1>6, <2>4, <2>5 DEF Obeyed
<1>7. CASE cmd # "CWD" /\ cmd \notin Transfers
  <2>1. t = u
    BY <1>2, <1>7
  <2>2. t.server = [s.server EXCEPT
                 !.cwd = IF cmd = "CWD" THEN arg ELSE @,
                 !.transfer = IF cmd \in Transfers THEN cmd ELSE @]
    BY <1>1, <1>7, <2>1 DEF States, Servers
  <2>3. QED
    BY <1>1, <1>4, <2>1, <2>2 DEF Obeyed
<1>8. QED
  BY <1>5, <1>6, <1>7

\* The replies to a command.
LEMMA AcceptedCodes ==
    ASSUME NEW cmd \in Plain \cup Transfers
    PROVE  /\ Accepted(cmd) \in Codes /\ 550 \in Codes
           /\ cmd \in Transfers => Accepted(cmd) = 150
           /\ cmd \in Plain => Accepted(cmd) \in {250, 350}
           /\ cmd \in {"CWD", "DELE", "RNTO"} => Accepted(cmd) = 250
<1>1. CASE cmd \in Transfers
  BY <1>1 DEF Accepted, Codes, Plain, Transfers
<1>2. CASE cmd \in Plain
  BY <1>2 DEF Accepted, Codes, Plain, Transfers
<1>3. QED
  BY <1>1, <1>2

\* A function returns a code.
Returned(s, c, t) ==
    /\ t \in States /\ t.cache = s.cache /\ t.done = s.done
    /\ t.ok = s.ok /\ t.code = c
    /\ t.bucket = s.bucket /\ t.server = s.server
    /\ t.history = s.history /\ t.got_sigpipe = s.got_sigpipe

\* A code changes nothing else.
LEMMA Coded ==
    ASSUME NEW s \in States, NEW c \in Results, NEW t,
           t = [s EXCEPT !.code = c]
    PROVE  Returned(s, c, t)
BY DEF States, Returned

\* What comes of a command: it is answered, or the link is lost, or it was.
Told(s, cmd, arg, t) ==
    /\ t \in States /\ t.cache = s.cache
    /\ \/ /\ s.bucket.link = "up" /\ t.code = 200
          /\ t.bucket = s.bucket /\ t.history = s.history
          /\ \E r \in Replies :
             /\ r.of = cmd
             /\ \/ /\ r.code = 550
                   /\ t.server = [s.server EXCEPT
                                     !.replies = Append(@, r)]
                \/ /\ r.code = Accepted(cmd)
                   /\ t.server = [s.server EXCEPT
                         !.cwd = IF cmd = "CWD" THEN arg ELSE @,
                         !.transfer = IF cmd \in Transfers
                                      THEN cmd ELSE @,
                         !.replies = Append(@, r)]
                   /\ cmd \in {"DELE", "RNTO"} => t.done
       \/ /\ s.bucket.link = "up" /\ t.code = 200
          /\ t.bucket = [s.bucket EXCEPT !.link = "closed"]
          /\ t.server = [s.server EXCEPT !.transfer = "none"]
          /\ t.history = [s.history EXCEPT !.drops = @ + 1]
       \/ /\ s.bucket.link = "closed" /\ t.code = 200
          /\ t.bucket = [s.bucket EXCEPT !.link = "reset"]
          /\ ~t.got_sigpipe
          /\ t.server = s.server /\ t.history = s.history
       \/ /\ s.bucket.link \notin {"up", "closed"} /\ t.code = 421
          /\ s.bucket.link = "reset" => t.got_sigpipe
          /\ t.bucket = s.bucket
          /\ t.server = s.server /\ t.history = s.history

\* What comes of a command that is written to a link.
LEMMA Sent ==
    ASSUME NEW s \in States, NEW cmd \in Plain \cup Transfers,
           NEW arg \in Dirs \cup {NoDir}, cmd = "CWD" => arg \in Dirs,
           NEW t \in Send(s, cmd, arg)
    PROVE  Told(s, cmd, arg, t)
<1> USE DEF Told
<1> DEFINE sent == [s EXCEPT !.got_sigpipe = FALSE, !.code = 200]
<1>1. 200 \in Results /\ 421 \in Results
  BY DEF Results
<1>2. /\ sent \in States /\ sent.cache = s.cache /\ sent.code = 200
      /\ sent.bucket = s.bucket /\ sent.server = s.server
      /\ sent.history = s.history /\ ~sent.got_sigpipe
  BY ZenonT(60), <1>1 DEF States
<1> HIDE DEF sent
<1>3. CASE s.bucket.link = "up"
  <2>1. \/ t = Answer(sent, cmd, 550)
        \/ t \in HangUp(sent)
        \/ t = Answer(Performed(sent, cmd, arg), cmd, Accepted(cmd))
    BY <1>3 DEF Send, Reactions, sent
  <2>2. CASE t = Answer(sent, cmd, 550)
    <3>1. cmd \in Commands /\ 550 \in Codes
      BY AcceptedCodes DEF Commands
    <3>2. PICK r \in Replies : r.of = cmd /\ r.code = 550 /\ Queued(sent, r, t)
      BY <1>2, <2>2, <3>1, Replied
    <3>3. /\ t \in States /\ t.cache = s.cache /\ t.bucket = s.bucket
          /\ t.history = s.history /\ t.code = 200
          /\ t.server = [s.server EXCEPT !.replies = Append(@, r)]
      BY <1>2, <3>2 DEF Queued
    <3>4. QED
      BY ZenonT(60), <1>3, <3>2, <3>3
  <2>3. CASE t \in HangUp(sent)
    <3>1. /\ t \in States /\ t.cache = sent.cache /\ t.code = sent.code
          /\ t.bucket = [sent.bucket EXCEPT !.link = "closed"]
          /\ t.server = [sent.server EXCEPT !.transfer = "none"]
          /\ t.history = [sent.history EXCEPT !.drops = @ + 1]
      BY <1>2, <2>3, HungUp
    <3>2. t.cache = s.cache
      BY <1>2, <3>1
    <3>3. QED
      BY <1>2, <1>3, <3>1, <3>2
  <2>4. CASE t = Answer(Performed(sent, cmd, arg), cmd, Accepted(cmd))
    <3>1. cmd \in Commands /\ Accepted(cmd) \in Codes
      BY AcceptedCodes DEF Commands
    <3>2. PICK u : u = Performed(sent, cmd, arg)
      OBVIOUS
    <3>3. Obeyed(sent, cmd, arg, u)
      BY <1>2, <3>2, DoneAsTold
    <3>4. u \in States
      BY <3>3 DEF Obeyed
    <3>5. PICK r \in Replies :
             r.of = cmd /\ r.code = Accepted(cmd) /\ Queued(u, r, t)
      BY <2>4, <3>1, <3>2, <3>4, Replied
    <3>6. /\ t \in States /\ t.cache = s.cache /\ t.bucket = s.bucket
          /\ t.history = s.history /\ t.code = 200
      BY <1>2, <3>3, <3>5 DEF Obeyed, Queued
    <3>7. cmd \in {"DELE", "RNTO"} => t.done
      BY <3>3, <3>5 DEF Obeyed, Queued
    <3>8. t.server = [s.server EXCEPT
                         !.cwd = IF cmd = "CWD" THEN arg ELSE @,
                         !.transfer = IF cmd \in Transfers THEN cmd ELSE @,
                         !.replies = Append(@, r)]
      <4>1. /\ u.server = [s.server EXCEPT
                 !.cwd = IF cmd = "CWD" THEN arg ELSE @,
                 !.transfer = IF cmd \in Transfers THEN cmd ELSE @]
            /\ t.server = [u.server EXCEPT !.replies = Append(@, r)]
        BY <1>2, <3>3, <3>5 DEF Obeyed, Queued
      <4>2. QED
        BY <4>1 DEF States, Servers
    <3>9. QED
      BY <1>3, <3>5, <3>6, <3>7, <3>8
  <2>5. QED
    BY <2>1, <2>2, <2>3, <2>4
<1>4. CASE s.bucket.link = "closed"
  <2>1. t = [sent EXCEPT !.bucket.link = "reset"]
    BY <1>4 DEF Send, sent
  <2>2. t.bucket = [s.bucket EXCEPT !.link = "reset"]
    BY <1>2, <2>1 DEF States
  <2>3. t.bucket \in Buckets
    BY <2>2 DEF States, Buckets, Links
  <2>4. QED
    BY <1>2, <1>4, <2>1, <2>2, <2>3 DEF States
<1>5. CASE s.bucket.link = "reset"
  <2> DEFINE u == [s EXCEPT !.got_sigpipe = TRUE]
  <2>1. t = [u EXCEPT !.code = 421]
    BY <1>5 DEF Send
  <2>2. /\ u \in States /\ u.cache = s.cache /\ u.got_sigpipe
        /\ u.bucket = s.bucket /\ u.server = s.server
        /\ u.history = s.history
    BY DEF States
  <2> HIDE DEF u
  <2>3. Returned(u, 421, t)
    <3>1. PICK c \in Results : c = 421
      BY <1>1
    <3>2. t = [u EXCEPT !.code = c]
      BY <2>1, <3>1
    <3>3. QED
      BY <2>2, <3>1, <3>2, Coded
  <2>4. t.cache = s.cache
    BY <2>2, <2>3 DEF Returned
  <2>5. QED
    BY <1>5, <2>2, <2>3, <2>4 DEF Returned
<1>6. CASE s.bucket.link \notin {"up", "closed", "reset"}
  <2>1. t = [sent EXCEPT !.code = 421]
    BY <1>6 DEF Send, sent
  <2>2. QED
    BY <1>1, <1>2, <1>6, <2>1 DEF States
<1>7. QED
  BY <1>3, <1>4, <1>5, <1>6

\* What comes of waiting for a reply.
Heard(s, cmds, t) ==
    /\ t \in States /\ t.cache = s.cache /\ t.done = s.done /\ t.ok = s.ok
    /\ t.bucket = s.bucket /\ t.got_sigpipe = s.got_sigpipe
    /\ s.server.replies = <<>> =>
         /\ t.code = 421 /\ t.server = s.server
         /\ t.history = s.history
    /\ s.server.replies # <<>> =>
         /\ t.code = Head(s.server.replies).code
         /\ t.server = [s.server EXCEPT !.replies = Tail(@)]
         /\ t.history = [s.history EXCEPT !.crossed =
               @ \/ Head(s.server.replies).of \notin cmds]

\* The next reply is read.
LEMMA Read ==
    ASSUME NEW s \in States, NEW cmds,
           s.server.replies # <<>> \/ s.bucket.link # "up",
           NEW t, t = get_reply(s, cmds)
    PROVE  Heard(s, cmds, t)
<1> USE DEF Heard
<1>1. CASE s.server.replies = <<>>
  <2>1. s.bucket.link # "up"
    BY <1>1
  <2>2. t = [s EXCEPT !.code = 421,
                      !.history.hung = @ \/ s.bucket.link = "up",
                      !.bucket.link = IF @ = "up" THEN "closed" ELSE @]
    BY <1>1 DEF get_reply
  <2>3. t.history = s.history
    <3>1. (s.history.hung \/ s.bucket.link = "up") = s.history.hung
      BY <2>1 DEF States, Histories
    <3>2. t.history = [s.history EXCEPT !.hung = s.history.hung]
      BY <2>2, <3>1 DEF States
    <3>3. QED
      BY <3>2 DEF States, Histories
  <2>4. t.bucket = s.bucket
    <3>1. t.bucket = [s.bucket EXCEPT !.link = s.bucket.link]
      BY <2>1, <2>2 DEF States
    <3>2. QED
      BY <3>1 DEF States, Buckets
  <2>5. 421 \in Results
    BY DEF Results
  <2> DEFINE u == [s EXCEPT !.code = 421]
  <2>6. /\ u \in States /\ u.cache = s.cache /\ u.done = s.done
        /\ u.ok = s.ok /\ u.code = 421
        /\ u.bucket = s.bucket /\ u.server = s.server
        /\ u.history = s.history /\ u.got_sigpipe = s.got_sigpipe
    BY <2>5, Coded DEF Returned
  <2>7. t = [u EXCEPT !.history = t.history, !.bucket = t.bucket]
    BY <2>2 DEF States
  <2> HIDE DEF u
  <2>8. t = [u EXCEPT !.history = u.history, !.bucket = u.bucket]
    BY <2>3, <2>4, <2>6, <2>7
  <2>9. t = u
    BY <2>6, <2>8 DEF States
  <2>10. QED
    BY <1>1, <2>6, <2>9
<1>2. CASE s.server.replies # <<>>
  <2> DEFINE r == Head(s.server.replies)
             c == s.history.crossed \/ r.of \notin cmds
  <2>1. r \in Replies /\ Tail(s.server.replies) \in Seq(Replies)
    BY <1>2 DEF States, Servers
  <2>2. t = [s EXCEPT !.code = r.code, !.server.replies = Tail(@),
                      !.history.crossed = c]
    BY <1>2, Zenon DEF get_reply
  <2>3. c \in BOOLEAN
    BY DEF States, Histories
  <2>4. r.code \in Results
    BY <2>1 DEF Replies, Results
  <2> HIDE DEF c, r
  <2>5. /\ t.server = [s.server EXCEPT !.replies = Tail(@)]
        /\ t.history = [s.history EXCEPT !.crossed = c]
    BY <2>2 DEF States
  <2>6. t.server \in Servers
    BY <2>1, <2>5 DEF States, Servers
  <2>7. t.history \in Histories
    BY <2>3, <2>5 DEF States, Histories
  <2>8. t = [s EXCEPT !.code = r.code, !.server = t.server,
                      !.history = t.history]
    BY <2>2, <2>5 DEF States
  <2>9. /\ t \in States /\ t.cache = s.cache /\ t.done = s.done /\ t.ok = s.ok
        /\ t.bucket = s.bucket /\ t.got_sigpipe = s.got_sigpipe
        /\ t.code = r.code
    BY <2>4, <2>6, <2>7, <2>8 DEF States
  <2>10. QED
    BY <1>2, <2>5, <2>9 DEF c, r
<1>3. QED
  BY <1>1, <1>2

\* A command has been sent, and a reply read.
Commanded(s, cmd, arg, t) ==
    /\ t \in States /\ Settled(s, t) /\ Goes(s, t) /\ Bites(s, t)
    /\ t.history.overlooked = s.history.overlooked
    /\ cmd \in Plain => /\ Idle(t)
                        /\ t.code # 421 => Ready(t)
    /\ cmd \in Transfers =>
          IF t.code = 150
          THEN Busy(t, cmd) /\ t.bucket.link = "up" /\ ~Lost(s)
          ELSE Idle(t)
    /\ cmd # "CWD" => t.server.cwd = s.server.cwd
    /\ cmd = "CWD" /\ ~t.history.crossed =>
          t.server.cwd = IF Class(t) = COMPLETE THEN arg ELSE s.server.cwd
    /\ cmd \in {"DELE", "RNTO"} /\ Class(t) = COMPLETE =>
          t.history.crossed \/ t.done

\* A command that is sent while nothing that is left over answers it.
LEMMA Command ==
    ASSUME NEW s \in States, Idle(s), NEW cmd \in Plain \cup Transfers,
           NEW arg \in Dirs \cup {NoDir}, cmd = "CWD" => arg \in Dirs,
           cmd \in Transfers => Ready(s), NEW t \in command(s, cmd, arg)
    PROVE  Commanded(s, cmd, arg, t)
<1>1. PICK u \in Send(s, cmd, arg) :
         IF u.code = 421 THEN t = u ELSE t = get_reply(u, {cmd})
  <2>1. PICK u \in Send(s, cmd, arg) :
           t \in {IF u.code = 421 THEN u ELSE get_reply(u, {cmd})}
    BY DEF command, Each
  <2>2. QED
    BY <2>1
<1>2. Told(s, cmd, arg, u) /\ u \in States
  <2>1. Told(s, cmd, arg, u)
    BY Sent
  <2>2. QED
    BY <2>1 DEF Told
<1>3. \/ s.server.replies = <<>>
      \/ \E r \in Replies : /\ s.server.replies = <<r>>
                            /\ s.history.crossed \/ r.of # cmd
                            /\ s.history.overlooked
  <2>1. ASSUME NEW r \in Replies, s.server.replies = <<r>>
        PROVE  (s.history.crossed \/ r.of # cmd) /\ s.history.overlooked
    <3>1. s.server.replies # <<>> /\ s.history.overlooked
      BY <2>1, Queues DEF Idle
    <3>2. CASE cmd \in Transfers
      BY <3>1, <3>2 DEF Ready
    <3>3. CASE cmd \in Plain
      <4>1. PICK q \in Replies : /\ s.server.replies = <<q>>
                                 /\ s.history.crossed \/ q.of \notin Plain
        BY <3>1 DEF Idle
      <4>2. q = r
        BY <2>1, <4>1, Queues
      <4>3. QED
        BY <3>1, <3>3, <4>1, <4>2
    <3>4. QED
      BY <3>1, <3>2, <3>3
  <2>2. CASE s.server.replies # <<>>
    <3>1. PICK r \in Replies : s.server.replies = <<r>>
      BY <2>2 DEF Idle
    <3>2. QED
      BY <2>1, <3>1
  <2>3. QED
    BY <2>2
<1>4. s.bucket \in Buckets /\ s.server \in Servers /\ s.history \in Histories
  BY DEF States
<1>5. CASE u.code = 421
  <2>1. /\ t = u /\ s.bucket.link \notin {"up", "closed"}
        /\ s.bucket.link = "reset" => t.got_sigpipe
        /\ t.bucket = s.bucket
        /\ t.server = s.server /\ t.history = s.history
    BY <1>1, <1>2, <1>5 DEF Told
  <2>2. t.cache = s.cache /\ t.code = 421
    BY <1>2, <1>5, <2>1 DEF Told
  <2>3. Goes(s, t) /\ Bites(s, t)
    BY <1>4, <2>1 DEF Goes, Bites, Lost, Stage, Histories
  <2>4. Idle(t)
    BY <2>1 DEF Idle
  <2>5. Class(t) # COMPLETE
    BY <2>2 DEF Class, COMPLETE
  <2>6. QED
    BY <1>2, <2>1, <2>2, <2>3, <2>4, <2>5 DEF Commanded, Settled
<1>6. CASE u.code # 421 /\ s.bucket.link = "up" /\ u.bucket = s.bucket
  <2>1. /\ u.code = 200 /\ u.history = s.history /\ u.cache = s.cache
        /\ \E q \in Replies :
              /\ q.of = cmd
              /\ \/ /\ q.code = 550
                    /\ u.server = [s.server EXCEPT !.replies = Append(@, q)]
                 \/ /\ q.code = Accepted(cmd)
                    /\ u.server = [s.server EXCEPT
                          !.cwd = IF cmd = "CWD" THEN arg ELSE @,
                          !.transfer = IF cmd \in Transfers THEN cmd ELSE @,
                          !.replies = Append(@, q)]
                    /\ cmd \in {"DELE", "RNTO"} => u.done
    <3>1. u.bucket.link # "closed"
      BY <1>6
    <3>2. [s.bucket EXCEPT !.link = "closed"].link = "closed"
      BY <1>4 DEF Buckets
    <3>3. QED
      BY <1>2, <1>6, <3>1, <3>2 DEF Told
  <2>2. PICK q \in Replies :
           /\ q.of = cmd /\ q.code \in {550, Accepted(cmd)}
           /\ u.server.replies = Append(s.server.replies, q)
           /\ u.server.cwd = IF cmd = "CWD" /\ q.code # 550 THEN arg
                             ELSE s.server.cwd
           /\ u.server.transfer = IF cmd \in Transfers /\ q.code # 550
                                  THEN cmd ELSE s.server.transfer
           /\ cmd \in {"DELE", "RNTO"} /\ q.code # 550 => u.done
    <3>1. Accepted(cmd) # 550
      BY AcceptedCodes
    <3>2. PICK q \in Replies :
             /\ q.of = cmd
             /\ \/ /\ q.code = 550
                   /\ u.server = [s.server EXCEPT !.replies = Append(@, q)]
                \/ /\ q.code = Accepted(cmd)
                   /\ u.server = [s.server EXCEPT
                         !.cwd = IF cmd = "CWD" THEN arg ELSE @,
                         !.transfer = IF cmd \in Transfers THEN cmd ELSE @,
                         !.replies = Append(@, q)]
                   /\ cmd \in {"DELE", "RNTO"} => u.done
      BY <2>1
    <3>3. CASE q.code = 550
      <4>1. u.server = [s.server EXCEPT !.replies = Append(@, q)]
        BY <3>1, <3>2, <3>3
      <4>2. QED
        BY <1>4, <3>2, <3>3, <4>1 DEF Servers
    <3>4. CASE q.code = Accepted(cmd)
      <4>1. /\ u.server = [s.server EXCEPT
                         !.cwd = IF cmd = "CWD" THEN arg ELSE @,
                         !.transfer = IF cmd \in Transfers THEN cmd ELSE @,
                         !.replies = Append(@, q)]
            /\ cmd \in {"DELE", "RNTO"} => u.done
        BY <3>1, <3>2, <3>4
      <4>2. QED
        BY <1>4, <3>1, <3>2, <3>4, <4>1 DEF Servers
    <3>5. QED
      BY <3>2, <3>3, <3>4
  <2>3. Append(s.server.replies, q) # <<>>
    <3>1. CASE s.server.replies = <<>>
      BY <3>1, Queues
    <3>2. CASE s.server.replies # <<>>
      <4>1. PICK r \in Replies : s.server.replies = <<r>>
        BY <1>3, <3>2
      <4>2. QED
        BY <4>1, Queues
    <3>3. QED
      BY <3>1, <3>2
  <2>4. /\ t \in States /\ t.cache = u.cache /\ t.done = u.done
        /\ t.bucket = u.bucket /\ t.got_sigpipe = u.got_sigpipe
        /\ t.code = Head(u.server.replies).code
        /\ t.server = [u.server EXCEPT !.replies = Tail(@)]
        /\ t.history = [u.history EXCEPT !.crossed =
                           @ \/ Head(u.server.replies).of \notin {cmd}]
    <3>1. t = get_reply(u, {cmd})
      BY <1>1, <1>6
    <3>2. Heard(u, {cmd}, t)
      BY <1>2, <2>2, <2>3, <3>1, Read
    <3>3. QED
      BY <2>2, <2>3, <3>2 DEF Heard
  <2>5. /\ t.bucket = s.bucket /\ Settled(s, t)
        /\ t.server.replies = Tail(u.server.replies)
        /\ t.server.cwd = u.server.cwd
        /\ t.server.transfer = u.server.transfer
        /\ t.history.crossed <=>
              s.history.crossed \/ Head(u.server.replies).of # cmd
        /\ t.history.overlooked = s.history.overlooked
        /\ t.history.hung = s.history.hung
        /\ t.history.failed = s.history.failed
        /\ t.history.drops = s.history.drops
    <3>1. /\ t.bucket = s.bucket /\ t.cache = s.cache
      BY <1>6, <2>1, <2>4
    <3>2. u.server \in Servers
      BY <1>2 DEF States
    <3>3. /\ t.server.replies = Tail(u.server.replies)
          /\ t.server.cwd = u.server.cwd
          /\ t.server.transfer = u.server.transfer
      BY <2>4, <3>2 DEF Servers
    <3>4. /\ t.history.crossed <=>
              s.history.crossed \/ Head(u.server.replies).of # cmd
          /\ t.history.overlooked = s.history.overlooked
          /\ t.history.hung = s.history.hung
          /\ t.history.failed = s.history.failed
          /\ t.history.drops = s.history.drops
          /\ t.history.astray = s.history.astray
      <4> DEFINE c == s.history.crossed
                      \/ Head(u.server.replies).of \notin {cmd}
      <4>1. t.history = [s.history EXCEPT !.crossed = c]
        BY <2>1, <2>4
      <4>2. c <=> s.history.crossed \/ Head(u.server.replies).of # cmd
        OBVIOUS
      <4> HIDE DEF c
      <4>3. /\ t.history.crossed = c
            /\ t.history.overlooked = s.history.overlooked
            /\ t.history.hung = s.history.hung
            /\ t.history.failed = s.history.failed
            /\ t.history.drops = s.history.drops
            /\ t.history.astray = s.history.astray
        BY <1>4, <4>1 DEF Histories
      <4>4. QED
        BY <4>2, <4>3
    <3>5. QED
      BY <3>1, <3>3, <3>4 DEF Settled
  <2>6. Goes(s, t) /\ Bites(s, t) /\ ~Lost(s) /\ ~Lost(t)
    BY <1>4, <1>6, <2>5 DEF Goes, Bites, Lost, Histories
  <2>7. q.code = 550 \/ (q.code # 550 /\ q.code = Accepted(cmd))
    BY <2>2
  <2>8. CASE s.server.replies = <<>>
    <3>1. ~s.history.crossed /\ s.server.transfer = "none"
      BY <1>6, <2>8 DEF Idle
    <3>2. /\ u.server.replies = <<q>> /\ Head(<<q>>) = q /\ Tail(<<q>>) = <<>>
      BY <2>2, <2>8, Queues
    <3>3. /\ t.server.replies = <<>> /\ t.code = q.code
          /\ ~t.history.crossed
      BY <2>2, <2>4, <2>5, <3>1, <3>2
    <3>4. Ready(t)
      BY <3>3 DEF Ready
    <3>5. q.code = 550 \/ cmd \notin Transfers => Idle(t)
      BY <1>6, <2>2, <2>5, <3>1, <3>3 DEF Idle
    <3>6. q.code # 550 /\ cmd \in Transfers =>
             q.code = 150 /\ Busy(t, cmd) /\ t.bucket.link = "up"
      <4>1. SUFFICES ASSUME q.code # 550, cmd \in Transfers
                     PROVE  q.code = 150 /\ Busy(t, cmd)
                            /\ t.bucket.link = "up"
        OBVIOUS
      <4>2. ~s.history.hung
        BY DEF Idle
      <4>3. QED
        BY <1>6, <2>2, <2>5, <2>7, <3>3, <4>1, <4>2, AcceptedCodes DEF Busy
    <3>7. /\ q.code = 550 => Class(t) # COMPLETE
          /\ cmd \in {"CWD", "DELE", "RNTO"} /\ q.code # 550
                => Class(t) = COMPLETE
      <4>1. q.code = 550 => t.code = 550
        BY <3>3
      <4>2. cmd \in {"CWD", "DELE", "RNTO"} /\ q.code # 550 => t.code = 250
        BY <2>7, <3>3, AcceptedCodes
      <4>3. QED
        BY <4>1, <4>2 DEF Class, COMPLETE
    <3>8. cmd # "CWD" => t.server.cwd = s.server.cwd
      BY <2>2, <2>5
    <3>9. cmd = "CWD" =>
             t.server.cwd = IF Class(t) = COMPLETE THEN arg ELSE s.server.cwd
      BY <2>2, <2>5, <3>7
    <3>10. cmd \in {"DELE", "RNTO"} /\ Class(t) = COMPLETE => t.done
      BY <2>2, <2>4, <3>7
    <3>11. cmd \in Plain => cmd \notin Transfers
      BY DEF Plain, Transfers
    <3>12. QED
      BY <2>4, <2>5, <2>6, <3>3, <3>4, <3>5, <3>6, <3>8, <3>9, <3>10, <3>11
         DEF Commanded
  <2>9. CASE s.server.replies # <<>>
    <3>1. PICK r \in Replies : /\ s.server.replies = <<r>>
                               /\ s.history.crossed \/ r.of # cmd
                               /\ s.history.overlooked
      BY <1>3, <2>9
    <3>2. /\ u.server.replies = <<r, q>> /\ <<q>> # <<>>
          /\ Head(<<r, q>>) = r /\ Tail(<<r, q>>) = <<q>> /\ Head(<<q>>) = q
      BY <2>2, <3>1, Queues
    <3>3. /\ t.server.replies = <<q>> /\ t.code = r.code /\ t.history.crossed
      BY <2>4, <2>5, <3>1, <3>2
    <3>4. Idle(t)
      <4>1. t.server.transfer # "none" => t.bucket.link = "up"
        BY <1>6, <2>5
      <4>2. ~t.history.hung /\ t.history.overlooked
        BY <2>5, <3>1 DEF Idle
      <4>3. QED
        BY <3>2, <3>3, <4>1, <4>2 DEF Idle
    <3>5. cmd \in Plain => Ready(t)
      BY <2>7, <3>2, <3>3, AcceptedCodes DEF Ready
    <3>6. cmd \in Transfers => t.code # 150 /\ cmd \notin Plain
      <4>1. cmd \in Transfers => r.code # 150
        <5>1. Head(<<r>>) = r
          BY Queues
        <5>2. QED
          BY <2>9, <3>1, <5>1 DEF Ready
      <4>2. QED
        BY <3>3, <4>1 DEF Plain, Transfers
    <3>7. cmd # "CWD" => t.server.cwd = s.server.cwd
      BY <2>2, <2>5
    <3>8. QED
      BY <2>4, <2>5, <2>6, <3>3, <3>4, <3>5, <3>6, <3>7 DEF Commanded
  <2>10. QED
    BY <2>8, <2>9
<1>7. CASE u.code # 421 /\ ~(s.bucket.link = "up" /\ u.bucket = s.bucket)
  <2>1. /\ u.code = 200 /\ u.cache = s.cache /\ u.server.cwd = s.server.cwd
        /\ u.server.replies = s.server.replies
        /\ u.server.transfer = "none"
        /\ \/ /\ s.bucket.link = "up"
              /\ u.bucket = [s.bucket EXCEPT !.link = "closed"]
              /\ u.history = [s.history EXCEPT !.drops = @ + 1]
           \/ /\ s.bucket.link = "closed"
              /\ u.bucket = [s.bucket EXCEPT !.link = "reset"]
              /\ u.history = s.history /\ ~u.got_sigpipe
    <3>1. CASE /\ s.bucket.link = "up"
               /\ u.bucket = [s.bucket EXCEPT !.link = "closed"]
               /\ u.server = [s.server EXCEPT !.transfer = "none"]
               /\ u.history = [s.history EXCEPT !.drops = @ + 1]
      <4>1. /\ u.server.cwd = s.server.cwd
            /\ u.server.replies = s.server.replies
            /\ u.server.transfer = "none"
        BY <1>4, <3>1 DEF Servers
      <4>2. u.code = 200 /\ u.cache = s.cache
        BY <1>2, <1>7 DEF Told
      <4>3. QED
        BY <3>1, <4>1, <4>2
    <3>2. CASE /\ s.bucket.link = "closed"
               /\ u.bucket = [s.bucket EXCEPT !.link = "reset"]
               /\ ~u.got_sigpipe
               /\ u.server = s.server /\ u.history = s.history
      BY <1>2, <1>4, <1>7, <3>2 DEF Told, Idle
    <3>3. QED
      BY <1>2, <1>7, <3>1, <3>2 DEF Told
  <2>2. /\ u.bucket.link \in {"closed", "reset"}
        /\ u.bucket.cwd = s.bucket.cwd /\ u.bucket.strict = s.bucket.strict
        /\ u.bucket.cwd_defered = s.bucket.cwd_defered
        /\ u.bucket.linear = s.bucket.linear
        /\ u.history.astray = s.history.astray
        /\ u.history.crossed = s.history.crossed
        /\ u.history.overlooked = s.history.overlooked
        /\ u.history.hung = s.history.hung
        /\ u.history.failed = s.history.failed
    BY <1>4, <2>1 DEF Buckets, Histories
  <2>3. /\ Lost(s) => /\ s.bucket.link = "closed" /\ u.bucket.link = "reset"
                      /\ u.history.drops = s.history.drops /\ ~u.got_sigpipe
        /\ ~Lost(s) => u.history.drops = s.history.drops + 1
        /\ Lost(u) /\ s.bucket.link \notin {"none", "unset"}
        /\ s.history.drops \in Nat /\ u.history.drops >= s.history.drops
    BY <1>4, <2>1, <2>2 DEF Lost, Buckets, Histories
  <2>4. Heard(u, {cmd}, t) /\ t \in States
    <3>1. t = get_reply(u, {cmd})
      BY <1>1, <1>7
    <3>2. Heard(u, {cmd}, t)
      BY <1>2, <2>2, <3>1, Read
    <3>3. QED
      BY <3>2 DEF Heard
  <2>5. u.server \in Servers /\ u.history \in Histories
    BY <1>2 DEF States
  <2>6. /\ Settled(s, t) /\ t.bucket = u.bucket
        /\ t.got_sigpipe = u.got_sigpipe
        /\ t.server.replies = <<>> /\ t.server.transfer = "none"
        /\ t.server.cwd = s.server.cwd
        /\ t.history.astray = s.history.astray
        /\ t.history.overlooked = s.history.overlooked
        /\ t.history.hung = s.history.hung
        /\ t.history.failed = s.history.failed
        /\ t.history.drops = u.history.drops
    <3>1. /\ t.cache = s.cache /\ t.bucket = u.bucket
          /\ t.got_sigpipe = u.got_sigpipe
      BY <2>1, <2>4 DEF Heard
    <3>2. CASE s.server.replies = <<>>
      <4>1. t.server = u.server /\ t.history = u.history
        BY <2>1, <2>4, <3>2 DEF Heard
      <4>2. QED
        BY <2>1, <2>2, <3>1, <3>2, <4>1 DEF Settled
    <3>3. CASE s.server.replies # <<>>
      <4> DEFINE c == u.history.crossed
                      \/ Head(u.server.replies).of \notin {cmd}
      <4>1. PICK r \in Replies : s.server.replies = <<r>>
        BY <1>3, <3>3
      <4>2. Tail(u.server.replies) = <<>>
        BY <2>1, <4>1, Queues
      <4>3. /\ t.server = [u.server EXCEPT !.replies = Tail(@)]
            /\ t.history = [u.history EXCEPT !.crossed = c]
        BY <2>1, <2>4, <3>3 DEF Heard
      <4> HIDE DEF c
      <4>4. /\ t.server.replies = <<>> /\ t.server.transfer = "none"
            /\ t.server.cwd = s.server.cwd
        BY <2>1, <2>5, <4>2, <4>3 DEF Servers
      <4>5. /\ t.history.astray = s.history.astray
            /\ t.history.overlooked = s.history.overlooked
            /\ t.history.hung = s.history.hung
            /\ t.history.failed = s.history.failed
            /\ t.history.drops = u.history.drops
        BY <2>2, <2>5, <4>3 DEF Histories
      <4>6. QED
        BY <2>2, <3>1, <4>4, <4>5 DEF Settled
    <3>4. QED
      BY <3>2, <3>3
  <2>7. /\ s.history.crossed => t.history.crossed
        /\ s.server.replies = <<>> =>
              t.code = 421 /\ (~t.history.crossed \/ s.history.crossed)
        /\ s.server.replies # <<>> => /\ t.history.overlooked
                                      /\ t.history.crossed
                                      /\ cmd \in Transfers => t.code # 150
    <3>1. CASE s.server.replies = <<>>
      BY <2>1, <2>2, <2>4, <3>1 DEF Heard
    <3>2. CASE s.server.replies # <<>>
      <4> DEFINE c == u.history.crossed
                      \/ Head(u.server.replies).of \notin {cmd}
      <4>1. PICK r \in Replies : /\ s.server.replies = <<r>>
                                 /\ s.history.crossed \/ r.of # cmd
                                 /\ s.history.overlooked
        BY <1>3, <3>2
      <4>2. Head(u.server.replies) = r
        BY <2>1, <4>1, Queues
      <4>3. /\ t.code = r.code
            /\ t.history = [u.history EXCEPT !.crossed = c]
        BY <2>1, <2>4, <3>2, <4>2 DEF Heard
      <4>4. c
        BY <2>2, <4>1, <4>2
      <4> HIDE DEF c
      <4>5. t.history.crossed
        BY <2>5, <4>3, <4>4 DEF Histories
      <4>6. cmd \in Transfers => r.code # 150
        <5>1. Head(s.server.replies) = r
          BY <2>1, <4>2
        <5>2. QED
          BY <3>2, <5>1 DEF Ready
      <4>7. QED
        BY <2>6, <3>2, <4>1, <4>3, <4>5, <4>6
    <3>3. QED
      BY <3>1, <3>2
  <2>8. Goes(s, t) /\ Bites(s, t)
    <3>1. Lost(t) /\ (Lost(s) => Stage(s) = 0 /\ Stage(t) = 1)
      BY <2>3, <2>6 DEF Lost, Stage
    <3>2. QED
      BY <2>2, <2>3, <2>6, <2>7, <3>1 DEF Goes, Bites
  <2>9. Idle(t)
    BY <2>2, <2>6, <2>7 DEF Idle
  <2>10. Ready(t)
    BY <2>6 DEF Ready
  <2>11. cmd \in Transfers => t.code # 150
    BY <2>7
  <2>12. ~t.history.crossed => Class(t) # COMPLETE
    <3>1. ~t.history.crossed => t.code = 421
      BY <2>7
    <3>2. QED
      BY <3>1 DEF Class, COMPLETE
  <2>13. QED
    BY <2>4, <2>6, <2>8, <2>9, <2>10, <2>11, <2>12 DEF Commanded
<1>8. QED
  BY <1>5, <1>6, <1>7

-----------------------------------------------------------------------------
(* Composition.                                                             *)

\* One function after another.
LEMMA GoesOn ==
    ASSUME NEW s \in States, NEW t \in States, NEW u \in States,
           Goes(s, t), Goes(t, u)
    PROVE  /\ Goes(s, u)
           /\ Bites(s, t) \/ Bites(t, u) => Bites(s, u)
<1>1. /\ s.history.drops \in Nat /\ t.history.drops \in Nat
      /\ u.history.drops \in Nat
  BY DEF States, Histories
<1>2. /\ Stage(s) \in 0..2 /\ Stage(t) \in 0..2 /\ Stage(u) \in 0..2
  BY DEF Stage
<1>3. Lost(s) => Lost(t) /\ Lost(u) /\ Stage(u) >= Stage(s)
  BY <1>2 DEF Goes
<1>4. Goes(s, u)
  BY <1>1, <1>2, <1>3 DEF Goes
<1>5. Bites(s, t) \/ Bites(t, u) => Bites(s, u)
  BY <1>2, <1>3 DEF Goes, Bites
<1>6. QED
  BY <1>4, <1>5

\* What a function does to the state that it starts from: when it fails on a
\* lost link, it has written to it.
Effect(s, t) == Goes(s, t) /\ (~t.ok => Bites(s, t))

\* The same of functions that may fail.
LEMMA EffectsAdd ==
    ASSUME NEW s \in States, NEW t \in States, NEW u \in States,
           Effect(s, t), Effect(t, u)
    PROVE  Effect(s, u)
BY GoesOn DEF Effect

\* Nothing is done.
LEMMA NoEffect ==
    ASSUME NEW s \in States, s.ok
    PROVE  Effect(s, s)
<1>1. s.history.drops \in Nat /\ Stage(s) \in 0..2
  BY DEF States, Histories, Stage
<1>2. QED
  BY <1>1 DEF Effect, Goes

\* What is cached, and where the server is thought to be, when neither
\* changes.
LEMMA Stays ==
    ASSUME NEW s \in States, NEW t \in States, Settled(s, t), Goes(s, t),
           t.server.cwd = s.server.cwd \/ t.history.crossed,
           Placed(s), CacheOK(s)
    PROVE  Placed(t) /\ CacheOK(t)
BY DEF Settled, Goes, Placed, CacheOK
\* A function has compared the class of the reply.
LEMMA Checked ==
    ASSUME NEW s \in States, NEW class,
           NEW t, t = Check(s, class)
    PROVE  /\ t \in States /\ t.cache = s.cache /\ t.bucket = s.bucket
           /\ t.server = s.server /\ t.history = s.history
           /\ t.got_sigpipe = s.got_sigpipe /\ t.code = s.code
           /\ t.done = s.done /\ (t.ok <=> Class(s) = class)
<1> DEFINE b == Class(s) = class
<1>1. t = [s EXCEPT !.ok = b]
  BY DEF Check
<1>2. b \in BOOLEAN /\ (b <=> Class(s) = class)
  OBVIOUS
<1> HIDE DEF b
<1>3. t \in States
  BY <1>1, <1>2 DEF States
<1>4. t.ok = b
  BY <1>1 DEF States
<1>5. QED
  BY <1>1, <1>2, <1>3, <1>4 DEF States

\* States that differ in what a function returns only.
Alike(s, t) == /\ t \in States /\ t.cache = s.cache /\ t.bucket = s.bucket
               /\ t.server = s.server /\ t.history = s.history
               /\ t.got_sigpipe = s.got_sigpipe

\* States that differ in what the last function returned only.
LEMMA AlikeKeeps ==
    ASSUME NEW s \in States, NEW t, Alike(s, t)
    PROVE  /\ t \in States
           /\ \A u : /\ Goes(u, s) => Goes(u, t)
                     /\ Bites(u, s) => Bites(u, t)
                     /\ Settled(u, s) => Settled(u, t)
           /\ \A u : Goes(s, u) => Goes(t, u)
           /\ Idle(s) => Idle(t)
           /\ Placed(s) => Placed(t)
           /\ CacheOK(s) => CacheOK(t)
           /\ Ready(s) => Ready(t)
           /\ \A cmd : Busy(s, cmd) => Busy(t, cmd)
           /\ Lost(t) <=> Lost(s)
<1>1. Stage(s) = Stage(t) /\ (Lost(t) <=> Lost(s))
  BY DEF Alike, Stage, Lost
<1>2. t \in States
  BY DEF Alike
<1>3. \A u : /\ Goes(u, s) => Goes(u, t)
             /\ Bites(u, s) => Bites(u, t)
             /\ Settled(u, s) => Settled(u, t)
  BY <1>1 DEF Alike, Goes, Bites, Settled
<1>4. \A u : Goes(s, u) => Goes(t, u)
  BY <1>1 DEF Alike, Goes
<1>5. Idle(s) => Idle(t)
  BY DEF Alike, Idle
<1>6. Placed(s) => Placed(t)
  BY DEF Alike, Placed
<1>7. CacheOK(s) => CacheOK(t)
  BY DEF Alike, CacheOK
<1>8. Ready(s) => Ready(t)
  BY DEF Alike, Ready
<1>9. \A cmd : Busy(s, cmd) => Busy(t, cmd)
  BY DEF Alike, Busy
<1>10. QED
  BY <1>1, <1>2, <1>3, <1>4, <1>5, <1>6, <1>7, <1>8, <1>9

\* A plain command other than CWD, with what its reply has to be.
Asked(s, t) ==
    /\ Good(t) /\ Effect(s, t) /\ Settled(s, t)
    /\ t.server.cwd = s.server.cwd
    /\ t.ok => Ready(t)

\* A command that starts no transfer, and is not CWD.
LEMMA AskPlain ==
    ASSUME NEW s, Good(s), NEW cmd \in Plain \ {"CWD"},
           NEW class \in {COMPLETE, CONTINUE},
           NEW t \in Ask(s, cmd, NoDir, class)
    PROVE  /\ Asked(s, t)
           /\ cmd \in {"DELE", "RNTO"} /\ class = COMPLETE /\ t.ok =>
                 t.history.crossed \/ t.done
<1>1. s \in States /\ Idle(s) /\ Placed(s) /\ CacheOK(s)
  BY DEF Good
<1>2. PICK u \in command(s, cmd, NoDir) : t = Check(u, class)
  BY DEF Ask
<1>3. Commanded(s, cmd, NoDir, u)
  <2>1. cmd \notin Transfers
    BY DEF Plain, Transfers
  <2>2. QED
    BY <1>1, <2>1, Command
<1>4. /\ u \in States /\ Settled(s, u) /\ Goes(s, u) /\ Bites(s, u) /\ Idle(u)
      /\ u.server.cwd = s.server.cwd
      /\ u.code # 421 => Ready(u)
      /\ cmd \in {"DELE", "RNTO"} /\ Class(u) = COMPLETE =>
            u.history.crossed \/ u.done
  BY <1>3 DEF Commanded
<1>5. Placed(u) /\ CacheOK(u)
  BY <1>1, <1>4, Stays
<1>6. Alike(u, t) /\ t.done = u.done /\ (t.ok <=> Class(u) = class)
  BY <1>2, <1>4, Checked DEF Alike
<1>7. t.ok => Ready(u)
  <2>1. t.ok => u.code # 421
    BY <1>6 DEF Class, COMPLETE, CONTINUE
  <2>2. QED
    BY <1>4, <2>1
<1>8. Goes(s, t) /\ Bites(s, t) /\ Settled(s, t) /\ Good(t)
  BY <1>4, <1>5, <1>6, AlikeKeeps DEF Good
<1>9. t.server = u.server /\ (Ready(u) => Ready(t))
  BY <1>4, <1>6, AlikeKeeps DEF Alike
<1>10. t.history = u.history
  BY <1>6 DEF Alike
<1>11. QED
  BY <1>4, <1>6, <1>7, <1>8, <1>9, <1>10 DEF Asked, Effect

\* One command after another.
LEMMA AskedOn ==
    ASSUME NEW s \in States, NEW t \in States, NEW u,
           Asked(s, t), Asked(t, u)
    PROVE  Asked(s, u)
<1>1. u \in States
  BY DEF Asked, Good
<1>2. Effect(s, u)
  BY <1>1, EffectsAdd DEF Asked
<1>3. Settled(s, u)
  BY DEF Asked, Settled
<1>4. QED
  BY <1>2, <1>3 DEF Asked

\* No command is needed.
LEMMA NotAsked ==
    ASSUME NEW s, Good(s), s.ok, Ready(s)
    PROVE  Asked(s, s)
BY NoEffect DEF Asked, Good, Settled

\* Passive mode is given up, a type is set, an attempt begins: fields that no
\* property looks at.
LEMMA Aside ==
    ASSUME NEW s, Good(s), NEW t \in States, t.server = s.server,
           t.history = s.history, t.cache = s.cache,
           t.got_sigpipe = s.got_sigpipe,
           t.bucket.link = s.bucket.link, t.bucket.linear = s.bucket.linear,
           t.bucket.cwd = s.bucket.cwd,
           t.bucket.cwd_defered = s.bucket.cwd_defered
    PROVE  /\ Good(t)
           /\ Goes(s, t)
           /\ t.bucket.strict = s.bucket.strict => Settled(s, t)
           /\ Ready(s) => Ready(t)
<1>1. Stage(s) = Stage(t) /\ (Lost(t) <=> Lost(s))
  BY DEF Stage, Lost
<1>2. s.history.drops \in Nat /\ Stage(s) \in 0..2
  BY DEF Good, States, Histories, Stage
<1>3. Goes(s, t)
  BY <1>1, <1>2 DEF Goes
<1>4. Good(t)
  BY DEF Good, Idle, Placed, CacheOK
<1>5. QED
  BY <1>3, <1>4 DEF Settled, Ready

\* PORT, which tells the server where to connect.
LEMMA Port ==
    ASSUME NEW s, Good(s), NEW t \in port(s)
    PROVE  Asked(s, t)
<1>1. t \in Ask(s, "PORT", NoDir, COMPLETE)
  BY DEF port
<1>2. QED
  BY <1>1, AskPlain DEF Plain

\* initconn, in passive mode or, when that fails, with PORT.
LEMMA Connection ==
    ASSUME NEW s, Good(s), NEW t \in initconn(s)
    PROVE  Asked(s, t)
<1>1. CASE ~s.bucket.use_passive
  BY <1>1, Port DEF initconn
<1>2. CASE s.bucket.use_passive
  <2>1. PICK u \in Ask(s, "PASV", NoDir, COMPLETE) :
           \/ t \in port([u EXCEPT !.bucket.use_passive = FALSE])
           \/ u.ok /\ t = u
    BY <1>2, Zenon DEF initconn, Each
  <2>2. Asked(s, u)
    BY <2>1, AskPlain DEF Plain
  <2> DEFINE v == [u EXCEPT !.bucket.use_passive = FALSE]
  <2>3. CASE t \in port(v)
    <3>1. u \in States /\ Good(u)
      BY <2>2 DEF Asked, Good
    <3>2. v.bucket = [u.bucket EXCEPT !.use_passive = FALSE]
      BY <3>1 DEF States
    <3>3. v.bucket \in Buckets
      BY <3>1, <3>2 DEF States, Buckets
    <3>4. v \in States
      BY <3>1, <3>3 DEF States
    <3>5. /\ v.server = u.server /\ v.history = u.history
          /\ v.cache = u.cache /\ v.got_sigpipe = u.got_sigpipe
          /\ v.ok = u.ok
      BY <3>1 DEF States
    <3>6. /\ v.bucket.link = u.bucket.link
          /\ v.bucket.linear = u.bucket.linear
          /\ v.bucket.cwd = u.bucket.cwd
          /\ v.bucket.cwd_defered = u.bucket.cwd_defered
          /\ v.bucket.strict = u.bucket.strict
      BY <3>1, <3>2 DEF States, Buckets
    <3> HIDE DEF v
    <3>7. Good(v) /\ Goes(u, v) /\ Settled(u, v)
      BY <3>1, <3>4, <3>5, <3>6, Aside
    <3>8. Asked(v, t)
      BY <2>3, <3>7, Port
    <3>9. s \in States /\ t \in States
      BY <3>8 DEF Asked, Good
    <3>10. Goes(s, v)
      BY <2>2, <3>1, <3>4, <3>7, <3>9, GoesOn DEF Asked, Effect
    <3>11. Effect(s, t)
      BY <3>4, <3>8, <3>9, <3>10, GoesOn DEF Asked, Effect
    <3>12. Settled(s, t) /\ t.server.cwd = s.server.cwd
      BY <2>2, <3>5, <3>7, <3>8 DEF Asked, Settled
    <3>13. QED
      BY <3>8, <3>11, <3>12 DEF Asked
  <2>4. QED
    BY <2>1, <2>2, <2>3
<1>3. QED
  BY <1>1, <1>2

\* changetype, when the type is another.
LEMMA Typed ==
    ASSUME NEW s, Good(s), s.ok, Ready(s), NEW type \in Types,
           NEW t \in changetype(s, type)
    PROVE  Asked(s, t)
<1>1. CASE t = s
  BY <1>1, NotAsked
<1>2. CASE t # s
  <2>1. PICK u \in Ask(s, "TYPE", NoDir, COMPLETE) :
           t = IF u.ok THEN [u EXCEPT !.bucket.type = type] ELSE u
    BY <1>2, Zenon DEF changetype
  <2>2. Asked(s, u)
    BY <2>1, AskPlain DEF Plain
  <2>3. CASE u.ok
    <3>1. u \in States /\ Good(u) /\ Ready(u)
      BY <2>2, <2>3 DEF Asked, Good
    <3>2. t = [u EXCEPT !.bucket.type = type]
      BY <2>1, <2>3
    <3>3. t.bucket = [u.bucket EXCEPT !.type = type]
      BY <3>1, <3>2 DEF States
    <3>4. t.bucket \in Buckets
      BY <3>1, <3>3 DEF States, Buckets
    <3>5. t \in States
      BY <3>1, <3>2, <3>4 DEF States
    <3>6. /\ t.server = u.server /\ t.history = u.history
          /\ t.cache = u.cache /\ t.got_sigpipe = u.got_sigpipe
          /\ t.ok = u.ok
      BY <3>1, <3>2 DEF States
    <3>7. /\ t.bucket.link = u.bucket.link
          /\ t.bucket.linear = u.bucket.linear
          /\ t.bucket.cwd = u.bucket.cwd
          /\ t.bucket.cwd_defered = u.bucket.cwd_defered
          /\ t.bucket.strict = u.bucket.strict
      BY <3>1, <3>3 DEF States, Buckets
    <3>8. Good(t) /\ Goes(u, t) /\ Settled(u, t) /\ Ready(t)
      BY <3>1, <3>5, <3>6, <3>7, Aside
    <3>9. Goes(s, t)
      BY <2>2, <3>1, <3>5, <3>8, GoesOn DEF Asked, Effect, Good
    <3>10. Settled(s, t) /\ t.server.cwd = s.server.cwd
      BY <2>2, <3>6, <3>8 DEF Asked, Settled
    <3>11. QED
      BY <2>3, <3>6, <3>8, <3>9, <3>10 DEF Asked, Effect
  <2>4. QED
    BY <2>1, <2>2, <2>3
<1>3. QED
  BY <1>1, <1>2

\* A transfer that the server has agreed to, or not.
Opened(s, cmd, t) ==
    /\ t \in States /\ Placed(t) /\ CacheOK(t)
    /\ Effect(s, t) /\ Settled(s, t) /\ t.server.cwd = s.server.cwd
    /\ IF t.ok THEN Busy(t, cmd) /\ t.bucket.link = "up" /\ ~Lost(s)
               ELSE Idle(t)

\* The command that starts a transfer.
LEMMA AskTransfer ==
    ASSUME NEW s, Good(s), Ready(s), NEW cmd \in Transfers,
           NEW dir \in Dirs \cup {NoDir}, NEW t \in Ask(s, cmd, dir, PRELIM)
    PROVE  Opened(s, cmd, t)
<1>1. s \in States /\ Idle(s) /\ Placed(s) /\ CacheOK(s)
  BY DEF Good
<1>2. PICK u \in command(s, cmd, dir) : t = Check(u, PRELIM)
  BY DEF Ask
<1>3. cmd # "CWD"
  BY DEF Transfers
<1>4. Commanded(s, cmd, dir, u)
  BY <1>1, <1>3, Command
<1>5. /\ u \in States /\ Settled(s, u) /\ Goes(s, u) /\ Bites(s, u)
      /\ u.server.cwd = s.server.cwd
      /\ IF u.code = 150
         THEN Busy(u, cmd) /\ u.bucket.link = "up" /\ ~Lost(s)
         ELSE Idle(u)
  BY <1>3, <1>4 DEF Commanded
<1>6. Placed(u) /\ CacheOK(u)
  BY <1>1, <1>5, Stays
<1>7. Alike(u, t) /\ (t.ok <=> Class(u) = PRELIM)
  BY <1>2, <1>5, Checked DEF Alike
<1>8. Class(u) = PRELIM <=> u.code = 150
  BY <1>5 DEF Class, PRELIM, States, Results, Codes
<1>9. /\ t \in States /\ Placed(t) /\ CacheOK(t)
      /\ Goes(s, t) /\ Bites(s, t) /\ Settled(s, t)
      /\ Busy(u, cmd) => Busy(t, cmd)
      /\ Idle(u) => Idle(t)
  BY <1>5, <1>6, <1>7, AlikeKeeps
<1>10. t.server = u.server /\ t.bucket = u.bucket
  BY <1>7 DEF Alike
<1>11. QED
  BY <1>5, <1>7, <1>8, <1>9, <1>10 DEF Opened, Effect

\* A function fails.
LEMMA Failed ==
    ASSUME NEW s \in States, NEW t, t = Fails(s)
    PROVE  Alike(s, t) /\ ~t.ok /\ t.done = s.done
BY DEF Fails, States, Alike

\* The user interrupts the wait for the server to connect.
LEMMA Accepting ==
    ASSUME NEW s \in States, NEW cmd \in Transfers, Busy(s, cmd),
           s.bucket.link = "up", Placed(s), CacheOK(s), NEW t \in accept(s)
    PROVE  \/ t = s
           \/ /\ t \in States /\ ~t.ok /\ Idle(t) /\ Placed(t) /\ CacheOK(t)
              /\ Goes(s, t) /\ Settled(s, t) /\ t.server.cwd = s.server.cwd
<1>1. SUFFICES ASSUME t # s
               PROVE  /\ t \in States /\ ~t.ok
                      /\ Idle(t) /\ Placed(t) /\ CacheOK(t)
                      /\ Goes(s, t) /\ Settled(s, t)
                      /\ t.server.cwd = s.server.cwd
  OBVIOUS
<1>2. PICK a : a = Answer(s, s.server.transfer, 425)
  OBVIOUS
<1>3. PICK b : b = [a EXCEPT !.server.transfer = "none",
                             !.history.overlooked = TRUE]
  OBVIOUS
<1>4. t = Fails(b)
  BY <1>1, <1>2, <1>3 DEF accept
<1>5. PICK r \in Replies : r.of = cmd /\ r.code = 425 /\ Queued(s, r, a)
  <2>1. s.server.transfer = cmd /\ cmd \in Commands /\ 425 \in Codes
    BY DEF Busy, Commands, Codes
  <2>2. QED
    BY <1>2, <2>1, Replied
<1>6. /\ a \in States /\ a.cache = s.cache /\ a.bucket = s.bucket
      /\ a.history = s.history /\ a.got_sigpipe = s.got_sigpipe
      /\ a.server = [s.server EXCEPT !.replies = Append(@, r)]
  BY <1>5 DEF Queued
<1>7. a.server.replies = <<r>> /\ a.server.cwd = s.server.cwd
  <2>1. s.server.replies = <<>> /\ s.server \in Servers
    BY DEF Busy, States
  <2>2. Append(<<>>, r) = <<r>>
    BY Queues
  <2>3. QED
    BY <1>6, <2>1, <2>2 DEF Servers
<1>8. /\ b.server = [a.server EXCEPT !.transfer = "none"]
      /\ b.history = [a.history EXCEPT !.overlooked = TRUE]
      /\ b.cache = a.cache /\ b.bucket = a.bucket
      /\ b.got_sigpipe = a.got_sigpipe
  BY <1>3, <1>6 DEF States
<1>9. b.server \in Servers /\ b.history \in Histories
  BY <1>6, <1>8 DEF States, Servers, Histories
<1>10. b \in States
  BY <1>3, <1>6, <1>8, <1>9 DEF States
<1>11. /\ b.server.replies = <<r>> /\ b.server.cwd = s.server.cwd
       /\ b.server.transfer = "none"
  BY <1>6, <1>7, <1>8 DEF States, Servers
<1>12. /\ b.history.crossed = s.history.crossed
       /\ b.history.hung = s.history.hung
       /\ b.history.overlooked
       /\ b.history.astray = s.history.astray
       /\ b.history.drops = s.history.drops
       /\ b.history.failed = s.history.failed
  BY <1>6, <1>8 DEF States, Histories
<1>13. Idle(b)
  <2>1. r.of \notin Plain
    BY <1>5 DEF Plain, Transfers
  <2>2. ~s.history.crossed /\ ~s.history.hung
    BY DEF Busy
  <2>3. QED
    BY <1>11, <1>12, <2>1, <2>2 DEF Idle
<1>14. Goes(s, b) /\ Settled(s, b)
  BY <1>6, <1>8, <1>12 DEF Goes, Settled, Lost, States, Histories
<1>15. Placed(b) /\ CacheOK(b)
  BY <1>10, <1>11, <1>14, Stays
<1>16. Alike(b, t) /\ ~t.ok
  BY <1>4, <1>10, Failed
<1>17. t.server = b.server
  BY <1>16 DEF Alike
<1>18. QED
  BY <1>10, <1>11, <1>13, <1>14, <1>15, <1>16, <1>17, AlikeKeeps

\* open_data_connection, with all its commands.
LEMMA Opening ==
    ASSUME NEW s, Good(s), NEW cmd \in Transfers,
           NEW dir \in Dirs \cup {NoDir}, NEW type \in Types, NEW reget,
           NEW t \in open_data_connection(s, cmd, dir, type, reget)
    PROVE  Opened(s, cmd, t)
<1> DEFINE typed == Then(initconn(s), LAMBDA v : changetype(v, type))
           placed == IF reget
                     THEN Then(typed, LAMBDA v :
                                   Ask(v, "REST", NoDir, CONTINUE))
                     ELSE typed
           asked == Then(placed, LAMBDA v : Ask(v, cmd, dir, PRELIM))
<1>1. ASSUME NEW u \in typed PROVE Asked(s, u)
  <2>1. PICK v \in initconn(s) :
           u \in IF v.ok THEN changetype(v, type) ELSE {v}
    BY DEF Then
  <2>2. Asked(s, v)
    BY <2>1, Connection
  <2>3. CASE v.ok
    <3>1. Asked(v, u)
      BY <2>1, <2>2, <2>3, Typed DEF Asked
    <3>2. s \in States /\ v \in States
      BY <2>2 DEF Asked, Good
    <3>3. QED
      BY <2>2, <3>1, <3>2, AskedOn
  <2>4. QED
    BY <2>1, <2>2, <2>3
<1>2. ASSUME NEW u \in placed PROVE Asked(s, u)
  <2>1. CASE ~reget
    BY <1>1, <1>2, <2>1
  <2>2. CASE reget
    <3>1. PICK v \in typed :
             u \in IF v.ok THEN Ask(v, "REST", NoDir, CONTINUE) ELSE {v}
      BY <1>2, <2>2 DEF Then
    <3>2. Asked(s, v)
      BY <1>1, <3>1
    <3>3. CASE v.ok
      <4>1. Asked(v, u)
        BY <3>1, <3>2, <3>3, AskPlain DEF Asked, Plain
      <4>2. s \in States /\ v \in States
        BY <3>2 DEF Asked, Good
      <4>3. QED
        BY <3>2, <4>1, <4>2, AskedOn
    <3>4. QED
      BY <3>1, <3>2, <3>3
  <2>3. QED
    BY <2>1, <2>2
<1>3. ASSUME NEW u \in asked PROVE Opened(s, cmd, u)
  <2>1. PICK v \in placed :
           u \in IF v.ok THEN Ask(v, cmd, dir, PRELIM) ELSE {v}
    BY <1>3 DEF Then
  <2>2. Asked(s, v)
    BY <1>2, <2>1
  <2>3. s \in States /\ v \in States /\ Good(v)
    BY <2>2 DEF Asked, Good
  <2>4. CASE v.ok
    <3>1. Opened(v, cmd, u)
      BY <2>1, <2>2, <2>3, <2>4, AskTransfer DEF Asked
    <3>2. Effect(s, u)
      BY <2>2, <2>3, <3>1, EffectsAdd DEF Asked, Opened
    <3>3. Lost(s) => Lost(v)
      BY <2>2 DEF Asked, Effect, Goes
    <3>4. Settled(s, u) /\ u.server.cwd = s.server.cwd
      BY <2>2, <3>1 DEF Asked, Opened, Settled
    <3>5. QED
      BY <3>1, <3>2, <3>3, <3>4 DEF Opened
  <2>5. CASE ~v.ok
    BY <2>1, <2>2, <2>5 DEF Asked, Opened, Good
  <2>6. QED
    BY <2>4, <2>5
<1>4. PICK u \in asked : t \in IF u.ok THEN accept(u) ELSE {u}
  BY DEF open_data_connection, Then
<1> HIDE DEF asked
<1>5. Opened(s, cmd, u)
  BY <1>3
<1>6. CASE u.ok /\ t # u
  <2>1. /\ u \in States /\ Busy(u, cmd) /\ u.bucket.link = "up"
        /\ Placed(u) /\ CacheOK(u) /\ Goes(s, u) /\ Settled(s, u)
        /\ u.server.cwd = s.server.cwd /\ ~Lost(s)
    BY <1>5, <1>6 DEF Opened, Effect
  <2>2. /\ t \in States /\ ~t.ok /\ Idle(t) /\ Placed(t) /\ CacheOK(t)
        /\ Goes(u, t) /\ Settled(u, t) /\ t.server.cwd = u.server.cwd
    BY <1>4, <1>6, <2>1, Accepting
  <2>3. Goes(s, t) /\ Bites(s, t)
    BY <2>1, <2>2, GoesOn DEF Good, Bites
  <2>4. Settled(s, t)
    BY <2>1, <2>2 DEF Settled
  <2>5. QED
    BY <2>1, <2>2, <2>3, <2>4 DEF Opened, Effect
<1>7. QED
  BY <1>4, <1>5, <1>6

-----------------------------------------------------------------------------
(* The end of a transfer.                                                   *)

\* What the rest of a transfer leaves alone.
Within(s, t) == /\ t \in States /\ Goes(s, t) /\ Settled(s, t)
                /\ t.server.cwd = s.server.cwd

\* One part of a transfer after another.
LEMMA WithinOn ==
    ASSUME NEW s \in States, NEW t, NEW u, Within(s, t), Within(t, u)
    PROVE  Within(s, u)
<1>1. Goes(s, u)
  BY GoesOn DEF Within
<1>2. QED
  BY <1>1 DEF Within, Settled

\* Nothing is done.
LEMMA WithinSame ==
    ASSUME NEW s \in States, NEW t, Alike(s, t)
    PROVE  Within(s, t)
<1>1. Goes(s, s) /\ Settled(s, s)
  BY DEF Goes, Settled, States, Histories, Stage
<1>2. QED
  BY <1>1, AlikeKeeps DEF Within, Alike

\* What is cached, and where the server is thought to be.
LEMMA WithinStays ==
    ASSUME NEW s \in States, NEW t, Within(s, t), Placed(s), CacheOK(s)
    PROVE  Placed(t) /\ CacheOK(t)
BY Stays DEF Within

\* The server has ended a transfer, or is gone.
Over(s, cmd, t) ==
    /\ Within(s, t)
    /\ t.server.transfer = "none" /\ ~t.history.crossed /\ ~t.history.hung
    /\ \/ /\ t.bucket.link = "up"
          /\ \E r \in Replies : /\ t.server.replies = <<r>> /\ r.of = cmd
                                /\ r.code \in {226, 426}
       \/ t.bucket.link = "closed" /\ t.server.replies = <<>>

\* Who reads that a transfer is complete may say so.
Faithful(t) == \A r \in Replies :
                   t.server.replies = <<r>> /\ r.code = 226 => t.done

\* Whichever way a transfer ends.
LEMMA Ending ==
    ASSUME NEW s \in States, NEW cmd \in Transfers, Busy(s, cmd),
           NEW t \in Ends(s, cmd)
    PROVE  Over(s, cmd, t) /\ Faithful(t)
<1>1. /\ s.bucket \in Buckets /\ s.server \in Servers
      /\ s.history \in Histories
  BY DEF States
<1>2. CASE s.bucket.link # "up"
  <2>1. s.server.transfer = "none" /\ s.bucket.link = "closed"
    BY <1>2 DEF Busy
  <2>2. t = s
    BY <2>1 DEF Ends
  <2>3. Within(s, t)
    BY <2>2, WithinSame DEF Alike
  <2>4. Faithful(t)
    BY <2>2, Queues DEF Faithful, Busy
  <2>5. QED
    BY <2>1, <2>2, <2>3, <2>4 DEF Busy, Over
<1>3. CASE s.bucket.link = "up"
  <2>1. s.server.transfer = cmd /\ cmd # "none" /\ cmd \in Commands
    BY <1>3 DEF Busy, Transfers, Commands
  <2>2. PICK e : e = [s EXCEPT !.server.transfer = "none"]
    OBVIOUS
  <2>3. /\ e.server = [s.server EXCEPT !.transfer = "none"]
        /\ e.bucket = s.bucket /\ e.history = s.history
        /\ e.cache = s.cache /\ e.got_sigpipe = s.got_sigpipe
    BY <2>2 DEF States
  <2>4. e.server \in Servers
    BY <1>1, <2>3 DEF Servers
  <2>5. e \in States
    BY <2>2, <2>3, <2>4 DEF States
  <2>6. \/ t = [Answer(e, cmd, 226) EXCEPT !.done = TRUE]
        \/ t = Answer(e, cmd, 426)
        \/ t \in HangUp(s)
    BY <2>1, <2>2 DEF Ends
  <2>7. ASSUME NEW code \in {226, 426}, NEW r \in Replies, r.of = cmd,
               r.code = code, NEW a, Queued(e, r, a),
               Alike(a, t), code = 226 => t.done
        PROVE  Over(s, cmd, t) /\ Faithful(t)
    <3>1. /\ a \in States /\ a.cache = e.cache /\ a.bucket = e.bucket
          /\ a.history = e.history /\ a.got_sigpipe = e.got_sigpipe
          /\ a.server = [e.server EXCEPT !.replies = Append(@, r)]
      BY <2>7 DEF Queued
    <3>2. /\ a.server.replies = <<r>> /\ a.server.transfer = "none"
          /\ a.server.cwd = s.server.cwd
      <4>1. e.server.replies = <<>> /\ Append(<<>>, r) = <<r>>
        BY <1>1, <2>3, Queues DEF Busy, Servers
      <4>2. e.server.transfer = "none" /\ e.server.cwd = s.server.cwd
        BY <1>1, <2>3 DEF Servers
      <4>3. /\ a.server.replies = Append(e.server.replies, r)
            /\ a.server.transfer = e.server.transfer
            /\ a.server.cwd = e.server.cwd
        BY <2>4, <3>1 DEF Servers
      <4>4. QED
        BY <4>1, <4>2, <4>3
    <3>3. /\ t \in States /\ t.server = a.server /\ t.bucket = s.bucket
          /\ t.history = s.history /\ t.cache = s.cache
          /\ t.got_sigpipe = s.got_sigpipe
      BY <2>3, <2>7, <3>1 DEF Alike
    <3>4. Goes(s, t) /\ Settled(s, t)
      BY <1>1, <3>3 DEF Goes, Settled, Lost, Stage, Histories
    <3>5. Faithful(t)
      BY <2>7, <3>2, <3>3, Queues DEF Faithful
    <3>6. QED
      BY <1>3, <2>7, <3>2, <3>3, <3>4, <3>5 DEF Over, Within, Busy
  <2>8. CASE t = [Answer(e, cmd, 226) EXCEPT !.done = TRUE]
    <3>1. PICK a : a = Answer(e, cmd, 226)
      OBVIOUS
    <3>2. PICK r \in Replies : r.of = cmd /\ r.code = 226 /\ Queued(e, r, a)
      BY <2>1, <2>5, <3>1, Replied DEF Codes
    <3>3. a \in States /\ t = [a EXCEPT !.done = TRUE]
      BY <2>8, <3>1, <3>2 DEF Queued
    <3>4. t \in States /\ t.done
      BY <3>3 DEF States
    <3>5. /\ t.cache = a.cache /\ t.bucket = a.bucket
          /\ t.server = a.server /\ t.history = a.history
          /\ t.got_sigpipe = a.got_sigpipe
      BY <3>3 DEF States
    <3>6. Alike(a, t)
      BY <3>4, <3>5 DEF Alike
    <3>7. QED
      BY <2>7, <3>2, <3>4, <3>6
  <2>9. CASE t = Answer(e, cmd, 426)
    <3>1. PICK r \in Replies : r.of = cmd /\ r.code = 426 /\ Queued(e, r, t)
      BY <2>1, <2>5, <2>9, Replied DEF Codes
    <3>2. Alike(t, t)
      BY <3>1 DEF Queued, Alike
    <3>3. QED
      BY <2>7, <3>1, <3>2
  <2>10. CASE t \in HangUp(s)
    <3>1. /\ t \in States /\ t.cache = s.cache
          /\ t.bucket = [s.bucket EXCEPT !.link = "closed"]
          /\ t.server = [s.server EXCEPT !.transfer = "none"]
          /\ t.history = [s.history EXCEPT !.drops = @ + 1]
      BY <2>10, HungUp
    <3>2. /\ t.bucket.link = "closed" /\ t.bucket.cwd = s.bucket.cwd
          /\ t.bucket.strict = s.bucket.strict
          /\ t.bucket.cwd_defered = s.bucket.cwd_defered
          /\ t.bucket.linear = s.bucket.linear
      BY <1>1, <3>1 DEF Buckets
    <3>3. /\ t.server.replies = s.server.replies
          /\ t.server.cwd = s.server.cwd /\ t.server.transfer = "none"
      BY <1>1, <3>1 DEF Servers
    <3>4. /\ t.history.crossed = s.history.crossed
          /\ t.history.hung = s.history.hung
          /\ t.history.overlooked = s.history.overlooked
          /\ t.history.astray = s.history.astray
          /\ t.history.failed = s.history.failed
          /\ t.history.drops = s.history.drops + 1
          /\ s.history.drops \in Nat
      BY <1>1, <3>1 DEF Histories
    <3>5. Goes(s, t) /\ Settled(s, t)
      BY <1>3, <3>1, <3>2, <3>4 DEF Goes, Settled, Lost
    <3>6. Faithful(t)
      <4>1. t.server.replies = <<>>
        BY <3>3 DEF Busy
      <4>2. QED
        BY <4>1, Queues DEF Faithful
    <3>7. QED
      BY <3>1, <3>2, <3>3, <3>4, <3>5, <3>6 DEF Over, Within, Busy
  <2>11. QED
    BY <2>6, <2>8, <2>9, <2>10
<1>4. QED
  BY <1>2, <1>3

\* The last reply has been read, or does not come.
LEMMA LastReply ==
    ASSUME NEW s \in States, NEW cmd \in Transfers, NEW u, Over(s, cmd, u),
           NEW t, t = Answered(u, cmd)
    PROVE  /\ Within(s, t) /\ Idle(t) /\ ~t.history.crossed
           /\ t.bucket.link \in {"up", "closed"}
           /\ t.ok /\ Faithful(u) => t.done
<1>1. u \in States /\ u.server \in Servers /\ u.history \in Histories
  BY DEF Over, Within, States
<1>2. PICK v : v = get_reply(u, {cmd})
  OBVIOUS
<1>3. t = Check(v, COMPLETE)
  BY <1>2 DEF Answered
<1>4. u.server.replies # <<>> \/ u.bucket.link # "up"
  BY Queues DEF Over
<1>5. Heard(u, {cmd}, v)
  BY <1>1, <1>2, <1>4, Read
<1>6. /\ v \in States /\ v.cache = u.cache /\ v.done = u.done
      /\ v.bucket = u.bucket /\ v.got_sigpipe = u.got_sigpipe
  BY <1>5 DEF Heard
<1>7. /\ v.server.replies = <<>> /\ v.server.transfer = "none"
      /\ v.server.cwd = u.server.cwd
      /\ ~v.history.crossed /\ ~v.history.hung
      /\ v.history.overlooked = u.history.overlooked
      /\ v.history.astray = u.history.astray
      /\ v.history.failed = u.history.failed
      /\ v.history.drops = u.history.drops
      /\ Class(v) = COMPLETE /\ Faithful(u) => v.done
  <2>1. CASE u.server.replies = <<>>
    <3>1. v.code = 421 /\ v.server = u.server /\ v.history = u.history
      BY <1>5, <2>1 DEF Heard
    <3>2. Class(v) # COMPLETE
      BY <3>1 DEF Class, COMPLETE
    <3>3. QED
      BY <2>1, <3>1, <3>2 DEF Over
  <2>2. CASE u.server.replies # <<>>
    <3> DEFINE c == u.history.crossed
                    \/ Head(u.server.replies).of \notin {cmd}
    <3>1. PICK r \in Replies : /\ u.server.replies = <<r>> /\ r.of = cmd
                               /\ r.code \in {226, 426}
      BY <2>2 DEF Over
    <3>2. Head(u.server.replies) = r /\ Tail(u.server.replies) = <<>>
      BY <3>1, Queues
    <3>3. /\ v.code = r.code
          /\ v.server = [u.server EXCEPT !.replies = Tail(@)]
          /\ v.history = [u.history EXCEPT !.crossed = c]
      BY <1>5, <2>2, <3>2 DEF Heard
    <3>4. ~c /\ u.history.crossed = FALSE
      BY <1>1, <3>1, <3>2 DEF Over, Histories
    <3> HIDE DEF c
    <3>5. /\ v.server.replies = <<>> /\ v.server.transfer = "none"
          /\ v.server.cwd = u.server.cwd
      BY <1>1, <3>2, <3>3 DEF Servers, Over
    <3>6. /\ ~v.history.crossed /\ ~v.history.hung
          /\ v.history.overlooked = u.history.overlooked
          /\ v.history.astray = u.history.astray
          /\ v.history.failed = u.history.failed
          /\ v.history.drops = u.history.drops
      BY <1>1, <3>3, <3>4 DEF Histories, Over
    <3>7. Class(v) = COMPLETE /\ Faithful(u) => v.done
      BY <1>6, <3>1, <3>3 DEF Class, COMPLETE, Faithful
    <3>8. QED
      BY <3>5, <3>6, <3>7
  <2>3. QED
    BY <2>1, <2>2
<1>8. Within(u, v)
  <2>1. Stage(u) = Stage(v) /\ (Lost(v) <=> Lost(u)) /\ Stage(u) \in 0..2
    BY <1>6 DEF Stage, Lost
  <2>2. u.history.drops \in Nat /\ u.history.crossed = FALSE
    BY <1>1 DEF Histories, Over
  <2>3. QED
    BY <1>6, <1>7, <2>1, <2>2 DEF Within, Goes, Settled
<1>9. Idle(v)
  BY <1>7 DEF Idle
<1>10. Alike(v, t) /\ t.done = v.done /\ (t.ok <=> Class(v) = COMPLETE)
  BY <1>3, <1>6, Checked DEF Alike
<1>11. Within(s, t)
  BY <1>6, <1>8, <1>10, WithinSame, WithinOn DEF Over
<1>12. Idle(t)
  BY <1>6, <1>9, <1>10, AlikeKeeps
<1>13. t.history = v.history /\ t.bucket = u.bucket
  BY <1>6, <1>10 DEF Alike
<1>14. QED
  BY <1>7, <1>10, <1>11, <1>12, <1>13 DEF Over


-----------------------------------------------------------------------------
(* Aborting a transfer.                                                     *)

\* A reply that is read by who waits for it, or that does not come.
InTurn(s, t) ==
    /\ Within(s, t) /\ t.history = s.history /\ t.bucket = s.bucket
    /\ t.ok = s.ok /\ t.server.transfer = s.server.transfer
    /\ s.server.replies = <<>> => t.server.replies = <<>> /\ t.code = 421
    /\ s.server.replies # <<>> =>
          /\ t.server.replies = Tail(s.server.replies)
          /\ t.code = Head(s.server.replies).code

\* The next reply, if one comes, is to a transfer or an abort.
Awaited(s) ==
    \/ s.server.replies = <<>> /\ s.bucket.link # "up"
    \/ \E r \in Replies, q \in Replies :
          /\ r.of \notin Plain
          /\ s.server.replies \in {<<r>>, <<r, q>>}

\* The reply is not mistaken for another.
LEMMA ReadAborting ==
    ASSUME NEW s \in States, ~s.history.crossed, Awaited(s),
           NEW t, t = get_reply(s, Transfers \cup {"ABOR"})
    PROVE  InTurn(s, t)
<1> DEFINE cmds == Transfers \cup {"ABOR"}
           c == s.history.crossed \/ Head(s.server.replies).of \notin cmds
<1>1. s.server \in Servers /\ s.history \in Histories
  BY DEF States
<1>2. s.server.replies # <<>> \/ s.bucket.link # "up"
  BY Queues DEF Awaited
<1>3. Heard(s, cmds, t)
  BY <1>2, Read
<1>4. /\ t \in States /\ t.cache = s.cache /\ t.bucket = s.bucket
      /\ t.got_sigpipe = s.got_sigpipe /\ t.ok = s.ok
  BY <1>3 DEF Heard
<1>5. /\ t.history = s.history /\ t.server.cwd = s.server.cwd
      /\ t.server.transfer = s.server.transfer
      /\ s.server.replies = <<>> =>
            t.server.replies = <<>> /\ t.code = 421
      /\ s.server.replies # <<>> =>
            /\ t.server.replies = Tail(s.server.replies)
            /\ t.code = Head(s.server.replies).code
  <2>1. CASE s.server.replies = <<>>
    BY <1>3, <2>1 DEF Heard
  <2>2. CASE s.server.replies # <<>>
    <3>1. PICK r \in Replies, q \in Replies :
             /\ r.of \notin Plain
             /\ s.server.replies \in {<<r>>, <<r, q>>}
      BY <2>2 DEF Awaited
    <3>2. Head(s.server.replies) = r
      BY <3>1, Queues
    <3>3. r.of \in cmds
      BY <3>1 DEF Replies, Commands
    <3>4. /\ t.code = Head(s.server.replies).code
          /\ t.server = [s.server EXCEPT !.replies = Tail(@)]
          /\ t.history = [s.history EXCEPT !.crossed = c]
      BY <1>3, <2>2 DEF Heard
    <3>5. c = FALSE /\ s.history.crossed = FALSE
      BY <1>1, <3>2, <3>3 DEF Histories
    <3> HIDE DEF c
    <3>6. t.history = s.history
      BY ZenonT(60), <1>1, <3>4, <3>5 DEF Histories
    <3>7. /\ t.server.replies = Tail(s.server.replies)
          /\ t.server.cwd = s.server.cwd
          /\ t.server.transfer = s.server.transfer
      BY <1>1, <3>4 DEF Servers
    <3>8. QED
      BY <2>2, <3>4, <3>6, <3>7
  <2>3. QED
    BY <2>1, <2>2
<1>6. Goes(s, t) /\ Settled(s, t)
  BY <1>1, <1>4, <1>5 DEF Goes, Settled, Lost, Stage, Histories
<1>7. QED
  BY <1>4, <1>5, <1>6 DEF Within, InTurn

\* What an abort may find: at most the end of a transfer, and the answer to
\* the abort itself.
Aborting(s) ==
    /\ s \in States /\ ~s.history.crossed /\ ~s.history.hung
    /\ s.server.transfer = "none"
    /\ \/ s.server.replies = <<>> /\ s.bucket.link # "up"
       \/ \E r \in Replies :
             /\ s.server.replies = <<r>> /\ r.of \notin Plain
             /\ s.bucket.link # "up" \/ r.code # 426
       \/ \E r \in Replies, q \in Replies :
             /\ s.server.replies = <<r, q>>
             /\ r.of \notin Plain /\ q.of \notin Plain
             /\ r.code = 426 \/ s.history.overlooked

\* The second reply is read when the first says that there is one.
LEMMA AbortRead ==
    ASSUME NEW s, Aborting(s), NEW t, t = AbortReplies(s)
    PROVE  /\ Within(s, t) /\ Idle(t) /\ ~t.history.crossed
           /\ t.ok = s.ok
<1>1. /\ s \in States /\ ~s.history.crossed /\ ~s.history.hung
      /\ s.server.transfer = "none"
  BY DEF Aborting
<1>2. PICK u : u = get_reply(s, Transfers \cup {"ABOR"})
  OBVIOUS
<1>3. t = IF u.code = 426 THEN get_reply(u, Transfers \cup {"ABOR"}) ELSE u
  BY <1>2 DEF AbortReplies
<1>4. Awaited(s)
  BY DEF Aborting, Awaited
<1>5. InTurn(s, u)
  BY <1>1, <1>2, <1>4, ReadAborting
<1>6. /\ Within(s, u) /\ u.history = s.history /\ u.bucket = s.bucket
      /\ u.ok = s.ok /\ u.server.transfer = s.server.transfer
      /\ s.server.replies = <<>> =>
            u.server.replies = <<>> /\ u.code = 421
      /\ s.server.replies # <<>> =>
            /\ u.server.replies = Tail(s.server.replies)
            /\ u.code = Head(s.server.replies).code
  BY <1>5 DEF InTurn
<1>7. CASE u.code # 426
  <2>1. \/ u.server.replies = <<>>
        \/ \E q \in Replies : /\ u.server.replies = <<q>>
                              /\ q.of \notin Plain /\ u.history.overlooked
    <3>1. CASE s.server.replies = <<>>
      BY <1>6, <3>1
    <3>2. ASSUME NEW r \in Replies, s.server.replies = <<r>>
          PROVE  u.server.replies = <<>>
      BY <1>6, <3>2, Queues
    <3>3. ASSUME NEW r \in Replies, NEW q \in Replies,
                 s.server.replies = <<r, q>>, q.of \notin Plain,
                 r.code = 426 \/ s.history.overlooked
          PROVE  /\ u.server.replies = <<q>> /\ q.of \notin Plain
                 /\ u.history.overlooked
      <4>1. s.server.replies # <<>> /\ Tail(s.server.replies) = <<q>>
            /\ Head(s.server.replies) = r
        BY <3>3, Queues
      <4>2. QED
        BY <1>6, <1>7, <3>3, <4>1
    <3>4. QED
      BY <3>1, <3>2, <3>3 DEF Aborting
  <2>2. Idle(u)
    BY <1>1, <1>6, <2>1 DEF Idle
  <2>3. QED
    BY <1>1, <1>3, <1>6, <1>7, <2>2
<1>8. CASE u.code = 426
  <2>1. \/ u.server.replies = <<>> /\ u.bucket.link # "up"
        \/ \E q \in Replies : u.server.replies = <<q>> /\ q.of \notin Plain
    <3>1. s.server.replies # <<>>
      BY <1>6, <1>8
    <3>2. ASSUME NEW r \in Replies, s.server.replies = <<r>>,
                 s.bucket.link # "up" \/ r.code # 426
          PROVE  u.server.replies = <<>> /\ u.bucket.link # "up"
      <4>1. Tail(s.server.replies) = <<>> /\ Head(s.server.replies) = r
        BY <3>2, Queues
      <4>2. QED
        BY <1>6, <1>8, <3>1, <3>2, <4>1
    <3>3. ASSUME NEW r \in Replies, NEW q \in Replies,
                 s.server.replies = <<r, q>>
          PROVE  u.server.replies = <<q>>
      BY <1>6, <3>1, <3>3, Queues
    <3>4. QED
      BY <3>1, <3>2, <3>3 DEF Aborting
  <2>2. Awaited(u)
    BY <2>1 DEF Awaited
  <2>3. t = get_reply(u, Transfers \cup {"ABOR"}) /\ u \in States
    BY <1>3, <1>6, <1>8 DEF Within
  <2>4. InTurn(u, t)
    <3>1. ~u.history.crossed
      BY <1>1, <1>6
    <3>2. QED
      BY <2>2, <2>3, <3>1, ReadAborting
  <2>5. /\ Within(u, t) /\ t.history = u.history
        /\ t.ok = u.ok /\ t.server.transfer = u.server.transfer
        /\ u.server.replies = <<>> => t.server.replies = <<>>
        /\ u.server.replies # <<>> =>
              t.server.replies = Tail(u.server.replies)
    BY <2>4 DEF InTurn
  <2>6. t.server.replies = <<>>
    <3>1. ASSUME NEW q \in Replies, u.server.replies = <<q>>
          PROVE  Tail(u.server.replies) = <<>>
      BY <3>1, Queues
    <3>2. QED
      BY <2>1, <2>5, <3>1
  <2>7. Idle(t)
    BY <1>1, <1>6, <2>5, <2>6 DEF Idle
  <2>8. Within(s, t)
    BY <1>1, <1>6, <2>5, WithinOn
  <2>9. QED
    BY <1>1, <1>6, <2>5, <2>7, <2>8
<1>9. QED
  BY <1>7, <1>8

\* When a transfer may be aborted: when it is under way, or over, or has been
\* aborted before.
Abortable(s) ==
    /\ s \in States /\ ~s.history.crossed /\ ~s.history.hung
    /\ s.bucket.link # "none"
    /\ \/ /\ s.server.replies = <<>>
          /\ \/ s.server.transfer = "none"
             \/ s.server.transfer \in Transfers /\ s.bucket.link = "up"
       \/ /\ s.server.transfer = "none"
          /\ \E r \in Replies :
                /\ s.server.replies = <<r>> /\ r.of \notin Plain
                /\ s.history.overlooked \/ s.bucket.link = "up"

\* What an abort leaves: nothing to read, or the answer to the abort, which is
\* known to be overlooked.
Cut(s, t) == Within(s, t) /\ Idle(t) /\ ~t.ok /\ ~t.history.crossed

\* What was done does not count.
LEMMA Undone ==
    ASSUME NEW s \in States, NEW t, t = [s EXCEPT !.done = FALSE]
    PROVE  Alike(s, t) /\ t.ok = s.ok
<1>1. /\ t \in States /\ t.cache = s.cache /\ t.bucket = s.bucket
      /\ t.server = s.server /\ t.history = s.history
      /\ t.got_sigpipe = s.got_sigpipe
  BY DEF States
<1>2. t.ok = s.ok
  BY DEF States
<1>3. QED
  BY <1>1, <1>2 DEF Alike

\* The abort is noted, before anything is sent.
Giving(s, v) ==
    /\ v \in States /\ ~v.ok /\ Within(s, v)
    /\ v.cache = s.cache /\ v.bucket = s.bucket /\ v.server = s.server
    /\ ~v.history.crossed /\ ~v.history.hung
    /\ s.history.overlooked => v.history.overlooked
    /\ \A r \in Replies : s.server.replies = <<r>> /\ r.code # 426 =>
                              v.history.overlooked

\* Only the notes of the transfer are changed.
LEMMA GivingUp ==
    ASSUME NEW s, Abortable(s), NEW e \in BOOLEAN, s.history.overlooked => e,
           (\E i \in DOMAIN s.server.replies :
               s.server.replies[i].code # 426) => e,
           NEW v,
           v = Fails([s EXCEPT !.done = FALSE, !.history.overlooked = e])
    PROVE  Giving(s, v)
<1>1. s \in States /\ s.history \in Histories
  BY DEF Abortable, States
<1>2. e \in BOOLEAN
  OBVIOUS
<1>3. s.history.overlooked => e
  OBVIOUS
<1>4. ASSUME NEW r \in Replies, s.server.replies = <<r>>, r.code # 426
      PROVE  e
  <2>1. 1 \in DOMAIN s.server.replies /\ s.server.replies[1] = r
    BY <1>4
  <2>2. QED
    BY <1>4, <2>1
<1>5. PICK b : b = [s EXCEPT !.done = FALSE, !.history.overlooked = e]
  OBVIOUS
<1>6. b.history = [s.history EXCEPT !.overlooked = e]
  BY <1>1, <1>5 DEF States
<1>7. b.history \in Histories
  BY <1>1, <1>2, <1>6 DEF Histories
<1>8. PICK d : d = [s EXCEPT !.done = FALSE]
  OBVIOUS
<1>9. /\ d \in States /\ d.cache = s.cache /\ d.bucket = s.bucket
      /\ d.server = s.server /\ d.got_sigpipe = s.got_sigpipe
  BY <1>1, <1>8, Undone DEF Alike
<1>10. b = [d EXCEPT !.history = b.history]
  BY <1>1, <1>5, <1>6, <1>8 DEF States
<1>11. /\ b \in States /\ b.cache = s.cache /\ b.bucket = s.bucket
      /\ b.server = s.server /\ b.got_sigpipe = s.got_sigpipe
  BY <1>7, <1>10, <1>9 DEF States
<1>12. /\ b.history.overlooked = e
       /\ b.history.crossed = s.history.crossed
       /\ b.history.hung = s.history.hung
       /\ b.history.astray = s.history.astray
       /\ b.history.drops = s.history.drops
       /\ b.history.failed = s.history.failed
  BY <1>1, <1>6 DEF Histories
<1>13. Within(s, b)
  <2>1. Stage(s) \in 0..2 /\ s.history.drops \in Nat
    BY <1>1 DEF Stage, Histories
  <2>2. Stage(b) = Stage(s) /\ (Lost(b) <=> Lost(s))
    BY <1>11 DEF Stage, Lost
  <2>3. QED
    BY <1>3, <1>11, <1>12, <2>1, <2>2 DEF Within, Goes, Settled
<1>14. Alike(b, v) /\ ~v.ok
  BY <1>5, <1>11, Failed
<1>15. /\ v \in States /\ v.cache = b.cache /\ v.bucket = b.bucket
       /\ v.server = b.server /\ v.history = b.history
  BY <1>14 DEF Alike
<1>16. Within(s, v)
  BY <1>1, <1>11, <1>13, <1>14, WithinSame, WithinOn
<1>17. QED
  BY <1>3, <1>4, <1>11, <1>12, <1>14, <1>15, <1>16 DEF Giving, Abortable

\* The abort is sent, and answered, or the server hangs up.
LEMMA Aborts ==
    ASSUME NEW s, Abortable(s), s.bucket.link = "up", NEW v, Giving(s, v),
           NEW u \in Aborted(v) \cup HangUp(v),
           NEW t, t = [u EXCEPT !.got_sigpipe = FALSE]
    PROVE  Within(s, t) /\ Aborting(t) /\ ~t.ok
<1>1. /\ v \in States /\ ~v.ok /\ Within(s, v)
      /\ v.bucket = s.bucket /\ v.server = s.server
      /\ ~v.history.crossed /\ ~v.history.hung
  BY DEF Giving
<1>2. s \in States /\ v.server \in Servers /\ v.history \in Histories
      /\ v.bucket \in Buckets
  BY <1>1 DEF Abortable, States
<1>3. SUFFICES /\ u \in States /\ u.cache = v.cache /\ ~u.ok
               /\ u.server.cwd = v.server.cwd /\ u.server.transfer = "none"
               /\ \/ u.bucket = v.bucket /\ u.history = v.history
                  \/ /\ u.bucket = [v.bucket EXCEPT !.link = "closed"]
                     /\ u.history = [v.history EXCEPT !.drops = @ + 1]
               /\ \/ u.server.replies = <<>> /\ u.bucket.link # "up"
                  \/ \E r \in Replies :
                        /\ u.server.replies = <<r>> /\ r.of \notin Plain
                        /\ u.bucket.link # "up" \/ r.code # 426
                  \/ \E r \in Replies, q \in Replies :
                        /\ u.server.replies = <<r, q>>
                        /\ r.of \notin Plain /\ q.of \notin Plain
                        /\ r.code = 426 \/ u.history.overlooked
  <2>1. PICK w : w = u
    OBVIOUS
  <2>2. /\ t \in States /\ t.cache = u.cache /\ t.ok = u.ok
        /\ t.server = u.server /\ t.bucket = u.bucket
        /\ t.history = u.history
    BY <1>3 DEF States
  <2>3. CASE u.bucket = v.bucket /\ u.history = v.history
    <3>1. Goes(v, t) /\ Settled(v, t)
      BY <1>1, <1>2, <1>3, <2>2, <2>3
      DEF Goes, Settled, Lost, Histories
    <3>2. Within(v, t)
      BY <1>3, <2>2, <3>1 DEF Within
    <3>3. Within(s, t)
      BY <1>1, <1>2, <3>2, WithinOn
    <3>4. QED
      BY <1>1, <1>3, <2>2, <2>3, <3>3 DEF Aborting
  <2>4. CASE /\ u.bucket = [v.bucket EXCEPT !.link = "closed"]
             /\ u.history = [v.history EXCEPT !.drops = @ + 1]
    <3>1. /\ t.bucket.link = "closed" /\ t.bucket.cwd = v.bucket.cwd
          /\ t.bucket.strict = v.bucket.strict
          /\ t.bucket.cwd_defered = v.bucket.cwd_defered
          /\ t.bucket.linear = v.bucket.linear
      BY <1>2, <2>2, <2>4 DEF Buckets
    <3>2. /\ t.history.crossed = v.history.crossed
          /\ t.history.hung = v.history.hung
          /\ t.history.overlooked = v.history.overlooked
          /\ t.history.astray = v.history.astray
          /\ t.history.failed = v.history.failed
          /\ t.history.drops = v.history.drops + 1
          /\ v.history.drops \in Nat
      BY <1>2, <2>2, <2>4 DEF Histories
    <3>3. Goes(v, t) /\ Settled(v, t)
      BY <1>1, <1>3, <2>2, <3>1, <3>2 DEF Goes, Settled, Lost
    <3>4. Within(v, t)
      BY <1>3, <2>2, <3>3 DEF Within
    <3>5. Within(s, t)
      BY <1>1, <1>2, <3>4, WithinOn
    <3>6. QED
      BY <1>1, <1>3, <2>2, <3>2, <3>5 DEF Aborting
  <2>5. QED
    BY <1>3, <2>3, <2>4
<1>4. \/ v.server.replies = <<>>
      \/ \E r \in Replies : /\ v.server.replies = <<r>>
                            /\ r.of \notin Plain
                            /\ r.code # 426 => v.history.overlooked
  BY DEF Abortable, Giving
<1>5. CASE u \in HangUp(v)
  <2>1. /\ u \in States /\ u.cache = v.cache /\ u.ok = v.ok
        /\ u.bucket = [v.bucket EXCEPT !.link = "closed"]
        /\ u.server = [v.server EXCEPT !.transfer = "none"]
        /\ u.history = [v.history EXCEPT !.drops = @ + 1]
    BY <1>1, <1>5, HungUp
  <2>2. u.bucket.link = "closed"
    BY <1>2, <2>1 DEF Buckets
  <2>3. /\ u.server.replies = v.server.replies
        /\ u.server.cwd = v.server.cwd /\ u.server.transfer = "none"
    BY <1>2, <2>1 DEF Servers
  <2>4. QED
    BY <1>1, <1>4, <2>1, <2>2, <2>3
<1>6. CASE u \in Aborted(v) /\ v.server.transfer = "none"
  <2>1. u = Answer(v, "ABOR", 225)
    BY <1>6 DEF Aborted
  <2>2. PICK q \in Replies :
           q.of = "ABOR" /\ q.code = 225 /\ Queued(v, q, u)
    BY <1>1, <2>1, Replied DEF Commands, Codes
  <2>3. /\ u \in States /\ u.cache = v.cache /\ u.ok = v.ok
        /\ u.bucket = v.bucket /\ u.history = v.history
        /\ u.server = [v.server EXCEPT !.replies = Append(@, q)]
    BY <2>2 DEF Queued
  <2>4. /\ u.server.replies = Append(v.server.replies, q)
        /\ u.server.cwd = v.server.cwd /\ u.server.transfer = "none"
    BY <1>2, <1>6, <2>3 DEF Servers
  <2>5. q.of \notin Plain
    BY <2>2 DEF Plain
  <2>6. CASE v.server.replies = <<>>
    <3>1. u.server.replies = <<q>>
      BY <2>4, <2>6, Queues
    <3>2. QED
      BY <1>1, <2>2, <2>3, <2>4, <2>5, <3>1
  <2>7. CASE v.server.replies # <<>>
    <3>1. PICK r \in Replies : /\ v.server.replies = <<r>>
                               /\ r.of \notin Plain
                               /\ r.code # 426 => v.history.overlooked
      BY <1>4, <2>7
    <3>2. u.server.replies = <<r, q>>
      BY <2>4, <3>1, Queues
    <3>3. QED
      BY <1>1, <2>2, <2>3, <2>4, <2>5, <3>1, <3>2
  <2>8. QED
    BY <2>6, <2>7
<1>7. CASE u \in Aborted(v) /\ v.server.transfer # "none"
  <2>1. v.server.transfer \in Transfers /\ v.server.replies = <<>>
    BY <1>1, <1>7 DEF Abortable
  <2>2. PICK a : a = [v EXCEPT !.server.transfer = "none"]
    OBVIOUS
  <2>3. /\ a.server = [v.server EXCEPT !.transfer = "none"]
        /\ a.bucket = v.bucket /\ a.history = v.history
        /\ a.cache = v.cache /\ a.ok = v.ok
    BY <1>1, <2>2 DEF States
  <2>4. a.server \in Servers
    BY <1>2, <2>3 DEF Servers
  <2>5. a \in States
    BY <1>1, <2>2, <2>3, <2>4 DEF States
  <2>6. PICK b : b = Answer(a, v.server.transfer, 426)
    OBVIOUS
  <2>7. u = Answer(b, "ABOR", 226)
    BY <1>7, <2>2, <2>6 DEF Aborted
  <2>8. PICK r \in Replies : /\ r.of = v.server.transfer /\ r.code = 426
                             /\ Queued(a, r, b)
    <3>1. v.server.transfer \in Commands /\ 426 \in Codes
      BY <2>1 DEF Commands, Codes
    <3>2. QED
      BY <2>5, <2>6, <3>1, Replied
  <2>9. b \in States
    BY <2>8 DEF Queued
  <2>10. PICK q \in Replies :
            q.of = "ABOR" /\ q.code = 226 /\ Queued(b, q, u)
    BY <2>7, <2>9, Replied DEF Commands, Codes
  <2>11. /\ u \in States /\ u.cache = v.cache /\ u.ok = v.ok
         /\ u.bucket = v.bucket /\ u.history = v.history
    BY <2>3, <2>8, <2>10 DEF Queued
  <2>12. /\ a.server.replies = <<>> /\ a.server.cwd = v.server.cwd
         /\ a.server.transfer = "none"
    BY <1>2, <2>1, <2>3 DEF Servers
  <2>13. /\ b.server.replies = <<r>> /\ b.server.cwd = v.server.cwd
         /\ b.server.transfer = "none" /\ b.server \in Servers
    <3>1. b.server = [a.server EXCEPT !.replies = Append(@, r)]
      BY <2>8 DEF Queued
    <3>2. /\ b.server.replies = Append(a.server.replies, r)
          /\ b.server.cwd = a.server.cwd
          /\ b.server.transfer = a.server.transfer
      BY <2>4, <3>1 DEF Servers
    <3>3. b.server \in Servers
      BY <2>9 DEF States
    <3>4. QED
      BY <2>12, <3>2, <3>3, Queues
  <2>14. /\ u.server.replies = <<r, q>> /\ u.server.cwd = v.server.cwd
         /\ u.server.transfer = "none"
    <3>1. u.server = [b.server EXCEPT !.replies = Append(@, q)]
      BY <2>10 DEF Queued
    <3>2. /\ u.server.replies = Append(b.server.replies, q)
          /\ u.server.cwd = b.server.cwd
          /\ u.server.transfer = b.server.transfer
      BY <2>13, <3>1 DEF Servers
    <3>3. QED
      BY <2>13, <3>2, Queues
  <2>15. r.of \notin Plain /\ q.of \notin Plain
    BY <2>1, <2>8, <2>10 DEF Plain, Transfers
  <2>16. QED
    BY <1>1, <2>8, <2>11, <2>14, <2>15
<1>8. QED
  BY <1>5, <1>6, <1>7

\* my_abort, on whichever link.
LEMMA Abort ==
    ASSUME NEW s, Abortable(s), NEW t \in my_abort(s)
    PROVE  Cut(s, t)
<1> DEFINE e == s.history.overlooked
                \/ \E i \in DOMAIN s.server.replies :
                      s.server.replies[i].code # 426
           v == Fails([s EXCEPT !.done = FALSE, !.history.overlooked = e])
<1>1. e \in BOOLEAN
  <2>1. s.history.overlooked \in BOOLEAN
    BY DEF Abortable, States, Histories
  <2>2. QED
    BY <2>1
<1>2. /\ s.history.overlooked => e
      /\ (\E i \in DOMAIN s.server.replies :
              s.server.replies[i].code # 426) => e
  OBVIOUS
<1>3. t \in CASE s.bucket.link = "up" ->
                  {AbortReplies([u EXCEPT !.got_sigpipe = FALSE]) :
                      u \in Aborted(v) \cup HangUp(v)}
            [] s.bucket.link = "unset" -> {v}
            [] OTHER -> {[v EXCEPT !.bucket.link = "reset",
                                   !.got_sigpipe = TRUE]}
  <2>1. v.bucket.link = s.bucket.link
    BY DEF Fails, Abortable, States
  <2>2. QED
    BY Zenon DEF my_abort
<1> HIDE DEF e
<1>4. PICK w : w = v
  OBVIOUS
<1> HIDE DEF v
<1>5. Giving(s, w)
  BY <1>1, <1>2, <1>4, GivingUp DEF v
<1>6. s \in States /\ w \in States /\ w.bucket \in Buckets
  BY <1>5 DEF Abortable, Giving, States
<1>7. CASE s.bucket.link = "up"
  <2>1. PICK u \in Aborted(w) \cup HangUp(w) :
           t = AbortReplies([u EXCEPT !.got_sigpipe = FALSE])
    BY <1>3, <1>4, <1>7
  <2>2. PICK x : x = [u EXCEPT !.got_sigpipe = FALSE]
    OBVIOUS
  <2>3. Within(s, x) /\ Aborting(x) /\ ~x.ok
    BY <1>5, <1>7, <2>2, Aborts
  <2>4. Within(x, t) /\ Idle(t) /\ ~t.history.crossed /\ t.ok = x.ok
    BY <2>1, <2>2, <2>3, AbortRead
  <2>5. Within(s, t)
    BY <1>6, <2>3, <2>4, WithinOn
  <2>6. QED
    BY <2>3, <2>4, <2>5 DEF Cut
<1>8. ASSUME s.bucket.link # "up"
      PROVE  /\ w.server.transfer = "none"
             /\ \/ w.server.replies = <<>>
                \/ \E r \in Replies :
                      /\ w.server.replies = <<r>> /\ r.of \notin Plain
                      /\ w.history.overlooked
  BY <1>5, <1>8 DEF Abortable, Giving
<1>9. CASE s.bucket.link = "unset"
  <2>1. t = w
    BY <1>3, <1>4, <1>9
  <2>2. Idle(w)
    BY <1>5, <1>8, <1>9 DEF Giving, Idle
  <2>3. QED
    BY <1>5, <2>1, <2>2 DEF Cut, Giving
<1>10. CASE s.bucket.link \notin {"up", "unset"}
  <2>1. t = [w EXCEPT !.bucket.link = "reset", !.got_sigpipe = TRUE]
    BY <1>3, <1>4, <1>10
  <2>2. s.bucket.link \in {"closed", "reset"} /\ w.bucket.link = s.bucket.link
    BY <1>5, <1>6, <1>10 DEF Abortable, Giving, Buckets, Links
  <2>3. /\ t.bucket = [w.bucket EXCEPT !.link = "reset"]
        /\ t.server = w.server /\ t.history = w.history
        /\ t.cache = w.cache /\ t.got_sigpipe /\ t.ok = w.ok
    BY <1>6, <2>1 DEF States
  <2>4. t.bucket \in Buckets
    BY <1>6, <2>3 DEF Buckets, Links
  <2>5. t \in States
    BY <1>6, <2>1, <2>3, <2>4 DEF States
  <2>6. /\ t.bucket.link = "reset" /\ t.bucket.cwd = w.bucket.cwd
        /\ t.bucket.strict = w.bucket.strict
        /\ t.bucket.cwd_defered = w.bucket.cwd_defered
        /\ t.bucket.linear = w.bucket.linear
    BY <1>6, <2>3 DEF Buckets
  <2>7. /\ Lost(w) /\ Lost(t) /\ Stage(t) = 2 /\ Stage(w) \in 0..2
        /\ t.history.drops \in Nat
    BY <2>2, <2>3, <2>5, <2>6 DEF Lost, Stage, States, Histories
  <2>8. Goes(w, t) /\ Settled(w, t)
    BY <2>2, <2>3, <2>6, <2>7 DEF Goes, Settled
  <2>9. Within(s, t)
    <3>1. Within(w, t)
      BY <2>3, <2>5, <2>8 DEF Within
    <3>2. QED
      BY <1>5, <1>6, <3>1, WithinOn DEF Giving
  <2>10. Idle(t)
    BY <1>5, <1>8, <1>10, <2>3, <2>6 DEF Giving, Idle
  <2>11. QED
    BY <1>5, <2>3, <2>9, <2>10 DEF Cut, Giving
<1>11. QED
  BY <1>7, <1>9, <1>10

\* An interrupt, before the server has ended the transfer or after.
LEMMA Interrupting ==
    ASSUME NEW s \in States, NEW cmd \in Transfers, Busy(s, cmd),
           NEW t \in Interrupted(s, cmd)
    PROVE  Cut(s, t)
<1>1. PICK u \in {s} \cup Ends(s, cmd) : t \in my_abort(u)
  BY DEF Interrupted, Each
<1>2. Within(s, u) /\ Abortable(u)
  <2>1. CASE u = s
    <3>1. Within(s, s)
      BY WithinSame DEF Alike
    <3>2. Abortable(s)
      BY DEF Busy, Abortable
    <3>3. QED
      BY <2>1, <3>1, <3>2
  <2>2. CASE u \in Ends(s, cmd)
    <3>1. Over(s, cmd, u)
      BY <2>2, Ending
    <3>2. cmd \notin Plain
      BY DEF Plain, Transfers
    <3>3. Abortable(u)
      BY <3>1, <3>2 DEF Over, Within, Abortable
    <3>4. QED
      BY <3>1, <3>3 DEF Over
  <2>3. QED
    BY <1>1, <2>1, <2>2
<1>3. Cut(u, t)
  BY <1>1, <1>2, Abort
<1>4. Within(s, t)
  BY <1>2, <1>3, WithinOn DEF Cut
<1>5. QED
  BY <1>3, <1>4 DEF Cut

-----------------------------------------------------------------------------
(* Directories.                                                             *)

\* A function that may be followed by any other.
Fine(s, t) == Good(t) /\ Effect(s, t)

\* One function after another.
LEMMA FineOn ==
    ASSUME NEW s \in States, NEW t \in States, NEW u,
           Goes(s, t), Fine(t, u)
    PROVE  Fine(s, u)
<1>1. u \in States /\ Effect(t, u)
  BY DEF Fine, Good
<1>2. Goes(s, u) /\ (Bites(t, u) => Bites(s, u))
  BY <1>1, GoesOn DEF Effect
<1>3. QED
  BY <1>1, <1>2 DEF Fine, Effect

\* One listing is replaced.
LEMMA Replaced ==
    ASSUME NEW s \in States, CacheOK(s), NEW dir \in Dirs,
           NEW l \in Listings \cup {NoListing},
           l # NoListing => l.whole /\ (l.from = dir \/ l.astray),
           NEW t, t.cache = [s.cache EXCEPT ![dir] = l]
    PROVE  t.cache \in Caches /\ CacheOK(t)
<1>1. s.cache \in Caches
  BY DEF States
<1>2. t.cache \in Caches
  BY <1>1 DEF Caches
<1>3. ASSUME NEW d \in Dirs
      PROVE  t.cache[d] = IF d = dir THEN l ELSE s.cache[d]
  BY <1>1 DEF Caches
<1>4. QED
  BY <1>2, <1>3 DEF CacheOK

\* Where the server is after a CWD, or when none was needed.
At(s, dir, t) ==
    /\ Fine(s, t)
    /\ t.bucket.strict = s.bucket.strict
    /\ t.ok => \/ t.history.crossed \/ t.bucket.link = "unset"
               \/ t.history.astray \/ t.server.cwd = dir

\* ftpfs_chdir_internal, whether CWD is sent and accepted or not.
LEMMA ChangesDir ==
    ASSUME NEW s, Good(s), s.ok, NEW dir \in Dirs,
           NEW t \in ftpfs_chdir_internal(s, dir)
    PROVE  At(s, dir, t)
<1>1. s \in States /\ Idle(s) /\ Placed(s) /\ CacheOK(s)
  BY DEF Good
<1>2. CASE ~s.bucket.cwd_defered /\ is_same_dir(s, dir)
  <2>1. t = s /\ s.bucket.cwd = dir
    BY <1>2 DEF ftpfs_chdir_internal, is_same_dir
  <2>2. dir # NoDir
    BY FtpAssumption
  <2>3. Fine(s, s)
    BY <1>1, NoEffect DEF Fine
  <2>4. QED
    BY <1>1, <1>2, <2>1, <2>2, <2>3 DEF At, Placed
<1>3. CASE ~(~s.bucket.cwd_defered /\ is_same_dir(s, dir))
  <2>1. PICK v \in Ask(s, "CWD", dir, COMPLETE) :
           t = IF v.ok THEN [v EXCEPT !.bucket.cwd = dir,
                                      !.bucket.cwd_defered = FALSE,
                                      !.history.astray = FALSE]
               ELSE v
    BY <1>3 DEF ftpfs_chdir_internal
  <2>2. PICK u \in command(s, "CWD", dir) : v = Check(u, COMPLETE)
    BY DEF Ask
  <2>3. Commanded(s, "CWD", dir, u)
    <3>1. "CWD" \in Plain /\ "CWD" \notin Transfers
      BY DEF Plain, Transfers
    <3>2. QED
      BY <1>1, <3>1, Command
  <2>4. /\ u \in States /\ Settled(s, u) /\ Goes(s, u) /\ Bites(s, u)
        /\ Idle(u)
        /\ ~u.history.crossed =>
              u.server.cwd = IF Class(u) = COMPLETE THEN dir
                             ELSE s.server.cwd
    BY <2>3 DEF Commanded, Plain
  <2>5. Alike(u, v) /\ (v.ok <=> Class(u) = COMPLETE)
    BY <2>2, <2>4, Checked DEF Alike
  <2>6. /\ v \in States /\ Settled(s, v) /\ Goes(s, v) /\ Bites(s, v)
        /\ Idle(v) /\ v.server = u.server /\ v.history = u.history
    BY <2>4, <2>5, AlikeKeeps DEF Alike
  <2>7. CASE ~v.ok
    <3>1. v.server.cwd = s.server.cwd \/ v.history.crossed
      BY <2>4, <2>5, <2>6, <2>7
    <3>2. Placed(v) /\ CacheOK(v)
      BY <1>1, <2>6, <3>1, Stays
    <3>3. QED
      BY <2>1, <2>6, <2>7, <3>2 DEF At, Fine, Good, Effect, Settled
  <2>8. CASE v.ok
    <3>1. t = [v EXCEPT !.bucket.cwd = dir, !.bucket.cwd_defered = FALSE,
                        !.history.astray = FALSE]
      BY <2>1, <2>8
    <3>2. /\ t.bucket = [v.bucket EXCEPT !.cwd = dir, !.cwd_defered = FALSE]
          /\ t.history = [v.history EXCEPT !.astray = FALSE]
          /\ t.server = v.server /\ t.cache = v.cache
          /\ t.got_sigpipe = v.got_sigpipe /\ t.ok = v.ok
      BY <2>6, <3>1 DEF States
    <3>3. t.bucket \in Buckets /\ t.history \in Histories
      BY <2>6, <3>2 DEF States, Buckets, Histories
    <3>4. t \in States
      BY <2>6, <3>1, <3>2, <3>3 DEF States
    <3>5. /\ t.bucket.cwd = dir /\ t.bucket.link = v.bucket.link
          /\ t.bucket.strict = v.bucket.strict
          /\ t.bucket.linear = v.bucket.linear
      BY <2>6, <3>2 DEF States, Buckets
    <3>6. /\ t.history.crossed = v.history.crossed
          /\ t.history.hung = v.history.hung
          /\ t.history.overlooked = v.history.overlooked
          /\ t.history.drops = v.history.drops
          /\ t.history.failed = v.history.failed
      BY <2>6, <3>2 DEF States, Histories
    <3>7. Goes(s, t)
      <4>1. Stage(t) = Stage(v) /\ (Lost(t) <=> Lost(v))
        BY <3>2, <3>5 DEF Stage, Lost
      <4>2. QED
        BY <2>6, <3>5, <3>6, <4>1 DEF Goes
    <3>8. Idle(t)
      BY <2>6, <3>2, <3>5, <3>6 DEF Idle
    <3>9. t.history.crossed \/ t.server.cwd = dir
      BY <2>4, <2>5, <2>6, <2>8, <3>2, <3>6
    <3>10. Placed(t)
      BY <3>5, <3>9 DEF Placed
    <3>11. CacheOK(t)
      BY <1>1, <2>6, <3>2 DEF CacheOK, Settled
    <3>12. t.bucket.strict = s.bucket.strict
      BY <2>6, <3>5 DEF Settled
    <3>13. QED
      BY <2>8, <3>2, <3>4, <3>7, <3>8, <3>9, <3>10, <3>11, <3>12
      DEF At, Fine, Good, Effect
  <2>9. QED
    BY <2>7, <2>8
<1>4. QED
  BY <1>2, <1>3

\* A listing is about to be read, of the right directory.
Aimed(s, dir) == ByChdir(s, dir) => s.server.cwd = dir \/ s.history.astray

Listing(s, dir, t) ==
    /\ t \in States /\ Effect(s, t) /\ Placed(t) /\ CacheOK(t)
    /\ IF t.ok THEN Busy(t, "LIST") /\ ~Lost(s) /\ Aimed(t, dir)
       ELSE Idle(t)

\* CWD, if the listing needs it, and LIST.
LEMMA OpensListing ==
    ASSUME NEW s, Good(s), s.ok, NEW dir \in Dirs,
           NEW a \in AtDir(s, dir), NEW b \in States,
           a.ok => b = [a EXCEPT !.again = b.again],
           NEW t, t \in IF a.ok THEN OpenList(b, dir) ELSE {a}
    PROVE  Listing(s, dir, t)
<1>1. s \in States
  BY DEF Good
<1>2. /\ Fine(s, a) /\ a.bucket.strict = s.bucket.strict
      /\ ByChdir(s, dir) /\ a.ok =>
            \/ a.history.crossed \/ a.bucket.link = "unset"
            \/ a.history.astray \/ a.server.cwd = dir
  <2>1. CASE ByChdir(s, dir)
    <3>1. At(s, dir, a)
      BY <2>1, ChangesDir DEF AtDir
    <3>2. QED
      BY <3>1 DEF At
  <2>2. CASE ~ByChdir(s, dir)
    <3>1. a = s
      BY <2>2 DEF AtDir
    <3>2. QED
      BY <1>1, <2>2, <3>1, NoEffect DEF Fine
  <2>3. QED
    BY <2>1, <2>2
<1>3. CASE ~a.ok
  BY <1>2, <1>3 DEF Listing, Fine, Good
<1>4. CASE a.ok
  <2>1. a \in States /\ Good(a)
    BY <1>2 DEF Fine, Good
  <2>2. /\ b.server = a.server /\ b.history = a.history
        /\ b.cache = a.cache /\ b.got_sigpipe = a.got_sigpipe
        /\ b.bucket = a.bucket
    BY <1>4, <2>1 DEF States
  <2>3. Good(b) /\ Goes(a, b)
    BY <2>1, <2>2, Aside
  <2>4. Opened(b, "LIST", t)
    <3>1. "LIST" \in Transfers /\ "ascii" \in Types
      BY DEF Transfers, Types
    <3>2. t \in open_data_connection(b, "LIST", dir, "ascii", FALSE)
      BY <1>4 DEF OpenList
    <3>3. QED
      BY <2>3, <3>1, <3>2, Opening
  <2>5. /\ t \in States /\ Placed(t) /\ CacheOK(t)
        /\ Effect(b, t) /\ Settled(b, t) /\ t.server.cwd = b.server.cwd
        /\ IF t.ok THEN Busy(t, "LIST") /\ t.bucket.link = "up" /\ ~Lost(b)
           ELSE Idle(t)
    BY <2>4 DEF Opened
  <2>6. Goes(s, b)
    BY <1>1, <1>2, <2>1, <2>3, GoesOn DEF Fine, Effect
  <2>7. Effect(s, t)
    <3>1. Goes(s, t) /\ (Bites(b, t) => Bites(s, t))
      BY <1>1, <2>5, <2>6, GoesOn DEF Effect
    <3>2. QED
      BY <2>5, <3>1 DEF Effect
  <2>8. Lost(s) => Lost(b)
    BY <2>6 DEF Goes
  <2>9. ASSUME t.ok
        PROVE  Aimed(t, dir)
    <3>1. t.bucket.strict = s.bucket.strict
      BY <1>2, <2>2, <2>5 DEF Settled
    <3>2. ByChdir(t, dir) <=> ByChdir(s, dir)
      BY <3>1 DEF ByChdir
    <3>3. ~t.history.crossed /\ t.bucket.link = "up"
      BY <2>5, <2>9 DEF Busy
    <3>4. ~a.history.crossed /\ a.bucket.link # "unset"
      BY <2>2, <2>5, <3>3 DEF Effect, Goes
    <3>5. /\ t.history.astray = a.history.astray
          /\ t.server.cwd = a.server.cwd
      BY <2>2, <2>5 DEF Settled
    <3>6. QED
      BY <1>2, <1>4, <3>2, <3>4, <3>5 DEF Aimed
  <2>10. QED
    BY <2>5, <2>7, <2>8, <2>9 DEF Listing
<1>5. QED
  BY <1>3, <1>4

\* The first line that is parsed counts an inode.
LEMMA Lines ==
    ASSUME NEW s, Good(s), NEW t \in SomeLines(s)
    PROVE  Good(t) /\ Goes(s, t)
<1>1. s \in States
  BY DEF Good
<1>2. t \in States /\ t.server = s.server /\ t.history = s.history
      /\ t.cache = s.cache /\ t.got_sigpipe = s.got_sigpipe
      /\ t.bucket \in {s.bucket, [s.bucket EXCEPT !.listed = TRUE]}
  <2>1. CASE t = s
    BY <1>1, <2>1
  <2>2. CASE t = [s EXCEPT !.bucket.listed = TRUE]
    <3>1. /\ t.server = s.server /\ t.history = s.history
          /\ t.cache = s.cache /\ t.got_sigpipe = s.got_sigpipe
          /\ t.bucket = [s.bucket EXCEPT !.listed = TRUE]
      BY <1>1, <2>2 DEF States
    <3>2. t.bucket \in Buckets
      BY <1>1, <3>1 DEF States, Buckets
    <3>3. t \in States
      BY <1>1, <2>2, <3>1, <3>2 DEF States
    <3>4. QED
      BY <3>1, <3>3
  <2>3. QED
    BY <2>1, <2>2 DEF SomeLines
<1>3. /\ t.bucket.link = s.bucket.link /\ t.bucket.linear = s.bucket.linear
      /\ t.bucket.cwd = s.bucket.cwd
      /\ t.bucket.cwd_defered = s.bucket.cwd_defered
  BY <1>1, <1>2 DEF States, Buckets
<1>4. QED
  BY <1>2, <1>3, Aside

\* A listing that has come whole is cached.
LEMMA Caching ==
    ASSUME NEW s, Good(s), s.done, NEW dir \in Dirs, Aimed(s, dir),
           NEW t, t = Cached(s, dir)
    PROVE  Good(t) /\ Goes(s, t)
<1> DEFINE kind == IF dir \in WithLinks THEN "unresolved" ELSE "none"
           l == [from |-> ListedDir(s, dir), whole |-> s.done,
                 astray |-> s.history.astray, links |-> kind]
<1>1. s \in States /\ s.history \in Histories /\ s.server \in Servers
  BY DEF Good, States
<1>2. ListedDir(s, dir) \in Dirs
  BY <1>1 DEF ListedDir, Servers
<1>3. s.done \in BOOLEAN /\ s.history.astray \in BOOLEAN
      /\ kind \in {"none", "unresolved", "resolved"}
  BY <1>1 DEF States, Histories
<1> HIDE DEF kind
<1>4. l \in Listings /\ l.whole = s.done /\ l.from = ListedDir(s, dir)
      /\ l.astray = s.history.astray
  BY <1>2, <1>3 DEF Listings
<1>5. l.from = dir \/ l.astray
  BY <1>4 DEF Aimed, ListedDir
<1>6. t = [s EXCEPT !.bucket.listed = TRUE, !.cache[dir] = l]
  BY DEF Cached, kind
<1> HIDE DEF l
<1>7. /\ t.bucket = [s.bucket EXCEPT !.listed = TRUE]
      /\ t.cache = [s.cache EXCEPT ![dir] = l]
      /\ t.server = s.server /\ t.history = s.history
      /\ t.got_sigpipe = s.got_sigpipe
  BY <1>1, <1>6 DEF States
<1>8. t.cache \in Caches /\ CacheOK(t)
  BY <1>1, <1>4, <1>5, <1>7, Replaced DEF Good
<1>9. t.bucket \in Buckets
  BY <1>1, <1>7 DEF States, Buckets
<1>10. t \in States
  BY <1>1, <1>6, <1>7, <1>8, <1>9 DEF States
<1>11. /\ t.bucket.link = s.bucket.link /\ t.bucket.linear = s.bucket.linear
       /\ t.bucket.cwd = s.bucket.cwd
       /\ t.bucket.cwd_defered = s.bucket.cwd_defered
  BY <1>1, <1>7 DEF States, Buckets
<1>12. Goes(s, t)
  BY <1>1, <1>7, <1>11 DEF Goes, Lost, Stage, Histories
<1>13. Idle(t) /\ Placed(t)
  BY <1>7, <1>11 DEF Good, Idle, Placed
<1>14. QED
  BY <1>8, <1>10, <1>12, <1>13 DEF Good

\* The data of a listing are read to their end, or until the user interrupts.
LEMMA Reads ==
    ASSUME NEW s \in States, Busy(s, "LIST"), Placed(s), CacheOK(s),
           NEW dir \in Dirs, Aimed(s, dir), NEW t \in ReadListing(s, dir)
    PROVE  Good(t) /\ Goes(s, t)
<1>1. "LIST" \in Transfers
  BY DEF Transfers
<1>2. CASE \E e \in Ends(s, "LIST") :
              t \in IF Answered(e, "LIST").ok
                    THEN {Fails(Answered(e, "LIST")),
                          Cached(Answered(e, "LIST"), dir)}
                    ELSE SomeLines(Answered(e, "LIST"))
  <2>1. PICK e \in Ends(s, "LIST") :
               t \in IF Answered(e, "LIST").ok
                     THEN {Fails(Answered(e, "LIST")),
                           Cached(Answered(e, "LIST"), dir)}
                     ELSE SomeLines(Answered(e, "LIST"))
    BY <1>2
  <2>2. PICK u : /\ u = Answered(e, "LIST")
                 /\ t \in IF u.ok THEN {Fails(u), Cached(u, dir)}
                          ELSE SomeLines(u)
    BY <2>1
  <2>3. Over(s, "LIST", e) /\ Faithful(e)
    BY <1>1, Ending
  <2>4. /\ Within(s, u) /\ Idle(u) /\ ~u.history.crossed
        /\ u.ok => u.done
    BY <1>1, <2>2, <2>3, LastReply
  <2>5. Good(u) /\ Goes(s, u) /\ u \in States
    BY <2>4, WithinStays DEF Good, Within
  <2>6. CASE ~u.ok
    <3>1. Good(t) /\ Goes(u, t)
      BY <2>2, <2>5, <2>6, Lines
    <3>2. t \in States
      BY <3>1 DEF Good
    <3>3. QED
      BY <2>5, <3>1, <3>2, GoesOn
  <2>7. CASE u.ok /\ t = Fails(u)
    <3>1. Alike(u, t)
      BY <2>5, <2>7, Failed
    <3>2. QED
      BY <2>5, <3>1, AlikeKeeps DEF Good
  <2>8. CASE u.ok /\ t = Cached(u, dir)
    <3>1. Aimed(u, dir)
      BY <2>4 DEF Aimed, ByChdir, Within, Settled
    <3>2. Good(t) /\ Goes(u, t)
      BY <2>4, <2>5, <2>8, <3>1, Caching
    <3>3. t \in States
      BY <3>2 DEF Good
    <3>4. QED
      BY <2>5, <3>2, <3>3, GoesOn
  <2>9. QED
    BY <2>2, <2>6, <2>7, <2>8
<1>3. CASE \E v \in Interrupted([s EXCEPT !.again = FALSE], "LIST") :
              t \in SomeLines(v)
  <2>1. PICK a : a = [s EXCEPT !.again = FALSE]
    OBVIOUS
  <2>2. PICK v \in Interrupted(a, "LIST") : t \in SomeLines(v)
    BY <1>3, <2>1
  <2>3. Alike(s, a)
    <3>1. a \in States /\ a.cache = s.cache /\ a.bucket = s.bucket
          /\ a.server = s.server /\ a.history = s.history
          /\ a.got_sigpipe = s.got_sigpipe
      BY <2>1 DEF States
    <3>2. QED
      BY <3>1 DEF Alike
  <2>4. Busy(a, "LIST") /\ Placed(a) /\ CacheOK(a) /\ a \in States
    BY <2>3, AlikeKeeps
  <2>5. Cut(a, v)
    BY <1>1, <2>4, Interrupting
  <2>6. Within(s, a)
    BY <2>3, WithinSame
  <2>7. Good(v) /\ v \in States
    BY <2>4, <2>5, WithinStays DEF Cut, Good, Within
  <2>8. Goes(s, v)
    BY <2>5, <2>6, WithinOn DEF Cut, Within
  <2>9. Good(t) /\ Goes(v, t)
    BY <2>2, <2>7, Lines
  <2>10. t \in States
    BY <2>9 DEF Good
  <2>11. QED
    BY <2>7, <2>8, <2>9, <2>10, GoesOn
<1>4. \/ t \in Each(Ends(s, "LIST"), LAMBDA e :
              LET u == Answered(e, "LIST")
              IN  IF u.ok THEN {Fails(u), Cached(u, dir)} ELSE SomeLines(u))
      \/ t \in Each(Interrupted([s EXCEPT !.again = FALSE], "LIST"), SomeLines)
  BY DEF ReadListing
<1>5. QED
  BY <1>2, <1>3, <1>4 DEF Each

\* One attempt at a listing.
LEMMA Attempts ==
    ASSUME NEW s, Good(s), s.ok, NEW dir \in Dirs, NEW t \in Attempt(s, dir)
    PROVE  Fine(s, t)
<1>1. s \in States
  BY DEF Good
<1>2. PICK a \in AtDir(s, dir) :
         t \in IF a.ok
               THEN Then(OpenList([a EXCEPT !.again = TRUE], dir),
                         LAMBDA u : ReadListing(u, dir))
               ELSE {a}
  BY DEF Attempt, Then
<1>3. PICK b : b = [a EXCEPT !.again = TRUE]
  OBVIOUS
<1>4. ASSUME NEW u, u \in IF a.ok THEN OpenList(b, dir) ELSE {a}
      PROVE  Listing(s, dir, u)
  <2>1. a \in States
    <3>1. CASE ByChdir(s, dir)
      <4>1. At(s, dir, a)
        BY <3>1, ChangesDir DEF AtDir
      <4>2. QED
        BY <4>1 DEF At, Fine, Good
    <3>2. CASE ~ByChdir(s, dir)
      BY <1>1, <3>2 DEF AtDir
    <3>3. QED
      BY <3>1, <3>2
  <2>2. b \in States /\ b.again = TRUE
    BY <1>3, <2>1 DEF States
  <2>3. QED
    BY <1>3, <1>4, <2>2, OpensListing
<1>5. CASE ~a.ok
  <2>1. Listing(s, dir, t)
    BY <1>2, <1>4, <1>5
  <2>2. QED
    BY <1>2, <1>5, <2>1 DEF Listing, Fine, Good
<1>6. CASE a.ok
  <2>1. PICK u \in OpenList(b, dir) :
           t \in IF u.ok THEN ReadListing(u, dir) ELSE {u}
    BY <1>2, <1>3, <1>6 DEF Then
  <2>2. Listing(s, dir, u)
    BY <1>4, <1>6, <2>1
  <2>3. CASE ~u.ok
    BY <2>1, <2>2, <2>3 DEF Listing, Fine, Good
  <2>4. CASE u.ok
    <3>1. Good(t) /\ Goes(u, t)
      BY <2>1, <2>2, <2>4, Reads DEF Listing
    <3>2. t \in States /\ u \in States
      BY <2>2, <3>1 DEF Good, Listing
    <3>3. Goes(s, t)
      BY <1>1, <2>2, <3>1, <3>2, GoesOn DEF Listing, Effect
    <3>4. Bites(s, t)
      BY <2>2, <2>4 DEF Listing, Bites
    <3>5. QED
      BY <3>1, <3>3, <3>4 DEF Fine, Effect
  <2>5. QED
    BY <2>3, <2>4
<1>7. QED
  BY <1>5, <1>6

\* A listing, with the second attempt.
LEMMA Lists ==
    ASSUME NEW s, Good(s), s.ok, NEW dir \in Dirs, NEW t \in Listed(s, dir)
    PROVE  Fine(s, t)
<1>1. PICK a \in Attempt(s, dir) :
         t \in IF FallsBack(a)
               THEN Attempt([a EXCEPT !.bucket.strict = TRUE, !.ok = TRUE],
                            dir)
               ELSE {a}
  BY DEF Listed, Each
<1>2. Fine(s, a)
  BY Attempts
<1>3. s \in States /\ a \in States /\ Good(a)
  BY <1>2 DEF Fine, Good
<1>4. CASE FallsBack(a)
  <2>1. PICK b : b = [a EXCEPT !.bucket.strict = TRUE, !.ok = TRUE]
    OBVIOUS
  <2>2. /\ b.bucket = [a.bucket EXCEPT !.strict = TRUE] /\ b.ok
        /\ b.server = a.server /\ b.history = a.history
        /\ b.cache = a.cache /\ b.got_sigpipe = a.got_sigpipe
    BY <1>3, <2>1 DEF States
  <2>3. /\ b.bucket \in Buckets
        /\ b.bucket.link = a.bucket.link /\ b.bucket.linear = a.bucket.linear
        /\ b.bucket.cwd = a.bucket.cwd
        /\ b.bucket.cwd_defered = a.bucket.cwd_defered
    BY <1>3, <2>2 DEF States, Buckets
  <2>4. b \in States
    BY <1>3, <2>1, <2>2, <2>3 DEF States
  <2>5. Good(b) /\ Goes(a, b)
    BY <1>3, <2>2, <2>3, <2>4, Aside
  <2>6. Fine(b, t)
    BY <1>1, <1>4, <2>1, <2>2, <2>5, Attempts
  <2>7. Goes(s, b)
    BY <1>2, <1>3, <2>4, <2>5, GoesOn DEF Fine, Effect
  <2>8. QED
    BY <1>3, <2>4, <2>6, <2>7, FineOn
<1>5. CASE ~FallsBack(a)
  BY <1>1, <1>2, <1>5
<1>6. QED
  BY <1>4, <1>5

\* A listing from the cache or from the server.
LEMMA GetsListing ==
    ASSUME NEW s, Good(s), s.ok, NEW dir \in Dirs,
           NEW t \in GetListing(s, dir)
    PROVE  Fine(s, t)
<1>1. s \in States
  BY DEF Good
<1>2. CASE t \in Listed(s, dir)
  BY <1>2, Lists
<1>3. CASE t = s
  BY <1>1, <1>3, NoEffect DEF Fine
<1>4. CASE t \in Listed([s EXCEPT !.cache[dir] = NoListing,
                                  !.force = FALSE], dir)
  <2>1. PICK a : a = [s EXCEPT !.cache[dir] = NoListing, !.force = FALSE]
    OBVIOUS
  <2>2. /\ a.cache = [s.cache EXCEPT ![dir] = NoListing]
        /\ a.bucket = s.bucket /\ a.server = s.server
        /\ a.history = s.history /\ a.got_sigpipe = s.got_sigpipe
        /\ a.ok = s.ok
    BY <1>1, <2>1 DEF States
  <2>3. PICK l \in Listings \cup {NoListing} : l = NoListing
    OBVIOUS
  <2>4. a.cache \in Caches /\ CacheOK(a)
    BY <1>1, <2>2, <2>3, Replaced DEF Good
  <2>5. a \in States
    BY <1>1, <2>1, <2>2, <2>4 DEF States
  <2>6. Goes(s, a)
    BY <1>1, <2>2 DEF Goes, Lost, Stage, States, Histories
  <2>7. Idle(a) /\ Placed(a)
    BY <2>2 DEF Good, Idle, Placed
  <2>8. Fine(a, t)
    BY <1>4, <2>1, <2>2, <2>4, <2>5, <2>7, Lists DEF Good
  <2>9. QED
    BY <1>1, <2>5, <2>6, <2>8, FineOn
<1>5. QED
  BY <1>2, <1>3, <1>4 DEF GetListing

\* The links of a listing are resolved: of one that is not there, nothing.
LEMMA Resolves ==
    ASSUME NEW s, Good(s), NEW dir \in Dirs, NEW t, t = Resolved(s, dir)
    PROVE  Good(t) /\ Goes(s, t) /\ t.ok
<1>1. s \in States /\ s.cache \in Caches /\ CacheOK(s)
  BY DEF Good, States
<1>2. PICK l : l = [s.cache[dir] EXCEPT !.links = "resolved"]
  OBVIOUS
<1>3. /\ l \in Listings \cup {NoListing}
      /\ l # NoListing => l.whole /\ (l.from = dir \/ l.astray)
  <2>1. CASE s.cache[dir] = NoListing
    <3>1. [NoListing EXCEPT !.links = "resolved"] = NoListing
      BY DEF NoListing
    <3>2. QED
      BY <1>2, <2>1, <3>1
  <2>2. CASE s.cache[dir] # NoListing
    <3>1. s.cache[dir] \in Listings
      BY <1>1, <2>2 DEF Caches
    <3>2. /\ l \in Listings /\ l.whole = s.cache[dir].whole
          /\ l.from = s.cache[dir].from /\ l.astray = s.cache[dir].astray
      BY <1>2, <3>1 DEF Listings
    <3>3. QED
      BY <1>1, <2>2, <3>2 DEF CacheOK
  <2>3. QED
    BY <2>1, <2>2
<1>4. t = [s EXCEPT !.cache[dir].links = "resolved", !.ok = TRUE]
  BY DEF Resolved
<1>5. t.cache = [s.cache EXCEPT ![dir] = l]
  BY <1>1, <1>2, <1>4 DEF States, Caches
<1>6. /\ t.bucket = s.bucket /\ t.server = s.server /\ t.ok
      /\ t.history = s.history /\ t.got_sigpipe = s.got_sigpipe
  BY <1>1, <1>4 DEF States
<1>7. t.cache \in Caches /\ CacheOK(t)
  BY <1>1, <1>3, <1>5, Replaced
<1>8. t \in States
  <2>1. PICK u : u = [s EXCEPT !.cache = t.cache]
    OBVIOUS
  <2>2. t = [u EXCEPT !.ok = TRUE]
    BY <1>1, <1>4, <2>1 DEF States
  <2>3. u \in States
    BY <1>1, <1>7, <2>1 DEF States
  <2>4. QED
    BY <2>2, <2>3 DEF States
<1>9. Goes(s, t)
  BY <1>1, <1>6 DEF Goes, Lost, Stage, States, Histories
<1>10. Idle(t) /\ Placed(t)
  BY <1>6 DEF Good, Idle, Placed
<1>11. QED
  BY <1>6, <1>7, <1>8, <1>9, <1>10 DEF Good

\* resolve_symlink, whichever way.
LEMMA ResolvesLinks ==
    ASSUME NEW s, Good(s), s.ok, NEW dir \in Dirs,
           NEW t \in resolve_symlink(s, dir)
    PROVE  Fine(s, t)
<1>1. s \in States
  BY DEF Good
<1>2. SUFFICES \E u : Good(u) /\ Goes(s, u) /\ t = Resolved(u, dir)
  <2>1. PICK u : Good(u) /\ Goes(s, u) /\ t = Resolved(u, dir)
    BY <1>2
  <2>2. Good(t) /\ Goes(u, t) /\ t.ok
    BY <2>1, Resolves
  <2>3. u \in States /\ t \in States
    BY <2>1, <2>2 DEF Good
  <2>4. Goes(s, t)
    BY <1>1, <2>1, <2>2, <2>3, GoesOn
  <2>5. QED
    BY <2>2, <2>4 DEF Fine, Effect
<1>3. CASE s.bucket.strict
  <2>1. PICK d \in Dirs : \E u \in GetListing(s, d) : t = Resolved(u, dir)
    BY <1>3 DEF resolve_symlink
  <2>2. PICK u \in GetListing(s, d) : t = Resolved(u, dir)
    BY <2>1
  <2>3. Fine(s, u)
    BY <2>2, GetsListing
  <2>4. QED
    BY <2>2, <2>3 DEF Fine, Effect
<1>4. CASE ~s.bucket.strict
  <2>1. PICK u \in Then(Then(AtDir(s, dir), LAMBDA a : OpenList(a, dir)),
                        LAMBDA a : {Answered(e, "LIST") :
                                       e \in Ends(a, "LIST")}) :
           t = Resolved(u, dir)
    BY <1>4 DEF resolve_symlink
  <2>2. PICK b \in Then(AtDir(s, dir), LAMBDA a : OpenList(a, dir)) :
           u \in IF b.ok THEN {Answered(e, "LIST") : e \in Ends(b, "LIST")}
                 ELSE {b}
    BY <2>1 DEF Then
  <2>3. PICK a \in AtDir(s, dir) : b \in IF a.ok THEN OpenList(a, dir) ELSE {a}
    BY <2>2 DEF Then
  <2>4. a \in States
    <3>1. CASE ByChdir(s, dir)
      <4>1. At(s, dir, a)
        BY <2>3, <3>1, ChangesDir DEF AtDir
      <4>2. QED
        BY <4>1 DEF At, Fine, Good
    <3>2. CASE ~ByChdir(s, dir)
      BY <1>1, <2>3, <3>2 DEF AtDir
    <3>3. QED
      BY <3>1, <3>2
  <2>5. a = [a EXCEPT !.again = a.again]
    BY <2>4 DEF States
  <2>6. Listing(s, dir, b)
    BY <2>3, <2>4, <2>5, OpensListing
  <2>7. CASE ~b.ok
    <3>1. u = b
      BY <2>2, <2>7
    <3>2. Good(b) /\ Goes(s, b)
      BY <2>6, <2>7 DEF Listing, Good, Effect
    <3>3. QED
      BY <2>1, <3>1, <3>2
  <2>8. CASE b.ok
    <3>1. PICK e \in Ends(b, "LIST") : u = Answered(e, "LIST")
      BY <2>2, <2>8
    <3>2. "LIST" \in Transfers /\ b \in States /\ Busy(b, "LIST")
      BY <2>6, <2>8 DEF Transfers, Listing
    <3>3. Over(b, "LIST", e)
      BY <3>1, <3>2, Ending
    <3>4. Within(b, u) /\ Idle(u)
      BY <3>1, <3>2, <3>3, LastReply
    <3>5. Good(u)
      BY <2>6, <3>2, <3>4, WithinStays DEF Listing, Within, Good
    <3>6. Goes(s, u)
      BY <1>1, <2>6, <3>2, <3>4, GoesOn DEF Listing, Effect, Within
    <3>7. QED
      BY <2>1, <3>5, <3>6
  <2>9. QED
    BY <2>7, <2>8
<1>5. QED
  BY <1>3, <1>4

\* retrieve_dir.
LEMMA RetrievesDir ==
    ASSUME NEW s, Good(s), s.ok, NEW dir \in Dirs, NEW resolve,
           NEW t \in retrieve_dir(s, dir, resolve)
    PROVE  Fine(s, t)
<1>1. PICK u \in GetListing(s, dir) :
         t \in IF u.ok
               THEN IF resolve /\ u.cache[dir].links = "unresolved"
                    THEN resolve_symlink(u, dir) ELSE {u}
               ELSE {u}
  BY DEF retrieve_dir, Then
<1>2. Fine(s, u)
  BY GetsListing
<1>3. s \in States /\ u \in States /\ Good(u) /\ Goes(s, u)
  BY <1>2 DEF Fine, Good, Effect
<1>4. CASE t = u
  BY <1>2, <1>4
<1>5. CASE u.ok /\ t \in resolve_symlink(u, dir)
  BY <1>3, <1>5, ResolvesLinks, FineOn
<1>6. QED
  BY <1>1, <1>4, <1>5

\* What is not known of any directory.
LEMMA Flushing ==
    ASSUME NEW s \in States, NEW t, t = flush_all_directory(s)
    PROVE  /\ t \in States /\ CacheOK(t)
           /\ t.bucket = s.bucket /\ t.server = s.server /\ t.ok = s.ok
           /\ t.history = s.history /\ t.got_sigpipe = s.got_sigpipe
           /\ t.done = s.done /\ t.unsure = s.unsure
           /\ Good(s) => Good(t)
           /\ Goes(s, t)
<1>1. /\ t.cache = [d \in Dirs |-> NoListing]
      /\ t.bucket = s.bucket /\ t.server = s.server /\ t.ok = s.ok
      /\ t.history = s.history /\ t.got_sigpipe = s.got_sigpipe
      /\ t.done = s.done /\ t.unsure = s.unsure
  BY DEF flush_all_directory, States
<1>2. t.cache \in Caches /\ CacheOK(t)
  BY <1>1 DEF Caches, CacheOK
<1>3. t \in States
  <2>1. t = [s EXCEPT !.cache = t.cache]
    BY <1>1 DEF flush_all_directory
  <2>2. QED
    BY <1>2, <2>1 DEF States
<1>4. Goes(s, t)
  BY <1>1 DEF Goes, Lost, Stage, States, Histories
<1>5. Good(s) => Good(t)
  BY <1>1, <1>2, <1>3 DEF Good, Idle, Placed
<1>6. QED
  BY <1>1, <1>2, <1>3, <1>4, <1>5

-----------------------------------------------------------------------------
(* Files.                                                                   *)

\* What an operation does that may report success: then the server has done
\* it, unless a reply has been overlooked, or success says nothing.
Works(s, t) ==
    Fine(s, t) /\ (t.ok => t.done \/ t.history.overlooked \/ t.unsure)

\* An operation after another function.
LEMMA WorksOn ==
    ASSUME NEW s \in States, NEW t \in States, NEW u,
           Goes(s, t), Works(t, u)
    PROVE  Works(s, u)
BY FineOn DEF Works

\* The notice of how far the file is that is open.
Marking(s, l, t) ==
    /\ t \in States /\ t.bucket.linear = l
    /\ t.bucket.link = s.bucket.link /\ t.ok = s.ok /\ t.done = s.done
    /\ t.bucket.cwd = s.bucket.cwd /\ t.bucket.strict = s.bucket.strict
    /\ t.bucket.cwd_defered = s.bucket.cwd_defered
    /\ t.server = s.server /\ t.history = s.history
    /\ t.got_sigpipe = s.got_sigpipe /\ t.cache = s.cache
    /\ Idle(s) => Idle(t)
    /\ Placed(s) => Placed(t)
    /\ CacheOK(s) => CacheOK(t)
    /\ \A cmd : Busy(s, cmd) => Busy(t, cmd)
    /\ Stage(t) = Stage(s)
    /\ Lost(t) <=> Lost(s)

\* linear is no part of what the properties are about.
LEMMA Marked ==
    ASSUME NEW s \in States, NEW l \in Linear,
           NEW t, t = [s EXCEPT !.bucket.linear = l]
    PROVE  Marking(s, l, t)
<1>1. /\ t.bucket = [s.bucket EXCEPT !.linear = l]
      /\ t.ok = s.ok /\ t.done = s.done
      /\ t.server = s.server /\ t.history = s.history
      /\ t.got_sigpipe = s.got_sigpipe /\ t.cache = s.cache
  BY DEF States
<1>2. /\ t.bucket \in Buckets /\ t.bucket.linear = l
      /\ t.bucket.link = s.bucket.link /\ t.bucket.cwd = s.bucket.cwd
      /\ t.bucket.cwd_defered = s.bucket.cwd_defered
      /\ t.bucket.strict = s.bucket.strict
  BY <1>1 DEF States, Buckets
<1>3. t \in States
  BY <1>1, <1>2 DEF States
<1>4. Stage(t) = Stage(s) /\ (Lost(t) <=> Lost(s))
  BY <1>1, <1>2 DEF Stage, Lost
<1>5. /\ Idle(s) => Idle(t)
      /\ Placed(s) => Placed(t)
      /\ CacheOK(s) => CacheOK(t)
      /\ \A cmd : Busy(s, cmd) => Busy(t, cmd)
  BY <1>1, <1>2 DEF Idle, Placed, CacheOK, Busy
<1>6. QED
  BY <1>1, <1>2, <1>3, <1>4, <1>5 DEF Marking

\* That a reply is left unread is noted.
Noting(s, e, t) ==
    /\ Within(s, t) /\ t.bucket = s.bucket /\ t.server = s.server
    /\ t.ok = s.ok /\ t.history.overlooked = e
    /\ t.history.crossed = s.history.crossed
    /\ t.history.hung = s.history.hung

\* Setting the note changes nothing else.
LEMMA Noted ==
    ASSUME NEW s \in States, NEW e \in BOOLEAN, s.history.overlooked => e,
           NEW t, t = [s EXCEPT !.history.overlooked = e]
    PROVE  Noting(s, e, t)
<1>1. /\ t.history = [s.history EXCEPT !.overlooked = e]
      /\ t.bucket = s.bucket /\ t.server = s.server /\ t.ok = s.ok
      /\ t.got_sigpipe = s.got_sigpipe /\ t.cache = s.cache
  BY DEF States
<1>2. s.history \in Histories
  BY DEF States
<1>3. t.history \in Histories
  BY <1>1, <1>2 DEF Histories
<1>4. t \in States
  BY <1>1, <1>3 DEF States
<1>5. /\ t.history.overlooked = e
      /\ t.history.crossed = s.history.crossed
      /\ t.history.hung = s.history.hung
      /\ t.history.astray = s.history.astray
      /\ t.history.drops = s.history.drops
      /\ t.history.failed = s.history.failed
  BY <1>1, <1>2 DEF Histories
<1>6. Goes(s, t) /\ Settled(s, t)
  <2>1. Stage(s) \in 0..2 /\ s.history.drops \in Nat
    BY <1>2 DEF Stage, Histories
  <2>2. Stage(t) = Stage(s) /\ (Lost(t) <=> Lost(s))
    BY <1>1 DEF Stage, Lost
  <2>3. QED
    BY <1>1, <1>5, <2>1, <2>2 DEF Goes, Settled
<1>7. QED
  BY <1>1, <1>4, <1>5, <1>6 DEF Within, Noting

\* The rest of a transfer of which success may be reported.
Carried(s, t) == Within(s, t) /\ Idle(t) /\ (t.ok => t.done)

\* linear_read, to the end of the data or up to an interrupt.
LEMMA ReadsFile ==
    ASSUME NEW s \in States, Busy(s, "RETR"), NEW t \in linear_read(s)
    PROVE  \E u : Carried(s, u) /\ t = [u EXCEPT !.bucket.linear = "ended"]
<1>1. "RETR" \in Transfers
  BY DEF Transfers
<1>2. PICK u : /\ t = [u EXCEPT !.bucket.linear = "ended"]
               /\ u \in {Answered(e, "RETR") : e \in Ends(s, "RETR")}
                        \cup {[Fails(e) EXCEPT !.history.overlooked =
                                  @ \/ e.server.replies # <<>>] :
                                  e \in Ends(s, "RETR")}
                        \cup Interrupted(s, "RETR")
  BY DEF linear_read
<1>3. SUFFICES Carried(s, u)
  BY <1>2
<1>4. CASE u \in {Answered(e, "RETR") : e \in Ends(s, "RETR")}
  <2>1. PICK e \in Ends(s, "RETR") : u = Answered(e, "RETR")
    BY <1>4
  <2>2. Over(s, "RETR", e) /\ Faithful(e)
    BY <1>1, Ending
  <2>3. /\ Within(s, u) /\ Idle(u)
        /\ u.ok /\ Faithful(e) => u.done
    BY <1>1, <2>1, <2>2, LastReply
  <2>4. QED
    BY <2>2, <2>3 DEF Carried
<1>5. CASE u \in {[Fails(e) EXCEPT !.history.overlooked =
                      @ \/ e.server.replies # <<>>] : e \in Ends(s, "RETR")}
  <2>1. PICK e \in Ends(s, "RETR") :
           u = [Fails(e) EXCEPT !.history.overlooked =
                   @ \/ e.server.replies # <<>>]
    BY <1>5
  <2>2. Over(s, "RETR", e)
    BY <1>1, Ending
  <2>3. e \in States /\ Within(s, e)
    BY <2>2 DEF Over, Within
  <2>4. PICK f : f = Fails(e)
    OBVIOUS
  <2>5. Alike(e, f) /\ ~f.ok
    BY <2>3, <2>4, Failed
  <2>6. /\ f \in States /\ f.server = e.server /\ f.bucket = e.bucket
        /\ f.history = e.history
    BY <2>5 DEF Alike
  <2> DEFINE o == f.history.overlooked \/ e.server.replies # <<>>
  <2>7. o \in BOOLEAN /\ (f.history.overlooked => o)
        /\ (e.server.replies # <<>> => o)
    BY <2>6 DEF States, Histories
  <2>8. u = [f EXCEPT !.history.overlooked = o]
    <3>1. u = [f EXCEPT !.history.overlooked =
                  f.history.overlooked \/ e.server.replies # <<>>]
      BY <2>1, <2>4, <2>6 DEF States
    <3>2. QED
      BY <3>1
  <2> HIDE DEF o
  <2>9. Noting(f, o, u)
    BY <2>6, <2>7, <2>8, Noted
  <2>10. /\ Within(f, u) /\ u.bucket = f.bucket /\ u.server = f.server
        /\ u.ok = f.ok /\ u.history.overlooked = o
        /\ u.history.crossed = f.history.crossed
        /\ u.history.hung = f.history.hung
    BY <2>9 DEF Noting
  <2>11. Idle(u)
    <3>1. "RETR" \notin Plain
      BY DEF Plain
    <3>2. QED
      BY <2>2, <2>6, <2>7, <2>10, <3>1 DEF Over, Idle
  <2>12. Within(s, u)
    <3>1. Within(s, f)
      BY <2>3, <2>5, WithinSame, WithinOn
    <3>2. QED
      BY <2>10, <3>1, WithinOn
  <2>13. QED
    BY <2>5, <2>10, <2>11, <2>12 DEF Carried
<1>6. CASE u \in Interrupted(s, "RETR")
  BY <1>1, <1>6, Interrupting DEF Cut, Carried
<1>7. QED
  BY <1>2, <1>4, <1>5, <1>6

\* An operation that opens a transfer, carries it through, and forgets where
\* in the file it is.
LEMMA Transferred ==
    ASSUME NEW s, Good(s), NEW cmd \in Transfers,
           NEW u, Opened(s, cmd, u), NEW v, NEW t \in States,
           IF u.ok THEN Carried(u, v) ELSE v = u, Alike(v, t),
           t.ok = v.ok, t.done = v.done
    PROVE  Works(s, t)
<1>1. s \in States /\ u \in States /\ Placed(u) /\ CacheOK(u)
  BY DEF Good, Opened
<1>2. CASE ~u.ok
  <2>1. Good(u) /\ Effect(s, u) /\ v = u
    BY <1>2 DEF Opened, Good
  <2>2. Good(t) /\ Goes(s, t) /\ (Bites(s, u) => Bites(s, t))
    BY <1>1, <2>1, AlikeKeeps DEF Good, Effect
  <2>3. QED
    BY <1>2, <2>1, <2>2 DEF Works, Fine, Effect
<1>3. CASE u.ok
  <2>1. Within(u, v) /\ Idle(v) /\ (v.ok => v.done) /\ v \in States
    BY <1>3 DEF Carried, Within
  <2>2. Good(v)
    BY <1>1, <2>1, WithinStays DEF Good
  <2>3. Goes(s, v)
    BY <1>1, <2>1, GoesOn DEF Opened, Effect, Within
  <2>4. Good(t) /\ Goes(s, t)
    BY <2>1, <2>2, <2>3, AlikeKeeps DEF Good
  <2>5. Bites(s, t)
    BY <1>3 DEF Opened, Bites
  <2>6. QED
    BY <2>1, <2>4, <2>5 DEF Works, Fine, Effect
<1>4. QED
  BY <1>2, <1>3

\* What succeeds although not all was done is noted as such.
LEMMA Shortened ==
    ASSUME NEW s \in States, NEW S, \A x \in S : Works(s, x),
           NEW t \in WrittenShort(S)
    PROVE  Works(s, t)
<1>1. CASE t \in S
  BY <1>1
<1>2. ASSUME NEW x \in S, t = [x EXCEPT !.done = FALSE, !.unsure = TRUE]
      PROVE  Works(s, t)
  <2>1. Good(x) /\ Goes(s, x) /\ (~x.ok => Bites(s, x)) /\ x \in States
    BY <1>2 DEF Works, Fine, Good, Effect
  <2>2. Alike(x, t) /\ t.ok = x.ok /\ t.unsure
    <3>1. /\ t \in States /\ t.cache = x.cache /\ t.bucket = x.bucket
          /\ t.server = x.server /\ t.history = x.history
          /\ t.got_sigpipe = x.got_sigpipe
      BY <1>2, <2>1 DEF States
    <3>2. t.ok = x.ok /\ t.unsure
      BY <1>2, <2>1 DEF States
    <3>3. QED
      BY <3>1, <3>2 DEF Alike
  <2>3. Good(t) /\ Goes(s, t) /\ (Bites(s, x) => Bites(s, t))
    BY <2>1, <2>2, AlikeKeeps DEF Good
  <2>4. QED
    BY <2>1, <2>2, <2>3 DEF Works, Fine, Effect
<1>3. QED
  BY <1>1, <1>2 DEF WrittenShort

\* A file is read from its beginning to its end.
LEMMA ReadsThrough ==
    ASSUME NEW s, Good(s),
           NEW t \in {[x EXCEPT !.bucket.linear = s.bucket.linear] :
                         x \in Then(linear_start(s, FALSE), linear_read)}
    PROVE  Works(s, t)
<1>1. /\ s \in States /\ s.bucket.linear \in Linear
      /\ "RETR" \in Transfers /\ "binary" \in Types
      /\ "open" \in Linear /\ "ended" \in Linear
  BY DEF Good, States, Buckets, Transfers, Types, Linear
<1>2. PICK x \in Then(linear_start(s, FALSE), linear_read) :
         t = [x EXCEPT !.bucket.linear = s.bucket.linear]
  OBVIOUS
<1>3. PICK y \in linear_start(s, FALSE) : x \in IF y.ok THEN linear_read(y)
                                               ELSE {y}
  BY DEF Then
<1>4. PICK u \in open_data_connection(s, "RETR", NoDir, "binary", FALSE) :
         y = IF u.ok THEN [u EXCEPT !.bucket.linear = "open"] ELSE u
  BY <1>3 DEF linear_start
<1>5. Opened(s, "RETR", u)
  BY <1>1, Opening
<1>6. u \in States /\ Goes(s, u)
  BY <1>5 DEF Opened, Effect
<1>7. CASE ~u.ok
  <2>1. t = [u EXCEPT !.bucket.linear = s.bucket.linear]
    BY <1>2, <1>3, <1>4, <1>7
  <2>2. u.bucket.linear = s.bucket.linear
    BY <1>6 DEF Goes
  <2>3. t = u
    BY <1>6, <2>1, <2>2 DEF States, Buckets
  <2>4. Alike(u, u)
    BY <1>6 DEF Alike
  <2>5. QED
    BY <1>1, <1>5, <1>6, <1>7, <2>3, <2>4, Transferred
<1>8. CASE u.ok
  <2>1. y = [u EXCEPT !.bucket.linear = "open"]
    BY <1>4, <1>8
  <2>2. Marking(u, "open", y)
    BY <1>1, <1>6, <2>1, Marked
  <2>3. Busy(u, "RETR")
    BY <1>5, <1>8 DEF Opened
  <2>4. y \in States /\ y.ok /\ Busy(y, "RETR")
    BY <1>8, <2>2, <2>3 DEF Marking
  <2>5. PICK v : Carried(y, v) /\ x = [v EXCEPT !.bucket.linear = "ended"]
    BY <1>3, <2>4, ReadsFile
  <2>6. v \in States
    BY <2>5 DEF Carried, Within
  <2>7. Marking(v, "ended", x)
    BY <1>1, <2>5, <2>6, Marked
  <2>8. x \in States
    BY <2>7 DEF Marking
  <2>9. Marking(x, s.bucket.linear, t)
    BY <1>1, <1>2, <2>8, Marked
  <2>10. /\ y.bucket.link = u.bucket.link /\ y.bucket.cwd = u.bucket.cwd
         /\ y.bucket.strict = u.bucket.strict
         /\ y.bucket.cwd_defered = u.bucket.cwd_defered
         /\ y.server = u.server /\ y.history = u.history
         /\ y.cache = u.cache /\ Stage(y) = Stage(u)
         /\ Lost(y) <=> Lost(u)
    BY <2>2 DEF Marking
  <2>11. /\ t.bucket.link = v.bucket.link /\ t.bucket.cwd = v.bucket.cwd
         /\ t.bucket.strict = v.bucket.strict
         /\ t.bucket.cwd_defered = v.bucket.cwd_defered
         /\ t.server = v.server /\ t.history = v.history
         /\ t.cache = v.cache /\ Stage(t) = Stage(v)
         /\ (Lost(t) <=> Lost(v))
         /\ t.bucket.linear = s.bucket.linear /\ t \in States
         /\ t.ok = v.ok /\ t.done = v.done
         /\ Idle(v) => Idle(t)
    BY <2>7, <2>9 DEF Marking
  <2>12. Goes(y, v) /\ Settled(y, v) /\ v.server.cwd = y.server.cwd
    BY <2>5 DEF Carried, Within
  <2>13. t.bucket.linear = u.bucket.linear
    BY <1>6, <2>11 DEF Goes
  <2>14. Goes(u, t) /\ Settled(u, t)
    BY <2>10, <2>11, <2>12, <2>13 DEF Goes, Settled
  <2>15. Carried(u, t)
    BY <2>5, <2>10, <2>11, <2>12, <2>14 DEF Carried, Within
  <2>16. Alike(t, t)
    BY <2>11 DEF Alike
  <2>17. QED
    BY <1>1, <1>5, <1>8, <2>11, <2>15, <2>16, Transferred
<1>9. QED
  BY <1>7, <1>8

\* retrieve_file, the local copy included.
LEMMA RetrievesFile ==
    ASSUME NEW s, Good(s), NEW t \in retrieve_file(s)
    PROVE  Works(s, t)
<1>1. PICK S : S = {[x EXCEPT !.bucket.linear = s.bucket.linear] :
                      x \in Then(linear_start(s, FALSE), linear_read)}
  OBVIOUS
<1>2. \A x \in S : Works(s, x)
  BY <1>1, ReadsThrough
<1>3. t \in WrittenShort(S)
  BY <1>1 DEF retrieve_file
<1>4. s \in States
  BY DEF Good
<1>5. QED
  BY <1>2, <1>3, <1>4, Shortened

\* A file is sent; when the program knows that a part is missing it is no
\* success.
LEMMA SendsFile ==
    ASSUME NEW s, Good(s),
           NEW u \in open_data_connection(s, "STOR", NoDir, "binary", FALSE),
           NEW t, t \in IF u.ok
                        THEN {Answered(e, "STOR") : e \in Ends(u, "STOR")}
                             \cup {Fails(Answered([e EXCEPT !.done = FALSE],
                                                  "STOR")) :
                                      e \in Ends(u, "STOR")}
                        ELSE {u}
    PROVE  Works(s, t)
<1>1. "STOR" \in Transfers /\ "binary" \in Types
  BY DEF Transfers, Types
<1>2. t \in IF u.ok
            THEN {Answered(e, "STOR") : e \in Ends(u, "STOR")}
                 \cup {Fails(Answered([e EXCEPT !.done = FALSE], "STOR")) :
                          e \in Ends(u, "STOR")}
            ELSE {u}
  OBVIOUS
<1>3. Opened(s, "STOR", u)
  BY <1>1, Opening
<1>4. u \in States
  BY <1>3 DEF Opened
<1>5. CASE ~u.ok
  <2>1. t = u /\ Alike(u, u)
    BY <1>2, <1>4, <1>5 DEF Alike
  <2>2. QED
    BY <1>1, <1>3, <1>4, <1>5, <2>1, Transferred
<1>6. CASE u.ok
  <2>1. Busy(u, "STOR")
    BY <1>3, <1>6 DEF Opened
  <2>2. Carried(u, t)
    <3>1. CASE t \in {Answered(e, "STOR") : e \in Ends(u, "STOR")}
      <4>1. PICK e \in Ends(u, "STOR") : t = Answered(e, "STOR")
        BY <3>1
      <4>2. Over(u, "STOR", e) /\ Faithful(e)
        BY <1>1, <1>4, <2>1, Ending
      <4>3. /\ Within(u, t) /\ Idle(t)
            /\ t.ok /\ Faithful(e) => t.done
        BY <1>1, <1>4, <4>1, <4>2, LastReply
      <4>4. QED
        BY <4>2, <4>3 DEF Carried
    <3>2. CASE t \in {Fails(Answered([e EXCEPT !.done = FALSE], "STOR")) :
                         e \in Ends(u, "STOR")}
      <4>1. PICK e \in Ends(u, "STOR") :
               t = Fails(Answered([e EXCEPT !.done = FALSE], "STOR"))
        BY <3>2
      <4>2. Over(u, "STOR", e)
        BY <1>1, <1>4, <2>1, Ending
      <4>3. PICK f : f = [e EXCEPT !.done = FALSE]
        OBVIOUS
      <4>4. e \in States /\ Within(u, e)
        BY <4>2 DEF Over, Within
      <4>5. Alike(e, f)
        BY <4>3, <4>4, Undone
      <4>6. Over(u, "STOR", f)
        <5>1. Within(u, f)
          BY <1>4, <4>4, <4>5, WithinSame, WithinOn
        <5>2. f.bucket = e.bucket /\ f.server = e.server
              /\ f.history = e.history
          BY <4>5 DEF Alike
        <5>3. QED
          BY <4>2, <5>1, <5>2 DEF Over
      <4>7. PICK g : g = Answered(f, "STOR")
        OBVIOUS
      <4>8. Within(u, g) /\ Idle(g)
        BY <1>1, <1>4, <4>6, <4>7, LastReply
      <4>9. g \in States /\ t = Fails(g)
        BY <4>1, <4>3, <4>7, <4>8 DEF Within
      <4>10. Alike(g, t) /\ ~t.ok
        BY <4>9, Failed
      <4>11. Within(u, t) /\ Idle(t)
        BY <1>4, <4>8, <4>9, <4>10, WithinSame, WithinOn, AlikeKeeps
      <4>12. QED
        BY <4>10, <4>11 DEF Carried
    <3>3. QED
      BY <1>2, <1>6, <3>1, <3>2
  <2>3. t \in States /\ Alike(t, t)
    BY <2>2 DEF Carried, Within, Alike
  <2>4. QED
    BY <1>1, <1>3, <1>6, <2>2, <2>3, Transferred
<1>7. QED
  BY <1>5, <1>6

\* store_file.
LEMMA StoresFile ==
    ASSUME NEW s, Good(s), NEW t \in store_file(s)
    PROVE  Works(s, t)
<1>1. PICK S : S = Then(open_data_connection(s, "STOR", NoDir, "binary",
                                             FALSE), LAMBDA e :
               {Answered(u, "STOR") : u \in Ends(e, "STOR")}
               \cup {Fails(Answered([u EXCEPT !.done = FALSE], "STOR")) :
                        u \in Ends(e, "STOR")})
  OBVIOUS
<1>2. ASSUME NEW x \in S
      PROVE  Works(s, x)
  <2>1. PICK u \in open_data_connection(s, "STOR", NoDir, "binary", FALSE) :
           x \in IF u.ok
                 THEN {Answered(e, "STOR") : e \in Ends(u, "STOR")}
                      \cup {Fails(Answered([e EXCEPT !.done = FALSE],
                                           "STOR")) :
                               e \in Ends(u, "STOR")}
                 ELSE {u}
    BY <1>1, <1>2 DEF Then
  <2>2. QED
    BY <2>1, SendsFile
<1>3. t \in WrittenShort(S)
  BY <1>1 DEF store_file
<1>4. s \in States
  BY DEF Good
<1>5. QED
  BY <1>2, <1>3, <1>4, Shortened

\* What an operation ignores is noted.
LEMMA Passed ==
    ASSUME NEW s \in States, NEW t, t = Ignored(s)
    PROVE  Alike(s, t) /\ t.ok = s.ok /\ t.unsure
<1>1. /\ t \in States /\ t.cache = s.cache /\ t.bucket = s.bucket
      /\ t.server = s.server /\ t.history = s.history
      /\ t.got_sigpipe = s.got_sigpipe
  BY DEF Ignored, States
<1>2. t.ok = s.ok /\ t.unsure
  BY DEF Ignored, States
<1>3. QED
  BY <1>1, <1>2 DEF Alike

\* Nothing is done, and success reported.
LEMMA OnlyEmptied ==
    ASSUME NEW s, Good(s), s.ok
    PROVE  Works(s, Ignored(s))
<1>1. PICK t : t = Ignored(s)
  OBVIOUS
<1>2. s \in States /\ Effect(s, s)
  BY NoEffect DEF Good
<1>3. Alike(s, t) /\ t.ok = s.ok /\ t.unsure
  BY <1>1, <1>2, Passed
<1>4. Good(t) /\ Goes(s, t)
  BY <1>2, <1>3, AlikeKeeps DEF Good, Effect
<1>5. QED
  BY <1>1, <1>3, <1>4 DEF Works, Fine, Effect

\* SITE CHMOD, whose reply is read but not looked at.
LEMMA Chmods ==
    ASSUME NEW s, Good(s), NEW u \in command(s, "CHMOD", NoDir),
           NEW t, t = Ignored(u)
    PROVE  Works(s, t)
<1>1. /\ "CHMOD" \in Plain /\ "CHMOD" \notin Transfers
      /\ "CHMOD" # "CWD"
  BY DEF Plain, Transfers
<1>2. s \in States /\ Idle(s) /\ Placed(s) /\ CacheOK(s)
  BY DEF Good
<1>3. Commanded(s, "CHMOD", NoDir, u)
  BY <1>1, <1>2, Command
<1>4. /\ u \in States /\ Settled(s, u) /\ Goes(s, u) /\ Bites(s, u)
      /\ Idle(u) /\ u.server.cwd = s.server.cwd
  BY <1>1, <1>3 DEF Commanded
<1>5. Placed(u) /\ CacheOK(u)
  BY <1>2, <1>4, Stays
<1>6. Alike(u, t) /\ t.ok = u.ok /\ t.unsure
  BY <1>4, Passed
<1>7. Good(t) /\ Goes(s, t) /\ Bites(s, t)
  BY <1>4, <1>5, <1>6, AlikeKeeps DEF Good
<1>8. QED
  BY <1>6, <1>7 DEF Works, Fine, Effect

\* DELE, and what is like it, or RNTO.
LEMMA Deletes ==
    ASSUME NEW s, Good(s), NEW cmd \in {"DELE", "RNTO"},
           NEW t \in Ask(s, cmd, NoDir, COMPLETE)
    PROVE  Works(s, t)
<1>1. cmd \in Plain \ {"CWD"}
  BY DEF Plain
<1>2. Asked(s, t) /\ (t.ok => t.history.crossed \/ t.done)
  BY <1>1, AskPlain
<1>3. QED
  BY <1>2 DEF Asked, Works, Fine, Good, Idle

\* The listings may be flushed after an operation, if it succeeds or if it
\* does not.
LEMMA Flushes ==
    ASSUME NEW s \in States, NEW u, Works(s, u),
           NEW t \in Flushed(u) \cup {u, flush_all_directory(u)}
    PROVE  Works(s, t)
<1>1. u \in States
  BY DEF Works, Fine, Good
<1>2. CASE t = u
  BY <1>2
<1>3. CASE t = flush_all_directory(u)
  <2>1. /\ Good(t) /\ Goes(u, t) /\ t.ok = u.ok /\ t \in States
        /\ t.history = u.history /\ t.done = u.done /\ t.unsure = u.unsure
    BY <1>1, <1>3, Flushing DEF Works, Fine
  <2>2. Goes(s, t) /\ (~u.ok => Bites(s, t))
    BY <1>1, <2>1, GoesOn DEF Works, Fine, Effect
  <2>3. QED
    BY <1>3, <2>1, <2>2 DEF Works, Fine, Effect
<1>4. QED
  BY <1>2, <1>3 DEF Flushed

-----------------------------------------------------------------------------
(* The connection itself.                                                   *)

\* A login, or the freeing of a connection: nothing is to be read.
Fresh(s, t) ==
    /\ t \in States /\ t.ok = s.ok /\ t.server = AtLogin /\ Idle(t)
    /\ ~t.history.crossed /\ ~t.history.hung /\ t.history.failed = 0
    /\ t.history.drops = s.history.drops /\ ~t.got_sigpipe

\* Where the server is after a login.
LEMMA LoginState == AtLogin \in Servers /\ AtLogin.replies = <<>>
                    /\ AtLogin.transfer = "none" /\ AtLogin.cwd = Home
<1>1. <<>> \in Seq(Replies)
  OBVIOUS
<1>2. QED
  BY <1>1, FtpAssumption DEF AtLogin, Servers

\* What a new link has in common.
LEMMA NewLinks ==
    ASSUME NEW s \in States, NEW t, t = NewLink(s)
    PROVE  Fresh(s, t) /\ t.bucket = s.bucket /\ t.cache = s.cache
<1>1. t = [s EXCEPT !.server = AtLogin, !.got_sigpipe = FALSE,
                    !.history.crossed = FALSE, !.history.hung = FALSE,
                    !.history.overlooked = FALSE, !.history.astray = FALSE,
                    !.history.failed = 0]
  BY DEF NewLink
<1>2. PICK h : h = [s.history EXCEPT !.crossed = FALSE, !.hung = FALSE,
                                     !.overlooked = FALSE, !.astray = FALSE,
                                     !.failed = 0]
  OBVIOUS
<1>3. /\ t.history = h /\ t.server = AtLogin /\ ~t.got_sigpipe
      /\ t.bucket = s.bucket /\ t.cache = s.cache /\ t.ok = s.ok
  BY <1>1, <1>2 DEF States
<1>4. /\ h \in Histories /\ ~h.crossed /\ ~h.hung /\ h.failed = 0
      /\ h.drops = s.history.drops
  BY <1>2 DEF States, Histories
<1>5. t \in States
  <2>1. PICK u : u = [s EXCEPT !.got_sigpipe = FALSE]
    OBVIOUS
  <2>2. u \in States
    BY <2>1 DEF States
  <2>3. t = [u EXCEPT !.server = AtLogin, !.history = h]
    BY <1>1, <1>2, <2>1 DEF States
  <2>4. QED
    BY <1>4, <2>2, <2>3, LoginState DEF States
<1>6. Idle(t)
  BY <1>3, <1>4, LoginState DEF Idle
<1>7. QED
  BY <1>3, <1>4, <1>5, <1>6 DEF Fresh

\* After a login.
LEMMA Connects ==
    ASSUME NEW s \in States, CacheOK(s), NEW t, t = Connected(s)
    PROVE  /\ Fresh(s, t) /\ Good(t) /\ t.bucket.link = "up"
           /\ t.bucket.linear = s.bucket.linear
<1> DEFINE a == ~s.bucket.cwd_defered /\ s.bucket.cwd \notin {NoDir, Home}
<1>1. PICK u : u = NewLink(s)
  OBVIOUS
<1>2. Fresh(s, u) /\ u.bucket = s.bucket /\ u.cache = s.cache
  BY <1>1, NewLinks
<1>3. t = [u EXCEPT !.bucket.link = "up", !.bucket.type = "unknown",
                    !.history.astray = a]
  BY <1>1 DEF Connected
<1>4. a \in BOOLEAN /\ (a \/ s.bucket.cwd_defered
                        \/ s.bucket.cwd \in {NoDir, Home})
  BY DEF States, Buckets
<1> HIDE DEF a
<1>5. /\ u \in States /\ u.ok = s.ok /\ u.server = AtLogin
      /\ ~u.history.crossed /\ ~u.history.hung /\ u.history.failed = 0
      /\ u.history.drops = s.history.drops /\ ~u.got_sigpipe
  BY <1>2 DEF Fresh
<1>6. /\ t.bucket = [u.bucket EXCEPT !.link = "up", !.type = "unknown"]
      /\ t.history = [u.history EXCEPT !.astray = a]
      /\ t.server = u.server /\ t.cache = u.cache /\ t.ok = u.ok
      /\ t.got_sigpipe = u.got_sigpipe
  BY <1>3, <1>5 DEF States
<1>7. /\ t.bucket \in Buckets /\ t.bucket.link = "up"
      /\ t.bucket.linear = u.bucket.linear
      /\ t.bucket.cwd = u.bucket.cwd
      /\ t.bucket.cwd_defered = u.bucket.cwd_defered
  BY <1>5, <1>6 DEF States, Buckets, Links, Types
<1>8. /\ t.history \in Histories /\ t.history.astray = a
      /\ t.history.crossed = u.history.crossed
      /\ t.history.hung = u.history.hung
      /\ t.history.drops = u.history.drops
      /\ t.history.failed = u.history.failed
  BY <1>4, <1>5, <1>6 DEF States, Histories
<1>9. t \in States
  BY <1>3, <1>5, <1>6, <1>7, <1>8 DEF States
<1>10. Idle(t)
  BY <1>5, <1>6, <1>8, LoginState DEF Idle
<1>11. Placed(t)
  BY <1>2, <1>4, <1>5, <1>6, <1>7, <1>8, LoginState DEF Placed
<1>12. CacheOK(t)
  BY <1>2, <1>6 DEF CacheOK
<1>13. Fresh(s, t)
  BY <1>5, <1>6, <1>8, <1>9, <1>10 DEF Fresh
<1>14. QED
  BY <1>2, <1>7, <1>9, <1>10, <1>11, <1>12, <1>13 DEF Good

\* What is freed.
LEMMA Destroys ==
    ASSUME NEW s \in States, NEW t, t = connection_destructor(s)
    PROVE  /\ Fresh(s, t) /\ Good(t) /\ t.bucket.link = "none"
           /\ t.bucket.linear = "none"
<1>1. PICK u : u = flush_all_directory(s)
  OBVIOUS
<1>2. u \in States /\ CacheOK(u) /\ u.ok = s.ok /\ u.history = s.history
  BY <1>1, Flushing
<1>3. PICK v : v = NewLink(u)
  OBVIOUS
<1>4. Fresh(u, v) /\ v.cache = u.cache
  BY <1>2, <1>3, NewLinks
<1>5. t = [v EXCEPT !.bucket = NoBucket]
  BY <1>1, <1>3 DEF connection_destructor
<1>6. /\ NoBucket \in Buckets /\ NoBucket.link = "none"
      /\ NoBucket.linear = "none" /\ NoBucket.cwd = NoDir
  BY DEF NoBucket, Buckets, Links, Types, Linear
<1>7. v \in States /\ v.history \in Histories
  BY <1>4 DEF Fresh, States
<1>8. /\ t \in States /\ t.bucket = NoBucket /\ t.cache = v.cache
      /\ t.server = v.server /\ t.history = v.history /\ t.ok = v.ok
      /\ t.got_sigpipe = v.got_sigpipe
  BY <1>5, <1>6, <1>7 DEF States
<1>9. Idle(t)
  BY <1>4, <1>8, LoginState DEF Fresh, Idle
<1>10. Placed(t)
  BY <1>6, <1>8 DEF Placed
<1>11. CacheOK(t)
  BY <1>2, <1>4, <1>8 DEF CacheOK
<1>12. Fresh(s, t)
  BY <1>2, <1>4, <1>8, <1>9 DEF Fresh
<1>13. QED
  BY <1>6, <1>8, <1>9, <1>10, <1>11, <1>12 DEF Good

\* The link is as it was, not known to be lost; or it is new; or it is not
\* there.
Linked(s, t) ==
    /\ Good(t) /\ t.bucket.linear = s.bucket.linear
    /\ t.history.drops = s.history.drops
    /\ (t = s /\ ~s.got_sigpipe) \/ ~Lost(t)
    /\ t.ok => t.bucket.link # "none"

\* open_link: only a write that has failed makes the link anew.
LEMMA OpensLink ==
    ASSUME NEW s, Good(s), s.bucket.linear = "none", NEW t \in open_link(s)
    PROVE  Linked(s, t)
<1>1. s \in States /\ CacheOK(s)
  BY DEF Good
<1>2. CASE s.bucket.link = "none"
  <2>1. CASE t = Fails(s)
    <3>1. Alike(s, t) /\ ~t.ok
      BY <1>1, <2>1, Failed
    <3>2. Good(t) /\ t.bucket = s.bucket /\ t.history = s.history
      BY <1>1, <3>1, AlikeKeeps DEF Good, Alike
    <3>3. QED
      BY <1>2, <3>1, <3>2 DEF Linked, Lost
  <2>2. CASE t = Connected([s EXCEPT !.bucket.use_passive = TRUE])
    <3>1. PICK u : u = [s EXCEPT !.bucket.use_passive = TRUE]
      OBVIOUS
    <3>2. /\ u.bucket = [s.bucket EXCEPT !.use_passive = TRUE]
          /\ u.cache = s.cache /\ u.history = s.history
      BY <1>1, <3>1 DEF States
    <3>3. u.bucket \in Buckets /\ u.bucket.linear = s.bucket.linear
      BY <1>1, <3>2 DEF States, Buckets
    <3>4. u \in States /\ CacheOK(u)
      BY <1>1, <3>1, <3>2, <3>3 DEF States, CacheOK
    <3>5. /\ Fresh(u, t) /\ Good(t) /\ t.bucket.link = "up"
          /\ t.bucket.linear = u.bucket.linear
      BY <2>2, <3>1, <3>4, Connects
    <3>6. QED
      BY <3>2, <3>3, <3>5 DEF Fresh, Linked, Lost
  <2>3. QED
    BY <1>2, <2>1, <2>2 DEF open_link, open_command_connection
<1>3. CASE s.bucket.link # "none" /\ s.got_sigpipe
  <2>1. CASE t = Connected(flush_all_directory(s))
    <3>1. PICK u : u = flush_all_directory(s)
      OBVIOUS
    <3>2. /\ u \in States /\ CacheOK(u) /\ u.bucket = s.bucket
          /\ u.history = s.history
      BY <1>1, <3>1, Flushing
    <3>3. /\ Fresh(u, t) /\ Good(t) /\ t.bucket.link = "up"
          /\ t.bucket.linear = u.bucket.linear
      BY <2>1, <3>1, <3>2, Connects
    <3>4. QED
      BY <3>2, <3>3 DEF Fresh, Linked, Lost
  <2>2. CASE t = Fails(connection_destructor(s))
    <3>1. PICK u : u = connection_destructor(s)
      OBVIOUS
    <3>2. /\ Fresh(s, u) /\ Good(u) /\ u.bucket.link = "none"
          /\ u.bucket.linear = "none"
      BY <1>1, <3>1, Destroys
    <3>3. u \in States /\ u.history.drops = s.history.drops
      BY <3>2 DEF Fresh
    <3>4. Alike(u, t) /\ ~t.ok
      BY <2>2, <3>1, <3>3, Failed
    <3>5. Good(t) /\ t.bucket = u.bucket /\ t.history = u.history
      BY <3>2, <3>3, <3>4, AlikeKeeps DEF Good, Alike
    <3>6. QED
      BY <3>2, <3>3, <3>4, <3>5 DEF Linked, Lost
  <2>3. QED
    BY <1>3, <2>1, <2>2 DEF open_link, is_connection_closed
<1>4. CASE s.bucket.link # "none" /\ ~s.got_sigpipe
  <2>1. t = s
    BY <1>4 DEF open_link, is_connection_closed
  <2>2. QED
    BY <1>4, <2>1 DEF Linked
<1>5. QED
  BY <1>2, <1>3, <1>4

-----------------------------------------------------------------------------
(* Entry points.                                                            *)

\* What has become of the link since an entry point was called: if it was
\* lost before, and is lost still, it is nearer to being made again.
Since(s, t) ==
    /\ t \in States
    /\ t.history.drops >= s.history.drops
    /\ Lost(t) /\ t.history.drops = s.history.drops =>
          /\ Lost(s) /\ t.history.failed = s.history.failed
          /\ Stage(t) >= Stage(s) /\ Stage(s) <= 1

\* The link is opened.
LEMMA SinceOpened ==
    ASSUME NEW s \in States, NEW t, Linked(s, t)
    PROVE  Since(s, t)
<1>1. t \in States /\ t.history.drops \in Nat
  BY DEF Linked, Good, States, Histories
<1>2. Lost(s) /\ ~s.got_sigpipe => Stage(s) \in 0..1
  BY DEF Stage
<1>3. QED
  BY <1>1, <1>2 DEF Linked, Since

\* The link is opened once more, as in a rename.
LEMMA SinceOpenedAgain ==
    ASSUME NEW s \in States, NEW t, NEW u, Since(s, t), Linked(t, u)
    PROVE  Since(s, u)
BY DEF Linked, Good, Since

\* A function is called on it.
LEMMA SinceOn ==
    ASSUME NEW s \in States, NEW t, NEW u \in States, Since(s, t), Goes(t, u)
    PROVE  /\ Since(s, u)
           /\ Lost(u) /\ u.history.drops = s.history.drops =>
                 (Bites(t, u) => Bites(s, u))
<1>1. /\ s.history.drops \in Nat /\ t.history.drops \in Nat
      /\ u.history.drops \in Nat
  BY DEF Since, States, Histories
<1>2. Stage(s) \in 0..2 /\ Stage(t) \in 0..2 /\ Stage(u) \in 0..2
  BY DEF Stage
<1>3. u.history.drops >= t.history.drops /\ t.history.drops >= s.history.drops
  BY DEF Goes, Since
<1>4. u.history.drops >= s.history.drops
  BY <1>1, <1>3
<1>5. ASSUME Lost(u), u.history.drops = s.history.drops
      PROVE  /\ Lost(s) /\ u.history.failed = s.history.failed
             /\ Stage(u) >= Stage(s) /\ Stage(s) <= 1
             /\ Bites(t, u) => Bites(s, u)
  <2>1. t.history.drops = s.history.drops
    BY <1>1, <1>3, <1>5
  <2>2. Lost(t)
    BY <1>5, <2>1 DEF Goes
  <2>3. /\ Lost(s) /\ t.history.failed = s.history.failed
        /\ Stage(t) >= Stage(s) /\ Stage(s) <= 1
    BY <2>1, <2>2 DEF Since
  <2>4. u.history.failed = t.history.failed /\ Stage(u) >= Stage(t)
    BY <2>2 DEF Goes
  <2>5. Stage(u) >= Stage(s)
    BY <1>2, <2>3, <2>4
  <2>6. Bites(t, u) => Bites(s, u)
    BY <1>2, <2>2, <2>3 DEF Bites
  <2>7. QED
    BY <2>3, <2>4, <2>5, <2>6
<1>6. QED
  BY <1>4, <1>5 DEF Since

\* What an entry point leaves.
Left(s, t) ==
    /\ Good(t) /\ Since(s, t)
    /\ Lost(t) /\ t.history.drops = s.history.drops /\ ~t.ok => Bites(s, t)

\* The last function fails, or does not.
LEMMA LeftBy ==
    ASSUME NEW s \in States, NEW t, NEW u, Since(s, t), Fine(t, u)
    PROVE  Left(s, u)
<1>1. u \in States /\ Goes(t, u) /\ (~u.ok => Bites(t, u))
  BY DEF Fine, Good, Effect
<1>2. /\ Since(s, u)
      /\ Lost(u) /\ u.history.drops = s.history.drops =>
            (Bites(t, u) => Bites(s, u))
  BY <1>1, SinceOn
<1>3. QED
  BY <1>1, <1>2 DEF Left, Fine

\* The link is not opened, or nothing else is done.
LEMMA LeftOpened ==
    ASSUME NEW s \in States, NEW t, Since(s, t), Good(t), t.ok \/ ~Lost(t)
    PROVE  Left(s, t)
BY DEF Left

\* How many operations have failed since the link was lost.
LEMMA Counts ==
    ASSUME NEW s \in States, Repairing(s), NEW t, Left(s, t),
           NEW n, n = (IF ~Lost(t) \/ t.history.drops # s.history.drops THEN 0
                       ELSE IF Lost(s) /\ ~t.ok THEN t.history.failed + 1
                       ELSE t.history.failed)
    PROVE  n \in Nat /\ n <= (IF Lost(t) THEN Stage(t) ELSE 0)
<1>1. t \in States /\ t.history.failed \in Nat
  BY DEF Left, Good, States, Histories
<1>2. Stage(s) \in 0..2 /\ Stage(t) \in 0..2
  BY DEF Stage
<1>3. CASE ~Lost(t) \/ t.history.drops # s.history.drops
  BY <1>2, <1>3
<1>4. CASE Lost(t) /\ t.history.drops = s.history.drops
  <2>1. /\ Lost(s) /\ t.history.failed = s.history.failed
        /\ Stage(t) >= Stage(s) /\ Stage(s) <= 1
        /\ ~t.ok => Bites(s, t)
    BY <1>4 DEF Left, Since
  <2>2. t.history.failed <= Stage(s)
    BY <2>1 DEF Repairing
  <2>3. CASE t.ok
    BY <1>1, <1>2, <1>4, <2>1, <2>2, <2>3
  <2>4. CASE ~t.ok
    <3>1. Stage(t) > Stage(s) \/ Stage(t) = 2
      BY <2>1, <2>4 DEF Bites
    <3>2. n = t.history.failed + 1
      BY <1>4, <2>1, <2>4
    <3>3. QED
      BY <1>1, <1>2, <1>4, <2>1, <2>2, <3>1, <3>2
  <2>5. QED
    BY <2>3, <2>4
<1>5. QED
  BY <1>3, <1>4

\* What an entry point notes of its outcome.
Noticed(s, n, t) ==
    /\ t \in States /\ t.bucket = s.bucket /\ t.server = s.server
    /\ t.cache = s.cache /\ t.got_sigpipe = s.got_sigpipe
    /\ t.history.crossed = s.history.crossed
    /\ t.history.hung = s.history.hung
    /\ t.history.overlooked = s.history.overlooked
    /\ t.history.astray = s.history.astray
    /\ t.history.failed = n

\* Counted and Reports change what they are to note only.
LEMMA Notices ==
    ASSUME NEW s \in States, NEW n \in Nat, NEW claims \in BOOLEAN,
           NEW u, u = [s EXCEPT !.history.failed = n],
           NEW t, t = Reports(u, claims)
    PROVE  /\ Noticed(s, n, t)
           /\ t.history.lied => /\ claims /\ s.ok /\ ~s.done
                                /\ s.unsure => t.history.unsure
<1> DEFINE e == claims /\ u.ok /\ ~u.done
           f == e /\ u.unsure
<1>1. /\ u.history = [s.history EXCEPT !.failed = n]
      /\ u.bucket = s.bucket /\ u.server = s.server /\ u.ok = s.ok
      /\ u.cache = s.cache /\ u.got_sigpipe = s.got_sigpipe
      /\ u.done = s.done /\ u.unsure = s.unsure
  BY DEF States
<1>2. u.history \in Histories
  BY <1>1 DEF States, Histories
<1>3. u \in States
  BY <1>1, <1>2 DEF States
<1>4. /\ u.history.crossed = s.history.crossed
      /\ u.history.hung = s.history.hung
      /\ u.history.overlooked = s.history.overlooked
      /\ u.history.astray = s.history.astray
      /\ u.history.failed = n
  BY <1>1 DEF States, Histories
<1>5. /\ e \in BOOLEAN /\ (e => claims /\ s.ok /\ ~s.done)
      /\ f \in BOOLEAN /\ (e /\ s.unsure => f)
  BY <1>1, <1>3 DEF States
<1>6. t = [u EXCEPT !.history.lied = e, !.history.unsure = f]
  BY DEF Reports
<1> HIDE DEF e, f
<1>7. /\ t.history = [u.history EXCEPT !.lied = e, !.unsure = f]
      /\ t.bucket = u.bucket /\ t.server = u.server
      /\ t.cache = u.cache /\ t.got_sigpipe = u.got_sigpipe
  BY <1>3, <1>6 DEF States
<1>8. t.history \in Histories
  BY <1>2, <1>5, <1>7 DEF Histories
<1>9. t \in States
  BY <1>3, <1>6, <1>7, <1>8 DEF States
<1>10. /\ t.history.crossed = u.history.crossed
       /\ t.history.hung = u.history.hung
       /\ t.history.overlooked = u.history.overlooked
       /\ t.history.astray = u.history.astray
       /\ t.history.failed = u.history.failed
       /\ t.history.lied = e /\ t.history.unsure = f
  BY <1>2, <1>7 DEF Histories
<1>11. QED
  BY <1>1, <1>4, <1>5, <1>7, <1>9, <1>10 DEF Noticed

\* A state that the notes of an entry point make safe.
LEMMA Noticing ==
    ASSUME NEW s \in States, Placed(s), CacheOK(s),
           IF s.bucket.linear = "open" THEN Busy(s, "RETR") ELSE Idle(s),
           s.bucket.linear # "none" => s.bucket.link # "none",
           NEW n, n <= (IF Lost(s) THEN Stage(s) ELSE 0),
           NEW t, Noticed(s, n, t),
           t.history.lied => s.history.overlooked \/ t.history.unsure
    PROVE  Safe(t)
<1>1. t \in States /\ Placed(t) /\ CacheOK(t)
  BY DEF Noticed, Placed, CacheOK
<1>2. Repairing(t)
  BY DEF Noticed, Repairing, Lost, Stage
<1>3. IF t.bucket.linear = "open" THEN Busy(t, "RETR") ELSE Idle(t)
  <2>1. Idle(s) => Idle(t)
    BY DEF Noticed, Idle
  <2>2. Busy(s, "RETR") => Busy(t, "RETR")
    BY DEF Noticed, Busy
  <2>3. QED
    BY <2>1, <2>2 DEF Noticed
<1>4. QED
  BY <1>1, <1>2, <1>3 DEF Safe, Noticed

\* The state becomes what an entry point leaves.
LEMMA Becoming ==
    ASSUME NEW t, Safe(t), Becomes(t)
    PROVE  Inv'
<1>1. PICK q : q = Now'
  OBVIOUS
<1>2. /\ q.bucket = t.bucket /\ q.server = t.server /\ q.cache = t.cache
      /\ q.got_sigpipe = t.got_sigpipe /\ q.force = t.force
      /\ q.history = t.history /\ q.code = 0 /\ q.ok = TRUE
      /\ q.done = FALSE /\ q.rnfr = FALSE /\ q.again = FALSE
      /\ q.unsure = FALSE
  BY <1>1 DEF Becomes, Now
<1>3. q = [bucket |-> q.bucket, server |-> q.server, cache |-> q.cache,
           got_sigpipe |-> q.got_sigpipe, force |-> q.force,
           history |-> q.history, code |-> q.code, ok |-> q.ok,
           done |-> q.done, rnfr |-> q.rnfr, again |-> q.again,
           unsure |-> q.unsure]
  BY <1>1, <1>2 DEF Now
<1>4. q \in States
  <2>1. 0 \in Results
    BY DEF Results
  <2>2. t \in States
    BY DEF Safe
  <2>3. QED
    BY <1>2, <1>3, <2>1, <2>2 DEF States
<1>5. Alike(t, q)
  BY <1>2, <1>4 DEF Alike
<1>6. Safe(q)
  <2>1. /\ Idle(t) => Idle(q)
        /\ Placed(t) => Placed(q)
        /\ CacheOK(t) => CacheOK(q)
        /\ Busy(t, "RETR") => Busy(q, "RETR")
    BY <1>5, AlikeKeeps DEF Safe
  <2>2. Repairing(t) => Repairing(q)
    BY <1>2 DEF Repairing, Lost, Stage
  <2>3. QED
    BY <1>2, <1>4, <2>1, <2>2 DEF Safe
<1>7. QED
  BY <1>1, <1>6 DEF Inv

\* What an entry point leaves that may report success or not.
Leaves(s, t, claims) ==
    /\ Left(s, t) /\ t.bucket.linear # "open"
    /\ t.bucket.linear # "none" => t.bucket.link # "none"
    /\ claims /\ t.ok => t.done \/ t.history.overlooked \/ t.unsure

\* An entry point whose failures count.
LEMMA Calling ==
    ASSUME Inv, NEW S, NEW claims \in BOOLEAN, Calls(S, claims),
           \A t \in S : Leaves(Now, t, claims)
    PROVE  Inv'
<1>1. PICK t \in S : Becomes(Reports(Counted(t), claims))
  BY DEF Calls
<1>2. Leaves(Now, t, claims)
  BY <1>1
<1>3. PICK s : s = Now
  OBVIOUS
<1>4. s \in States /\ Repairing(s) /\ s.history = history
  BY <1>3 DEF Inv, Safe, Now
<1>5. Left(s, t)
  BY <1>2, <1>3 DEF Leaves
<1>6. t \in States /\ Placed(t) /\ CacheOK(t) /\ Idle(t)
  BY <1>5 DEF Left, Good
<1>7. PICK n : n = (IF ~Lost(t) \/ t.history.drops # s.history.drops THEN 0
                    ELSE IF Lost(s) /\ ~t.ok THEN t.history.failed + 1
                    ELSE t.history.failed)
  OBVIOUS
<1>8. n \in Nat /\ n <= (IF Lost(t) THEN Stage(t) ELSE 0)
  BY <1>4, <1>5, <1>7, Counts
<1>9. PICK u : u = Counted(t)
  OBVIOUS
<1>10. u = [t EXCEPT !.history.failed = n]
  <2>1. u = [t EXCEPT !.history.failed =
                IF ~Lost(t) \/ t.history.drops # s.history.drops THEN 0
                ELSE IF Lost(s) /\ ~t.ok THEN t.history.failed + 1
                ELSE t.history.failed]
    BY <1>3, <1>4, <1>6, <1>9 DEF Counted, States
  <2>2. QED
    BY <1>7, <2>1
<1>11. PICK v : v = Reports(u, claims)
  OBVIOUS
<1>12. /\ Noticed(t, n, v)
       /\ v.history.lied => /\ claims /\ t.ok /\ ~t.done
                            /\ t.unsure => v.history.unsure
  BY <1>6, <1>8, <1>10, <1>11, Notices
<1>13. Safe(v)
  BY <1>2, <1>6, <1>8, <1>12, Noticing DEF Leaves
<1>14. QED
  BY <1>1, <1>9, <1>11, <1>13, Becoming

\* The state in which an entry point is called.
LEMMA NowIs ==
    ASSUME Inv
    PROVE  /\ Now \in States /\ Placed(Now) /\ CacheOK(Now)
           /\ Repairing(Now) /\ Now.ok
           /\ IF bucket.linear = "open" THEN Busy(Now, "RETR") ELSE Idle(Now)
           /\ bucket.linear # "none" => bucket.link # "none"
           /\ Now.bucket = bucket /\ Now.history = history
           /\ Now.server = server /\ Now.got_sigpipe = got_sigpipe
           /\ bucket.linear # "open" => Good(Now)
<1>1. /\ Now.bucket = bucket /\ Now.history = history /\ Now.ok
      /\ Now.server = server /\ Now.got_sigpipe = got_sigpipe
  BY DEF Now
<1> HIDE DEF Now
<1>2. QED
  BY <1>1 DEF Inv, Safe, Good

\* The link is opened.
LEMMA Starting ==
    ASSUME Inv, bucket.linear = "none", NEW u \in open_link(Now)
    PROVE  /\ u \in States /\ Good(u) /\ Since(Now, u)
           /\ u.bucket.linear = "none"
           /\ u.ok => u.bucket.link # "none"
           /\ ~u.ok => \A claims : Leaves(Now, u, claims)
<1>1. PICK s : s = Now
  OBVIOUS
<1>2. s \in States /\ Good(s) /\ s.bucket.linear = "none" /\ s.ok
  BY <1>1, NowIs
<1>3. Linked(s, u)
  BY <1>1, <1>2, OpensLink
<1>4. Since(s, u)
  BY <1>2, <1>3, SinceOpened
<1>5. ~u.ok => ~Lost(u)
  BY <1>2, <1>3 DEF Linked
<1>6. Good(u) /\ u.bucket.linear = "none" /\ (u.ok => u.bucket.link # "none")
  BY <1>2, <1>3 DEF Linked
<1>7. ~u.ok => Left(s, u)
  BY <1>2, <1>4, <1>5, <1>6, LeftOpened
<1>8. QED
  BY <1>1, <1>4, <1>6, <1>7 DEF Leaves, Good

\* What a function on an open link leaves.
LEMMA Leaving ==
    ASSUME NEW s \in States, NEW u, Since(s, u), u.bucket.linear = "none",
           NEW t, Fine(u, t), NEW claims,
           claims /\ t.ok => t.done \/ t.history.overlooked \/ t.unsure
    PROVE  Leaves(s, t, claims)
<1>1. Left(s, t)
  BY LeftBy
<1>2. t.bucket.linear = "none"
  BY DEF Fine, Effect, Goes
<1>3. QED
  BY <1>1, <1>2 DEF Leaves

\* opendir and stat.
LEMMA LookKeeps == Inv /\ Look => Inv'
<1>1. SUFFICES ASSUME Inv, Look PROVE Inv'
  OBVIOUS
<1>2. PICK d \in Dirs, resolve \in BOOLEAN :
         Calls(Then(open_link(Now), LAMBDA s : retrieve_dir(s, d, resolve)),
               FALSE)
  BY <1>1 DEF Look, OnPath
<1>3. bucket.linear = "none"
  BY <1>2 DEF Calls
<1>4. ASSUME NEW t \in Then(open_link(Now),
                            LAMBDA s : retrieve_dir(s, d, resolve))
      PROVE  Leaves(Now, t, FALSE)
  <2>1. PICK u \in open_link(Now) :
           t \in IF u.ok THEN retrieve_dir(u, d, resolve) ELSE {u}
    BY <1>4 DEF Then
  <2>2. /\ Good(u) /\ Since(Now, u) /\ u.bucket.linear = "none"
        /\ ~u.ok => Leaves(Now, u, FALSE)
    BY <1>1, <1>3, <2>1, Starting
  <2>3. CASE u.ok
    <3>1. Fine(u, t)
      BY <2>1, <2>2, <2>3, RetrievesDir
    <3>2. QED
      BY <1>1, <2>2, <3>1, Leaving, NowIs
  <2>4. QED
    BY <2>1, <2>2, <2>3
<1>5. QED
  BY <1>1, <1>2, <1>4, Calling

\* A directory is only noted.
LEMMA Defers ==
    ASSUME NEW s, Good(s), s.ok, NEW d \in Dirs,
           NEW t, t = [s EXCEPT !.bucket.cwd = d, !.bucket.cwd_defered = TRUE,
                                !.history.astray = FALSE]
    PROVE  Fine(s, t)
<1>1. s \in States /\ CacheOK(s) /\ Idle(s)
  BY DEF Good
<1>2. /\ t.bucket = [s.bucket EXCEPT !.cwd = d, !.cwd_defered = TRUE]
      /\ t.history = [s.history EXCEPT !.astray = FALSE]
      /\ t.server = s.server /\ t.cache = s.cache
      /\ t.got_sigpipe = s.got_sigpipe /\ t.ok = s.ok
  BY <1>1 DEF States
<1>3. /\ t.bucket \in Buckets /\ t.bucket.link = s.bucket.link
      /\ t.bucket.linear = s.bucket.linear /\ t.bucket.cwd_defered
  BY <1>1, <1>2 DEF States, Buckets
<1>4. /\ t.history \in Histories
      /\ t.history.crossed = s.history.crossed
      /\ t.history.hung = s.history.hung
      /\ t.history.overlooked = s.history.overlooked
      /\ t.history.drops = s.history.drops
      /\ t.history.failed = s.history.failed
      /\ t.history.drops \in Nat
  BY <1>1, <1>2 DEF States, Histories
<1>5. t \in States
  BY <1>1, <1>2, <1>3, <1>4 DEF States
<1>6. Stage(t) = Stage(s) /\ (Lost(t) <=> Lost(s)) /\ Stage(s) \in 0..2
  BY <1>2, <1>3 DEF Stage, Lost
<1>7. Goes(s, t)
  BY <1>3, <1>4, <1>6 DEF Goes
<1>8. Idle(t) /\ Placed(t) /\ CacheOK(t)
  BY <1>1, <1>2, <1>3, <1>4 DEF Idle, Placed, CacheOK
<1>9. QED
  BY <1>2, <1>5, <1>7, <1>8 DEF Fine, Good, Effect

\* chdir.
LEMMA ChdirKeeps == Inv /\ s_chdir => Inv'
<1>1. SUFFICES ASSUME Inv, s_chdir PROVE Inv'
  OBVIOUS
<1>2. PICK d \in Dirs :
         Calls(Then(open_link(Now), LAMBDA s :
                   {[s EXCEPT !.bucket.cwd = d, !.bucket.cwd_defered = TRUE,
                              !.history.astray = FALSE]}), FALSE)
  BY <1>1 DEF s_chdir, OnPath
<1>3. bucket.linear = "none"
  BY <1>2 DEF Calls
<1>4. ASSUME NEW t \in Then(open_link(Now), LAMBDA s :
                   {[s EXCEPT !.bucket.cwd = d, !.bucket.cwd_defered = TRUE,
                              !.history.astray = FALSE]})
      PROVE  Leaves(Now, t, FALSE)
  <2>1. PICK u \in open_link(Now) :
           t \in IF u.ok
                 THEN {[u EXCEPT !.bucket.cwd = d,
                                 !.bucket.cwd_defered = TRUE,
                                 !.history.astray = FALSE]}
                 ELSE {u}
    BY <1>4 DEF Then
  <2>2. /\ Good(u) /\ Since(Now, u) /\ u.bucket.linear = "none"
        /\ ~u.ok => Leaves(Now, u, FALSE)
    BY <1>1, <1>3, <2>1, Starting
  <2>3. CASE u.ok
    <3>1. Fine(u, t)
      BY <2>1, <2>2, <2>3, Defers
    <3>2. QED
      BY <1>1, <2>2, <3>1, Leaving, NowIs
  <2>4. QED
    BY <2>1, <2>2, <2>3
<1>5. QED
  BY <1>1, <1>2, <1>4, Calling

\* unlink, mkdir and rmdir.
LEMMA CommandKeeps == Inv /\ send_ftp_command => Inv'
<1>1. SUFFICES ASSUME Inv, send_ftp_command PROVE Inv'
  OBVIOUS
<1>2. Calls(Then(open_link(Now), LAMBDA s :
                Each(Ask(s, "DELE", NoDir, COMPLETE), Flushed)), TRUE)
  BY <1>1 DEF send_ftp_command, OnPath
<1>3. bucket.linear = "none"
  BY <1>2 DEF Calls
<1>4. ASSUME NEW t \in Then(open_link(Now), LAMBDA s :
                Each(Ask(s, "DELE", NoDir, COMPLETE), Flushed))
      PROVE  Leaves(Now, t, TRUE)
  <2>1. PICK u \in open_link(Now) :
           t \in IF u.ok
                 THEN Each(Ask(u, "DELE", NoDir, COMPLETE), Flushed)
                 ELSE {u}
    BY <1>4 DEF Then
  <2>2. /\ Good(u) /\ Since(Now, u) /\ u.bucket.linear = "none"
        /\ ~u.ok => Leaves(Now, u, TRUE)
        /\ u \in States
    BY <1>1, <1>3, <2>1, Starting
  <2>3. CASE u.ok
    <3>1. PICK v \in Ask(u, "DELE", NoDir, COMPLETE) : t \in Flushed(v)
      BY <2>1, <2>3 DEF Each
    <3>2. Works(u, v)
      BY <2>2, Deletes
    <3>3. Works(u, t)
      BY <2>2, <3>1, <3>2, Flushes
    <3>4. QED
      BY <1>1, <2>2, <3>3, Leaving, NowIs DEF Works
  <2>4. QED
    BY <2>1, <2>2, <2>3
<1>5. QED
  BY <1>1, <1>2, <1>4, Calling

\* chmod.
LEMMA ChmodKeeps == Inv /\ ftpfs_chmod => Inv'
<1>1. SUFFICES ASSUME Inv, ftpfs_chmod PROVE Inv'
  OBVIOUS
<1>2. Calls(Then(open_link(Now), LAMBDA s :
                Each(command(s, "CHMOD", NoDir),
                     LAMBDA t : Flushed(Ignored(t)))), TRUE)
  BY <1>1 DEF ftpfs_chmod, OnPath
<1>3. bucket.linear = "none"
  BY <1>2 DEF Calls
<1>4. ASSUME NEW t \in Then(open_link(Now), LAMBDA s :
                Each(command(s, "CHMOD", NoDir),
                     LAMBDA e : Flushed(Ignored(e))))
      PROVE  Leaves(Now, t, TRUE)
  <2>1. PICK u \in open_link(Now) :
           t \in IF u.ok
                 THEN Each(command(u, "CHMOD", NoDir),
                           LAMBDA e : Flushed(Ignored(e)))
                 ELSE {u}
    BY <1>4 DEF Then
  <2>2. /\ Good(u) /\ Since(Now, u) /\ u.bucket.linear = "none"
        /\ ~u.ok => Leaves(Now, u, TRUE)
        /\ u \in States
    BY <1>1, <1>3, <2>1, Starting
  <2>3. CASE u.ok
    <3>1. PICK v \in command(u, "CHMOD", NoDir) : t \in Flushed(Ignored(v))
      BY <2>1, <2>3 DEF Each
    <3>2. PICK w : w = Ignored(v)
      OBVIOUS
    <3>3. Works(u, w)
      BY <2>2, <3>2, Chmods
    <3>4. Works(u, t)
      BY <2>2, <3>1, <3>2, <3>3, Flushes
    <3>5. QED
      BY <1>1, <2>2, <3>4, Leaving, NowIs DEF Works
  <2>4. QED
    BY <2>1, <2>2, <2>3
<1>5. QED
  BY <1>1, <1>2, <1>4, Calling

\* A command whose outcome is not looked at.
LEMMA Ignoring ==
    ASSUME NEW s \in States, NEW t, t = [s EXCEPT !.ok = TRUE]
    PROVE  Alike(s, t) /\ t.ok
BY DEF States, Alike

\* rename, the outcome of whose first command is not looked at.
LEMMA RenameKeeps == Inv /\ ftpfs_rename => Inv'
<1> DEFINE again(s) == Then(open_link([s EXCEPT !.ok = TRUE]), RnTo)
           S == Each(RnFr, again)
<1>1. SUFFICES ASSUME Inv, ftpfs_rename PROVE Inv'
  OBVIOUS
<1>2. Calls(S, TRUE)
  BY <1>1 DEF ftpfs_rename
<1>3. bucket.linear = "none"
  BY <1>2 DEF Calls
<1>4. ASSUME NEW t \in S
      PROVE  Leaves(Now, t, TRUE)
  <2>1. PICK v \in RnFr : t \in Then(open_link([v EXCEPT !.ok = TRUE]), RnTo)
    BY <1>4 DEF Each
  <2> HIDE DEF again, S
  <2>2. PICK u \in open_link(Now) :
           v \in IF u.ok THEN command(u, "RNFR", NoDir) ELSE {u}
    BY <2>1 DEF RnFr, Then
  <2>3. PICK s : s = Now
    OBVIOUS
  <2>4. s \in States
    BY <1>1, <2>3, NowIs
  <2>5. /\ u \in States /\ Good(u) /\ Since(s, u)
        /\ u.bucket.linear = "none"
    BY <1>1, <1>3, <2>3, Starting
  <2>6. Good(v) /\ Since(s, v) /\ v.bucket.linear = "none"
    <3>1. CASE u.ok
      <4>1. /\ "RNFR" \in Plain /\ "RNFR" \notin Transfers
            /\ "RNFR" # "CWD"
        BY DEF Plain, Transfers
      <4>2. v \in command(u, "RNFR", NoDir)
        BY <2>2, <3>1
      <4>3. Commanded(u, "RNFR", NoDir, v)
        BY <2>5, <4>1, <4>2, Command DEF Good
      <4>4. /\ v \in States /\ Settled(u, v) /\ Goes(u, v) /\ Idle(v)
            /\ v.server.cwd = u.server.cwd
        BY <4>1, <4>3 DEF Commanded
      <4>5. Placed(v) /\ CacheOK(v)
        BY <2>5, <4>4, Stays DEF Good
      <4>6. Since(s, v)
        BY <2>4, <2>5, <4>4, SinceOn
      <4>7. v.bucket.linear = "none"
        BY <2>5, <4>4 DEF Goes
      <4>8. QED
        BY <4>4, <4>5, <4>6, <4>7 DEF Good
    <3>2. CASE ~u.ok
      BY <2>2, <2>5, <3>2
    <3>3. QED
      BY <3>1, <3>2
  <2>7. PICK w : w = [v EXCEPT !.ok = TRUE]
    OBVIOUS
  <2>8. v \in States
    BY <2>6 DEF Good
  <2>9. Alike(v, w) /\ w.ok
    BY <2>7, <2>8, Ignoring
  <2>10. Good(w) /\ w \in States /\ w.bucket = v.bucket
         /\ w.history = v.history /\ w.got_sigpipe = v.got_sigpipe
    BY <2>6, <2>8, <2>9, AlikeKeeps DEF Good, Alike
  <2>11. Since(s, w)
    <3>1. Stage(w) = Stage(v) /\ (Lost(w) <=> Lost(v))
      BY <2>10 DEF Stage, Lost
    <3>2. QED
      BY <2>6, <2>10, <3>1 DEF Since
  <2>12. PICK x \in open_link(w) : t \in IF x.ok THEN RnTo(x) ELSE {x}
    BY <2>1, <2>7 DEF Then
  <2>13. Linked(w, x)
    BY <2>6, <2>10, <2>12, OpensLink
  <2>14. Since(s, x)
    BY <2>4, <2>11, <2>13, SinceOpenedAgain
  <2>15. Good(x) /\ x.bucket.linear = "none" /\ x \in States
    BY <2>6, <2>10, <2>13 DEF Linked, Good
  <2>16. CASE ~x.ok
    <3>1. ~Lost(x)
      BY <2>9, <2>13, <2>16 DEF Linked
    <3>2. Left(s, x)
      BY <2>4, <2>14, <2>15, <3>1, LeftOpened
    <3>3. t = x
      BY <2>12, <2>16
    <3>4. QED
      BY <2>3, <2>15, <2>16, <3>2, <3>3 DEF Leaves
  <2>17. CASE x.ok
    <3>1. PICK y \in Ask(x, "RNTO", NoDir, COMPLETE) : t \in Flushed(y)
      BY <2>12, <2>17 DEF RnTo, Each
    <3>2. Works(x, y)
      BY <2>15, Deletes
    <3>3. Works(x, t)
      BY <2>15, <3>1, <3>2, Flushes
    <3>4. Leaves(s, t, TRUE)
      BY <2>4, <2>14, <2>15, <3>3, Leaving DEF Works
    <3>5. QED
      BY <2>3, <3>4
  <2>18. QED
    BY <2>16, <2>17
<1>5. QED
  BY <1>1, <1>2, <1>4, Calling

\* What the listing has returned is put aside.
LEMMA Renewing ==
    ASSUME NEW s \in States, NEW t, t = Afresh(s)
    PROVE  Alike(s, t) /\ t.ok = s.ok
<1>1. 0 \in Results
  BY DEF Results
<1>2. /\ t \in States /\ t.cache = s.cache /\ t.bucket = s.bucket
      /\ t.server = s.server /\ t.history = s.history
      /\ t.got_sigpipe = s.got_sigpipe
  BY <1>1 DEF Afresh, States
<1>3. t.ok = s.ok
  BY DEF Afresh, States
<1>4. QED
  BY <1>2, <1>3 DEF Alike

\* The directory of a file has been looked at.
LEMMA Looked ==
    ASSUME NEW u, Good(u), u.ok, NEW d \in Dirs,
           NEW w \in {Afresh(v) : v \in retrieve_dir(u, d, TRUE)}
    PROVE  Fine(u, w) /\ w \in States /\ Good(w) /\ Goes(u, w)
<1>1. PICK v \in retrieve_dir(u, d, TRUE) : w = Afresh(v)
  OBVIOUS
<1>2. Good(v) /\ v \in States /\ Goes(u, v) /\ (~v.ok => Bites(u, v))
  BY <1>1, RetrievesDir DEF Fine, Good, Effect
<1>3. Alike(v, w) /\ w.ok = v.ok
  BY <1>1, <1>2, Renewing
<1>4. Good(w) /\ w \in States /\ Goes(u, w) /\ (Bites(u, v) => Bites(u, w))
  BY <1>2, <1>3, AlikeKeeps DEF Good
<1>5. QED
  BY <1>2, <1>3, <1>4 DEF Fine, Effect

\* What GetFile and PutFile have in common: a directory is looked at, before
\* anything is done to a file in it.
LEMMA Through ==
    ASSUME Inv, bucket.linear = "none", NEW d \in Dirs,
           NEW u \in open_link(Now), NEW v,
           u.ok => v \in {Afresh(e) : e \in retrieve_dir(u, d, TRUE)},
           ~u.ok => v = u,
           NEW t, IF u.ok /\ v.ok THEN Works(v, t) ELSE t = v
    PROVE  Leaves(Now, t, TRUE)
<1>1. /\ Good(u) /\ Since(Now, u) /\ u.bucket.linear = "none"
      /\ ~u.ok => Leaves(Now, u, TRUE)
      /\ u \in States
  BY Starting
<1>2. CASE ~u.ok
  BY <1>1, <1>2
<1>3. CASE u.ok
  <2>1. Fine(u, v) /\ v \in States /\ Goes(u, v)
    BY <1>1, <1>3, Looked
  <2>3. CASE ~v.ok
    BY <1>1, <1>3, <2>1, <2>3, Leaving, NowIs
  <2>4. CASE v.ok
    <3>1. Works(v, t)
      BY <1>3, <2>4
    <3>2. Works(u, t)
      BY <1>1, <2>1, <3>1, WorksOn
    <3>3. QED
      BY <1>1, <3>2, Leaving, NowIs DEF Works
  <2>5. QED
    BY <2>3, <2>4
<1>4. QED
  BY <1>2, <1>3

\* A file is retrieved.
LEMMA GetKeeps == Inv /\ GetFile => Inv'
<1>1. SUFFICES ASSUME Inv, GetFile PROVE Inv'
  OBVIOUS
<1>2. PICK d \in Dirs :
         Calls(Then(open_link(Now), LAMBDA s :
                   Then({Afresh(v) : v \in retrieve_dir(s, d, TRUE)},
                        retrieve_file)), TRUE)
  BY <1>1 DEF GetFile, InDir, OnPath
<1>3. bucket.linear = "none"
  BY <1>2 DEF Calls
<1>4. ASSUME NEW t \in Then(open_link(Now), LAMBDA s :
                   Then({Afresh(v) : v \in retrieve_dir(s, d, TRUE)},
                        retrieve_file))
      PROVE  Leaves(Now, t, TRUE)
  <2>1. PICK u \in open_link(Now) :
           t \in IF u.ok
                 THEN Then({Afresh(v) : v \in retrieve_dir(u, d, TRUE)},
                           retrieve_file)
                 ELSE {u}
    BY <1>4 DEF Then
  <2>2. CASE ~u.ok
    <3>1. t = u
      BY <2>1, <2>2
    <3>2. QED
      BY <1>1, <1>3, <2>2, <3>1, Through
  <2>3. CASE u.ok
    <3>1. PICK v \in {Afresh(e) : e \in retrieve_dir(u, d, TRUE)} :
             t \in IF v.ok THEN retrieve_file(v) ELSE {v}
      BY <2>1, <2>3 DEF Then
    <3>2. Good(v) /\ v \in States
      BY <1>1, <1>3, <2>3, <3>1, Starting, Looked
    <3>3. v.ok => Works(v, t)
      BY <3>1, <3>2, RetrievesFile
    <3>4. IF v.ok THEN Works(v, t) ELSE t = v
      BY <3>1, <3>3
    <3>5. QED
      BY <1>1, <1>3, <2>3, <3>1, <3>4, Through
  <2>4. QED
    BY <2>2, <2>3
<1>5. QED
  BY <1>1, <1>2, <1>4, Calling

\* A file is stored when it is closed.
LEMMA PutKeeps == Inv /\ PutFile => Inv'
<1>1. SUFFICES ASSUME Inv, PutFile PROVE Inv'
  OBVIOUS
<1>2. PICK d \in Dirs :
         Calls(Then(open_link(Now), LAMBDA s :
                   Then({Afresh(v) : v \in retrieve_dir(s, d, TRUE)},
                        LAMBDA v : Stored(v) \cup {Ignored(v)})), TRUE)
  BY <1>1 DEF PutFile, InDir, OnPath
<1>3. bucket.linear = "none"
  BY <1>2 DEF Calls
<1>4. ASSUME NEW t \in Then(open_link(Now), LAMBDA s :
                   Then({Afresh(v) : v \in retrieve_dir(s, d, TRUE)},
                        LAMBDA v : Stored(v) \cup {Ignored(v)}))
      PROVE  Leaves(Now, t, TRUE)
  <2>1. PICK u \in open_link(Now) :
           t \in IF u.ok
                 THEN Then({Afresh(v) : v \in retrieve_dir(u, d, TRUE)},
                           LAMBDA v : Stored(v) \cup {Ignored(v)})
                 ELSE {u}
    BY <1>4 DEF Then
  <2>2. CASE ~u.ok
    <3>1. t = u
      BY <2>1, <2>2
    <3>2. QED
      BY <1>1, <1>3, <2>2, <3>1, Through
  <2>3. CASE u.ok
    <3>1. PICK v \in {Afresh(e) : e \in retrieve_dir(u, d, TRUE)} :
             t \in IF v.ok THEN Stored(v) \cup {Ignored(v)} ELSE {v}
      BY <2>1, <2>3 DEF Then
    <3>2. Good(v) /\ v \in States
      BY <1>1, <1>3, <2>3, <3>1, Starting, Looked
    <3>3. ASSUME v.ok
          PROVE  Works(v, t)
      <4>1. CASE t = Ignored(v)
        BY <3>2, <3>3, <4>1, OnlyEmptied
      <4>2. CASE t \in Stored(v)
        <5>1. PICK w \in store_file(v) : t \in {w, flush_all_directory(w)}
          BY <4>2 DEF Stored, Each
        <5>2. Works(v, w)
          BY <3>2, <5>1, StoresFile
        <5>3. QED
          BY <3>2, <5>1, <5>2, Flushes
      <4>3. QED
        BY <3>1, <3>3, <4>1, <4>2
    <3>4. IF v.ok THEN Works(v, t) ELSE t = v
      BY <3>1, <3>3
    <3>5. QED
      BY <1>1, <1>3, <2>3, <3>1, <3>4, Through
  <2>4. QED
    BY <2>2, <2>3
<1>5. QED
  BY <1>1, <1>2, <1>4, Calling

\* A file is opened to be read as it comes.
LEMMA OpenLinearKeeps == Inv /\ OpenLinear => Inv'
<1>1. SUFFICES ASSUME Inv, OpenLinear PROVE Inv'
  OBVIOUS
<1>2. PICK d \in Dirs :
         Calls(Then(open_link(Now), LAMBDA s :
                   {[x EXCEPT !.bucket.linear = IF x.ok THEN "closed" ELSE @] :
                        x \in retrieve_dir(s, d, TRUE)}), FALSE)
  BY <1>1 DEF OpenLinear, OnPath
<1>3. bucket.linear = "none"
  BY <1>2 DEF Calls
<1>4. ASSUME NEW t \in Then(open_link(Now), LAMBDA s :
                   {[x EXCEPT !.bucket.linear = IF x.ok THEN "closed" ELSE @] :
                        x \in retrieve_dir(s, d, TRUE)})
      PROVE  Leaves(Now, t, FALSE)
  <2>1. PICK u \in open_link(Now) :
           t \in IF u.ok
                 THEN {[x EXCEPT !.bucket.linear =
                            IF x.ok THEN "closed" ELSE @] :
                          x \in retrieve_dir(u, d, TRUE)}
                 ELSE {u}
    BY <1>4 DEF Then
  <2>2. PICK s : s = Now
    OBVIOUS
  <2>3. s \in States
    BY <1>1, <2>2, NowIs
  <2>4. /\ Good(u) /\ Since(s, u) /\ u.bucket.linear = "none"
        /\ u.ok => u.bucket.link # "none"
        /\ ~u.ok => Leaves(s, u, FALSE)
        /\ u \in States
    BY <1>1, <1>3, <2>1, <2>2, Starting
  <2>5. CASE ~u.ok
    BY <2>1, <2>2, <2>4, <2>5
  <2>6. CASE u.ok
    <3>1. PICK x \in retrieve_dir(u, d, TRUE) :
             t = [x EXCEPT !.bucket.linear = IF x.ok THEN "closed" ELSE @]
      BY <2>1, <2>6
    <3>2. Fine(u, x)
      BY <2>4, <2>6, <3>1, RetrievesDir
    <3>3. Left(s, x)
      BY <2>3, <2>4, <3>2, LeftBy
    <3>4. /\ x \in States /\ Good(x) /\ x.bucket.link # "none"
          /\ x.bucket.linear = "none"
      BY <2>4, <2>6, <3>2 DEF Fine, Good, Effect, Goes
    <3>5. PICK l \in Linear : l = IF x.ok THEN "closed" ELSE "none"
      BY DEF Linear
    <3>6. t = [x EXCEPT !.bucket.linear = l]
      BY <3>1, <3>4, <3>5 DEF States
    <3>7. Marking(x, l, t)
      BY <3>4, <3>6, Marked
    <3>8. Good(t)
      BY <3>4, <3>7 DEF Marking, Good
    <3>9. Left(s, t)
      BY <3>3, <3>7, <3>8 DEF Marking, Left, Since, Bites
    <3>10. QED
      BY <2>2, <3>4, <3>5, <3>7, <3>9 DEF Leaves, Marking
  <2>7. QED
    BY <2>5, <2>6
<1>5. QED
  BY <1>1, <1>2, <1>4, Calling

\* What an entry point leaves that does not count.
LEMMA Handling ==
    ASSUME NEW s \in States, Placed(s), CacheOK(s), Repairing(s),
           IF s.bucket.linear = "open" THEN Busy(s, "RETR") ELSE Idle(s),
           s.bucket.linear # "none" => s.bucket.link # "none",
           NEW claims \in BOOLEAN, claims /\ s.ok => s.done,
           Becomes(Reports(s, claims))
    PROVE  Inv'
<1>1. PICK n \in Nat : n = s.history.failed
  BY DEF States, Histories
<1>2. s = [s EXCEPT !.history.failed = n]
  BY <1>1 DEF States, Histories
<1>3. PICK t : t = Reports(s, claims)
  OBVIOUS
<1>4. /\ Noticed(s, n, t)
      /\ t.history.lied => /\ claims /\ s.ok /\ ~s.done
                           /\ s.unsure => t.history.unsure
  BY <1>2, <1>3, Notices
<1>5. n <= (IF Lost(s) THEN Stage(s) ELSE 0)
  BY <1>1 DEF Repairing
<1>6. Safe(t)
  BY <1>4, <1>5, Noticing
<1>7. QED
  BY <1>3, <1>6, Becoming

\* A lost link is no further from being made again.
LEMMA RepairsOn ==
    ASSUME NEW s \in States, NEW t \in States, Repairing(s), Goes(s, t)
    PROVE  Repairing(t)
<1>1. Stage(s) \in 0..2 /\ Stage(t) \in 0..2 /\ s.history.failed \in Nat
  BY DEF Stage, States, Histories
<1>2. QED
  BY <1>1 DEF Repairing, Goes

\* Its transfer is started.
LEMMA StartLinearKeeps == Inv /\ StartLinear => Inv'
<1>1. SUFFICES ASSUME Inv, StartLinear PROVE Inv'
  OBVIOUS
<1>2. PICK reget \in BOOLEAN :
         bucket.linear = "closed" /\ OnHandle(linear_start(Now, reget), FALSE)
  BY <1>1 DEF StartLinear
<1>3. PICK t \in linear_start(Now, reget) : Becomes(Reports(t, FALSE))
  BY <1>2 DEF OnHandle
<1>4. PICK s : s = Now
  OBVIOUS
<1>5. /\ s \in States /\ Good(s) /\ Repairing(s)
      /\ s.bucket.linear = "closed" /\ s.bucket.link # "none"
  BY <1>1, <1>2, <1>4, NowIs
<1>6. PICK u \in open_data_connection(s, "RETR", NoDir, "binary", reget) :
         t = IF u.ok THEN [u EXCEPT !.bucket.linear = "open"] ELSE u
  BY <1>3, <1>4 DEF linear_start
<1>7. Opened(s, "RETR", u)
  <2>1. "RETR" \in Transfers /\ "binary" \in Types
    BY DEF Transfers, Types
  <2>2. QED
    BY <1>5, <2>1, Opening
<1>8. /\ u \in States /\ Placed(u) /\ CacheOK(u) /\ Goes(s, u)
      /\ IF u.ok THEN Busy(u, "RETR") ELSE Idle(u)
  BY <1>7 DEF Opened, Effect
<1>9. Repairing(u) /\ u.bucket.link # "none" /\ u.bucket.linear = "closed"
  BY <1>5, <1>8, RepairsOn DEF Goes
<1>10. CASE ~u.ok
  BY <1>3, <1>6, <1>8, <1>9, <1>10, Handling
<1>11. CASE u.ok
  <2>1. t = [u EXCEPT !.bucket.linear = "open"]
    BY <1>6, <1>11
  <2>2. Marking(u, "open", t)
    BY <1>8, <2>1, Marked DEF Linear
  <2>3. /\ t \in States /\ Placed(t) /\ CacheOK(t) /\ Busy(t, "RETR")
        /\ t.bucket.linear = "open" /\ t.bucket.link # "none"
    BY <1>8, <1>9, <1>11, <2>2 DEF Marking
  <2>4. Repairing(t)
    BY <1>9, <2>2 DEF Marking, Repairing
  <2>5. QED
    BY <1>3, <2>3, <2>4, Handling
<1>12. QED
  BY <1>10, <1>11

\* It is read, or tried again after its end.
LEMMA ReadLinearKeeps == Inv /\ ReadLinear => Inv'
<1>1. SUFFICES ASSUME Inv, ReadLinear PROVE Inv'
  OBVIOUS
<1>2. PICK s : s = Now
  OBVIOUS
<1>3. /\ s \in States /\ Placed(s) /\ CacheOK(s) /\ Repairing(s)
      /\ IF s.bucket.linear = "open" THEN Busy(s, "RETR") ELSE Idle(s)
      /\ s.bucket.linear # "none" => s.bucket.link # "none"
      /\ s.bucket = bucket /\ s.history = history
  BY <1>1, <1>2, NowIs
<1>4. CASE bucket.linear = "open" /\ OnHandle(linear_read(Now), TRUE)
  <2>1. PICK t \in linear_read(s) : Becomes(Reports(t, TRUE))
    BY <1>2, <1>4 DEF OnHandle
  <2>2. PICK u : Carried(s, u) /\ t = [u EXCEPT !.bucket.linear = "ended"]
    BY <1>3, <1>4, <2>1, ReadsFile
  <2>3. /\ u \in States /\ Within(s, u) /\ Goes(s, u) /\ Idle(u)
        /\ u.ok => u.done
    BY <2>2 DEF Carried, Within
  <2>4. Placed(u) /\ CacheOK(u)
    BY <1>3, <2>3, WithinStays
  <2>5. Repairing(u) /\ u.bucket.link # "none"
    BY <1>3, <1>4, <2>3, RepairsOn DEF Goes
  <2>6. Marking(u, "ended", t)
    BY <2>2, <2>3, Marked DEF Linear
  <2>7. /\ t \in States /\ Placed(t) /\ CacheOK(t) /\ Idle(t)
        /\ t.bucket.linear = "ended" /\ t.bucket.link # "none"
        /\ t.ok => t.done
    BY <2>3, <2>4, <2>5, <2>6 DEF Marking
  <2>8. Repairing(t)
    BY <2>5, <2>6 DEF Marking, Repairing
  <2>9. QED
    BY <2>1, <2>7, <2>8, Handling
<1>5. CASE bucket.linear = "ended" /\ OnHandle(my_abort(Now), FALSE)
  <2>1. PICK t \in my_abort(s) : Becomes(Reports(t, FALSE))
    BY <1>2, <1>5 DEF OnHandle
  <2>2. ~s.history.crossed
    BY <1>3, <1>5 DEF OnHandle
  <2>3. Abortable(s)
    <3>1. Idle(s) /\ s.bucket.link # "none"
      BY <1>3, <1>5
    <3>2. QED
      BY <1>3, <2>2, <3>1, Queues DEF Idle, Abortable
  <2>4. Cut(s, t)
    BY <2>1, <2>3, Abort
  <2>5. t \in States /\ Within(s, t) /\ Goes(s, t) /\ Idle(t) /\ ~t.ok
    BY <2>4 DEF Cut, Within
  <2>6. /\ Placed(t) /\ CacheOK(t) /\ Repairing(t)
        /\ t.bucket.linear = "ended" /\ t.bucket.link # "none"
    BY <1>3, <1>5, <2>5, WithinStays, RepairsOn DEF Goes
  <2>7. QED
    BY <2>1, <2>5, <2>6, Handling
<1>6. QED
  BY <1>1, <1>4, <1>5 DEF ReadLinear

\* It is closed, in the middle of its transfer or not.
LEMMA CloseLinearKeeps == Inv /\ CloseLinear => Inv'
<1>1. SUFFICES ASSUME Inv, CloseLinear PROVE Inv'
  OBVIOUS
<1>2. PICK s : s = Now
  OBVIOUS
<1>3. /\ s \in States /\ Placed(s) /\ CacheOK(s) /\ Repairing(s)
      /\ IF s.bucket.linear = "open" THEN Busy(s, "RETR") ELSE Idle(s)
      /\ s.bucket = bucket
  BY <1>1, <1>2, NowIs
<1>4. PICK t \in IF bucket.linear = "open" THEN Interrupted(s, "RETR")
                 ELSE {s} :
         Becomes(Reports([t EXCEPT !.bucket.linear = "none"], FALSE))
  BY <1>1, <1>2 DEF CloseLinear
<1>5. t \in States /\ Placed(t) /\ CacheOK(t) /\ Idle(t) /\ Repairing(t)
  <2>1. CASE bucket.linear = "open"
    <3>1. Cut(s, t)
      <4>1. "RETR" \in Transfers
        BY DEF Transfers
      <4>2. QED
        BY <1>3, <1>4, <2>1, <4>1, Interrupting
    <3>2. t \in States /\ Within(s, t) /\ Goes(s, t) /\ Idle(t)
      BY <3>1 DEF Cut, Within
    <3>3. QED
      BY <1>3, <3>2, WithinStays, RepairsOn
  <2>2. CASE bucket.linear # "open"
    BY <1>3, <1>4, <2>2
  <2>3. QED
    BY <2>1, <2>2
<1>6. PICK v : v = [t EXCEPT !.bucket.linear = "none"]
  OBVIOUS
<1>7. Marking(t, "none", v)
  BY <1>5, <1>6, Marked DEF Linear
<1>8. /\ v \in States /\ Placed(v) /\ CacheOK(v) /\ Idle(v)
      /\ v.bucket.linear = "none"
  BY <1>5, <1>7 DEF Marking
<1>9. Repairing(v)
  BY <1>5, <1>7 DEF Marking, Repairing
<1>10. QED
  BY <1>4, <1>6, <1>8, <1>9, Handling

\* A job has taken the connection along.
LEMMA ForgetKeeps == Inv /\ my_forget => Inv'
<1>1. SUFFICES ASSUME Inv, my_forget PROVE Inv'
  OBVIOUS
<1>2. PICK s : s = Now
  OBVIOUS
<1>3. /\ s \in States /\ CacheOK(s) /\ s.bucket.linear = "none"
  BY <1>1, <1>2, NowIs DEF my_forget
<1>4. PICK t \in {Connected(s), [Connected(s) EXCEPT !.bucket.link = "closed"],
                  [NewLink(s) EXCEPT !.bucket.link = "unset"]} :
         Becomes(Reports(t, FALSE))
  BY <1>1, <1>2 DEF my_forget
<1>5. SUFFICES /\ t \in States /\ Placed(t) /\ CacheOK(t) /\ Repairing(t)
               /\ Idle(t) /\ t.bucket.linear = "none"
  BY <1>4, <1>5, Handling
<1>6. CASE t = Connected(s)
  <2>1. /\ Fresh(s, t) /\ Good(t) /\ t.bucket.link = "up"
        /\ t.bucket.linear = s.bucket.linear
    BY <1>3, <1>6, Connects
  <2>2. Repairing(t)
    BY <2>1 DEF Fresh, Repairing, Lost
  <2>3. QED
    BY <1>3, <2>1, <2>2 DEF Good
<1>7. CASE t = [Connected(s) EXCEPT !.bucket.link = "closed"]
  <2>1. PICK u : u = Connected(s)
    OBVIOUS
  <2>2. /\ Fresh(s, u) /\ Good(u) /\ u.bucket.link = "up"
        /\ u.bucket.linear = s.bucket.linear
    BY <1>3, <2>1, Connects
  <2>3. u \in States /\ Placed(u) /\ CacheOK(u) /\ Idle(u)
    BY <2>2 DEF Good
  <2>4. /\ t.bucket = [u.bucket EXCEPT !.link = "closed"]
        /\ t.server = u.server /\ t.cache = u.cache
        /\ t.history = u.history /\ t.got_sigpipe = u.got_sigpipe
    BY <1>7, <2>1, <2>3 DEF States
  <2>5. /\ t.bucket \in Buckets /\ t.bucket.link = "closed"
        /\ t.bucket.linear = u.bucket.linear
        /\ t.bucket.cwd = u.bucket.cwd
        /\ t.bucket.cwd_defered = u.bucket.cwd_defered
    BY <2>3, <2>4 DEF States, Buckets, Links
  <2>6. t \in States
    BY <1>7, <2>1, <2>3, <2>4, <2>5 DEF States
  <2>7. Placed(t) /\ CacheOK(t)
    BY <2>2, <2>3, <2>4, <2>5 DEF Placed, CacheOK
  <2>8. Idle(t)
    <3>1. t.server.replies = <<>> /\ t.server.transfer = "none"
      BY <2>2, <2>4, LoginState DEF Fresh
    <3>2. QED
      BY <2>2, <2>4, <3>1 DEF Fresh, Idle
  <2>9. Repairing(t)
    BY <2>2, <2>4, <2>5 DEF Fresh, Repairing, Stage
  <2>10. QED
    BY <1>3, <2>2, <2>5, <2>6, <2>7, <2>8, <2>9
<1>8. CASE t = [NewLink(s) EXCEPT !.bucket.link = "unset"]
  <2>1. PICK u : u = NewLink(s)
    OBVIOUS
  <2>2. Fresh(s, u) /\ u.bucket = s.bucket /\ u.cache = s.cache
    BY <1>3, <2>1, NewLinks
  <2>3. u \in States
    BY <2>2 DEF Fresh
  <2>4. /\ t.bucket = [u.bucket EXCEPT !.link = "unset"]
        /\ t.server = u.server /\ t.cache = u.cache
        /\ t.history = u.history /\ t.got_sigpipe = u.got_sigpipe
    BY <1>8, <2>1, <2>3 DEF States
  <2>5. /\ t.bucket \in Buckets /\ t.bucket.link = "unset"
        /\ t.bucket.linear = u.bucket.linear
    BY <2>3, <2>4 DEF States, Buckets, Links
  <2>6. t \in States
    BY <1>8, <2>1, <2>3, <2>4, <2>5 DEF States
  <2>7. Placed(t) /\ CacheOK(t)
    BY <1>3, <2>2, <2>4, <2>5 DEF Placed, CacheOK
  <2>8. Idle(t)
    <3>1. t.server.replies = <<>> /\ t.server.transfer = "none"
      BY <2>2, <2>4, LoginState DEF Fresh
    <3>2. QED
      BY <2>2, <2>4, <3>1 DEF Fresh, Idle
  <2>9. Repairing(t)
    BY <2>2, <2>4, <2>5 DEF Fresh, Repairing, Lost
  <2>10. QED
    BY <1>3, <2>2, <2>5, <2>6, <2>7, <2>8, <2>9
<1>9. QED
  BY <1>4, <1>6, <1>7, <1>8

\* The connection is freed.
LEMMA FreeKeeps == Inv /\ s_free => Inv'
<1>1. SUFFICES ASSUME Inv, s_free PROVE Inv'
  OBVIOUS
<1>2. PICK t : t = connection_destructor(Now)
  OBVIOUS
<1>3. Becomes(Reports(t, FALSE))
  BY <1>1, <1>2 DEF s_free
<1>4. /\ Fresh(Now, t) /\ Good(t) /\ t.bucket.link = "none"
      /\ t.bucket.linear = "none"
  BY <1>1, <1>2, NowIs, Destroys
<1>5. Repairing(t)
  BY <1>4 DEF Fresh, Repairing, Lost
<1>6. QED
  BY <1>3, <1>4, <1>5, Handling DEF Good

\* The listings are to expire.
LEMMA FlushKeeps == Inv /\ ftpfs_flushdir => Inv'
<1>1. SUFFICES ASSUME Inv, ftpfs_flushdir PROVE Inv'
  OBVIOUS
<1>2. PICK s : s = Now
  OBVIOUS
<1>3. /\ s \in States /\ Placed(s) /\ CacheOK(s) /\ Repairing(s)
      /\ IF s.bucket.linear = "open" THEN Busy(s, "RETR") ELSE Idle(s)
      /\ s.bucket.linear # "none" => s.bucket.link # "none"
  BY <1>1, <1>2, NowIs
<1>4. PICK t : t = [s EXCEPT !.force = TRUE]
  OBVIOUS
<1>5. Becomes(Reports(t, FALSE))
  BY <1>1, <1>2, <1>4 DEF ftpfs_flushdir
<1>6. Alike(s, t)
  <2>1. /\ t \in States /\ t.cache = s.cache /\ t.bucket = s.bucket
        /\ t.server = s.server /\ t.history = s.history
        /\ t.got_sigpipe = s.got_sigpipe
    BY <1>3, <1>4 DEF States
  <2>2. QED
    BY <2>1 DEF Alike
<1>7. /\ t \in States /\ Placed(t) /\ CacheOK(t) /\ t.bucket = s.bucket
      /\ Idle(s) => Idle(t)
      /\ Busy(s, "RETR") => Busy(t, "RETR")
  BY <1>3, <1>6, AlikeKeeps DEF Alike
<1>8. Repairing(t)
  BY <1>3, <1>6 DEF Alike, Repairing, Lost, Stage
<1>9. QED
  BY <1>3, <1>5, <1>7, <1>8, Handling

\* The server hangs up, between the calls.
LEMMA HangUpKeeps == Inv /\ HangsUp => Inv'
<1>1. SUFFICES ASSUME Inv, HangsUp PROVE Inv'
  OBVIOUS
<1>2. PICK s : s = Now
  OBVIOUS
<1>3. /\ s \in States /\ Placed(s) /\ CacheOK(s) /\ Repairing(s)
      /\ IF s.bucket.linear = "open" THEN Busy(s, "RETR") ELSE Idle(s)
      /\ s.bucket.link = "up"
  BY <1>1, <1>2, NowIs DEF HangsUp
<1>4. PICK t \in HangUp(s) : Becomes(Reports(t, FALSE))
  BY <1>1, <1>2 DEF HangsUp
<1>5. /\ t \in States /\ t.cache = s.cache
      /\ t.bucket = [s.bucket EXCEPT !.link = "closed"]
      /\ t.server = [s.server EXCEPT !.transfer = "none"]
      /\ t.history = [s.history EXCEPT !.drops = @ + 1]
  BY <1>3, <1>4, HungUp
<1>6. /\ t.bucket.link = "closed" /\ t.bucket.linear = s.bucket.linear
      /\ t.bucket.cwd = s.bucket.cwd
      /\ t.bucket.cwd_defered = s.bucket.cwd_defered
  BY <1>3, <1>5 DEF States, Buckets
<1>7. /\ t.server.transfer = "none" /\ t.server.cwd = s.server.cwd
      /\ t.server.replies = s.server.replies
  BY <1>3, <1>5 DEF States, Servers
<1>8. /\ t.history.crossed = s.history.crossed
      /\ t.history.hung = s.history.hung
      /\ t.history.overlooked = s.history.overlooked
      /\ t.history.astray = s.history.astray
      /\ t.history.failed = s.history.failed
  BY <1>3, <1>5 DEF States, Histories
<1>9. Placed(t) /\ CacheOK(t)
  BY <1>3, <1>5, <1>6, <1>7, <1>8 DEF Placed, CacheOK
<1>10. Idle(s) => Idle(t)
  BY <1>6, <1>7, <1>8 DEF Idle
<1>11. Busy(s, "RETR") => Busy(t, "RETR")
  BY <1>6, <1>7, <1>8 DEF Busy
<1>12. Repairing(t)
  BY <1>3, <1>6, <1>8 DEF Repairing, Lost, Stage
<1>13. QED
  BY <1>3, <1>4, <1>5, <1>6, <1>9, <1>10, <1>11, <1>12, Handling

\* There is no connection yet.
LEMMA InitSafe == Init => Inv
<1>1. SUFFICES ASSUME Init PROVE Inv
  OBVIOUS
<1>2. PICK s : s = Now
  OBVIOUS
<1>3. /\ s.bucket = NoBucket /\ s.server = AtLogin
      /\ s.cache = [d \in Dirs |-> NoListing] /\ s.got_sigpipe = FALSE
      /\ s.force = FALSE /\ s.code = 0 /\ s.ok = TRUE /\ s.done = FALSE
      /\ s.rnfr = FALSE /\ s.again = FALSE /\ s.unsure = FALSE
      /\ s.history = [crossed |-> FALSE, hung |-> FALSE, overlooked |-> FALSE,
                      astray |-> FALSE, drops |-> 0, failed |-> 0,
                      lied |-> FALSE, unsure |-> FALSE]
  BY <1>1, <1>2 DEF Init, Now
<1>4. s = [bucket |-> s.bucket, server |-> s.server, cache |-> s.cache,
           got_sigpipe |-> s.got_sigpipe, force |-> s.force,
           history |-> s.history, code |-> s.code, ok |-> s.ok,
           done |-> s.done, rnfr |-> s.rnfr, again |-> s.again,
           unsure |-> s.unsure]
  BY <1>2, <1>3 DEF Now
<1>5. /\ s.bucket \in Buckets /\ s.bucket.link = "none"
      /\ s.bucket.linear = "none" /\ s.bucket.cwd = NoDir
  BY <1>3 DEF NoBucket, Buckets, Links, Types, Linear
<1>6. s.history \in Histories
  BY <1>3 DEF Histories
<1>7. s.cache \in Caches /\ CacheOK(s)
  BY <1>3 DEF Caches, CacheOK
<1>8. s \in States
  <2>1. 0 \in Results
    BY DEF Results
  <2>2. QED
    BY <1>3, <1>4, <1>5, <1>6, <1>7, <2>1, LoginState DEF States
<1>9. Idle(s)
  BY <1>3, LoginState DEF Idle
<1>10. Placed(s) /\ Repairing(s)
  BY <1>3, <1>5 DEF Placed, Repairing, Lost
<1>11. Safe(s)
  BY <1>3, <1>5, <1>7, <1>8, <1>9, <1>10 DEF Safe
<1>12. QED
  BY <1>2, <1>11 DEF Inv

\* Every step keeps the invariant.
LEMMA InvKept == Inv /\ [Next]_vars => Inv'
<1>1. SUFFICES ASSUME Inv, [Next]_vars PROVE Inv'
  OBVIOUS
<1>2. CASE UNCHANGED vars
  BY <1>1, <1>2 DEF vars, Inv, Now
<1>3. CASE Next
  <2>1. \/ Look \/ s_chdir \/ send_ftp_command \/ ftpfs_chmod \/ ftpfs_rename
        \/ GetFile \/ PutFile
        \/ OpenLinear \/ StartLinear \/ ReadLinear \/ CloseLinear
        \/ my_forget \/ s_free \/ ftpfs_flushdir \/ HangsUp
    BY <1>3 DEF Next
  <2>2. QED
    BY <1>1, <2>1, LookKeeps, ChdirKeeps, CommandKeeps, ChmodKeeps, RenameKeeps,
       GetKeeps, PutKeeps, OpenLinearKeeps, StartLinearKeeps,
       ReadLinearKeeps, CloseLinearKeeps, ForgetKeeps, FreeKeeps,
       FlushKeeps, HangUpKeeps
<1>4. QED
  BY <1>1, <1>2, <1>3

\* The invariant holds throughout.
LEMMA Always == Spec => []Inv
BY InitSafe, InvKept, PTL DEF Spec

-----------------------------------------------------------------------------
(* The properties of the runs.                                              *)

\* A reply is only mistaken for another, or left unread, or waited for in
\* vain, on a link on which an interrupted operation has left one unread: for
\* every sequence of calls, refusals, broken transfers and interrupts
\* (command, get_reply, my_abort and linear_abort of ftpfs.c).
THEOREM StaysInStep == Spec => []InStep
<1>1. Inv => InStep
  <2>1. SUFFICES ASSUME Inv PROVE InStep
    OBVIOUS
  <2>2. /\ IF bucket.linear = "open" THEN Busy(Now, "RETR") ELSE Idle(Now)
        /\ Now.history = history /\ Now.server = server
    BY <2>1, NowIs
  <2>3. QED
    BY <2>2 DEF InStep, Idle, Busy
<1>2. QED
  BY <1>1, Always, PTL

\* What the cache holds for a directory is the whole of that directory's
\* listing, unless the link was made again while the directory of the server
\* was thought to be known (retrieve_dir and ftpfs_chdir_internal).
THEOREM ListsTheRightDir == Spec => []ListedAsNamed
<1>1. Inv => ListedAsNamed
  <2>1. SUFFICES ASSUME Inv PROVE ListedAsNamed
    OBVIOUS
  <2>2. CacheOK(Now) /\ Now.cache = cache
    BY <2>1 DEF Inv, Safe, Now
  <2>3. QED
    BY <2>2 DEF CacheOK, ListedAsNamed
<1>2. QED
  BY <1>1, Always, PTL

\* An operation reports success of what has not been done, or not all of it,
\* only on a link on which a reply has been left unread, unless it returns
\* success whatever came of it: chmod, whose reply is ignored, a transfer one
\* of whose writes was short, and an existing file that was only emptied
\* (send_ftp_command, ftpfs_rename, retrieve_file, store_file, s_close and
\* linear_read).
THEOREM ReportsTruly == Spec => []Truthful
<1>1. Inv => Truthful
  <2>1. SUFFICES ASSUME Inv PROVE Truthful
    OBVIOUS
  <2>2. Now.history.lied => Now.history.overlooked \/ Now.history.unsure
    BY <2>1 DEF Inv, Safe
  <2>3. QED
    BY <2>2 DEF Truthful, Now
<1>2. QED
  BY <1>1, Always, PTL

\* However the server hangs up, a link is made again after two operations
\* have failed on it (got_sigpipe, is_connection_closed and open_link).
THEOREM RepairsSoon == Spec => []RepairedSoon
<1>1. Inv => RepairedSoon
  <2>1. SUFFICES ASSUME Inv PROVE RepairedSoon
    OBVIOUS
  <2>2. Repairing(Now) /\ Now.history = history /\ Now \in States
    BY <2>1, NowIs
  <2>3. Stage(Now) \in 0..2 /\ history.failed \in Nat
    BY <2>2 DEF Stage, States, Histories
  <2>4. QED
    BY <2>2, <2>3 DEF Repairing, RepairedSoon
<1>2. QED
  BY <1>1, Always, PTL
=============================================================================
