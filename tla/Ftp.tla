-------------------------------- MODULE Ftp --------------------------------
(***************************************************************************)
(* A connection of the FTP file system (vfs/ftpfs.c on                     *)
(* vfs/shared_ftp_fish.c) and its server: commands and replies on the      *)
(* control connection, transfers beside it, the directory the server is    *)
(* in, and the cache of listings.                                          *)
(*                                                                         *)
(* Replies carry no name of the command they answer: whoever reads one     *)
(* takes it for the answer to what he sent.  A transfer is answered twice, *)
(* at its start and at its end, whenever that comes; an abort is answered  *)
(* besides.  The server may refuse, break off a transfer or hang up at any *)
(* point; the user may interrupt.                                          *)
(*                                                                         *)
(* The program blocks in each entry point, which is one action.  Each      *)
(* function is an operator from a state of connection and server to the    *)
(* set of states it may end in.                                            *)
(***************************************************************************)
EXTENDS Naturals, Sequences

CONSTANTS Dirs,         \* directories of the server
          Home,         \* where the server is after a login
          NoDir,
          Spaced,       \* directories with a space in their path
          WithLinks,    \* directories with symbolic links
          MaxDrops      \* bound: how often the server hangs up

ASSUME FtpAssumption ==
    /\ Home \in Dirs /\ NoDir \notin Dirs
    /\ Spaced \subseteq Dirs /\ WithLinks \subseteq Dirs /\ MaxDrops \in Nat

VARIABLES
    bucket,     \* the struct connection, with linear, how far the file that
                \* is open with O_LINEAR is
    server,     \* where it is, its transfer, the replies it has sent
    cache,      \* qdcache: what is known of each directory
    got_sigpipe, force_expiration,
    history     \* of the present link, and what the last operation reported

vars == <<bucket, server, cache, got_sigpipe, force_expiration, history>>

NoListing == [from |-> NoDir]

-----------------------------------------------------------------------------
(* The state while an entry point runs; code and ok are what the last      *)
(* function returned, done says whether the server did all of it, rnfr     *)
(* whether it has been told what to rename, again whether the failure of a *)
(* listing is one that makes retrieve_dir try without options, unsure      *)
(* whether success is returned whatever came of it.                        *)

Now == [bucket |-> bucket, server |-> server, cache |-> cache,
        got_sigpipe |-> got_sigpipe, force |-> force_expiration,
        history |-> history,
        code |-> 0, ok |-> TRUE, done |-> FALSE, rnfr |-> FALSE,
        again |-> FALSE, unsure |-> FALSE]

Each(S, Op(_)) == UNION {Op(s) : s \in S}
Then(S, Op(_)) == UNION {IF s.ok THEN Op(s) ELSE {s} : s \in S}

Class(s) == s.code \div 100
PRELIM == 1  COMPLETE == 2  CONTINUE == 3  TRANSIENT == 4
Check(s, class) == [s EXCEPT !.ok = Class(s) = class]
Fails(s) == [s EXCEPT !.ok = FALSE]

(* "closed": the server has hung up; the next write is answered by a       *)
(* reset.  "unset": the socket is -1.                                      *)
Links == {"none", "up", "closed", "reset", "unset"}
Lost(s) == s.bucket.link \in {"closed", "reset"}

HangUp(s) ==
    IF s.history.drops < MaxDrops
    THEN {[s EXCEPT !.bucket.link = "closed", !.server.transfer = "none",
                    !.history.drops = @ + 1]}
    ELSE {}

Answer(s, cmd, code) ==
    [s EXCEPT !.server.replies = Append(@, [of |-> cmd, code |-> code])]

-----------------------------------------------------------------------------
(* Commands and replies.                                                   *)

Transfers == {"LIST", "RETR", "STOR"}
Accepted(cmd) == CASE cmd \in Transfers -> 150
                   [] cmd \in {"REST", "RNFR"} -> 350
                   [] OTHER -> 250

Performed(s, cmd, arg) ==
    LET t == [s EXCEPT !.rnfr = cmd = "RNFR", !.done = cmd \in {"DELE", "RNTO", "CHMOD"}]
    IN  CASE cmd = "CWD" -> [t EXCEPT !.server.cwd = arg]
          [] cmd \in Transfers -> [t EXCEPT !.server.transfer = cmd]
          [] OTHER -> t

(* What the server does with a command.                                    *)
Reactions(s, cmd, arg) ==
    {Answer(s, cmd, 550)} \cup HangUp(s) \cup
    IF cmd = "RNTO" /\ ~s.rnfr THEN {}
    ELSE {Answer(Performed(s, cmd, arg), cmd, Accepted(cmd))}

Send(s, cmd, arg) ==
    LET sent == [s EXCEPT !.got_sigpipe = FALSE, !.code = 200]
    IN  CASE s.bucket.link = "up" -> Reactions(sent, cmd, arg)
          [] s.bucket.link = "closed" -> {[sent EXCEPT !.bucket.link = "reset"]}
          [] s.bucket.link = "reset" -> {[s EXCEPT !.got_sigpipe = TRUE, !.code = 421]}
          [] OTHER -> {[sent EXCEPT !.code = 421]}

(* The next reply, whatever it answers; cmds are the commands whose answer *)
(* the caller waits for.  Nothing more comes from a server that hung up.   *)
get_reply(s, cmds) ==
    IF s.server.replies = <<>>
    THEN [s EXCEPT !.code = 421, !.history.hung = @ \/ s.bucket.link = "up",
                   !.bucket.link = IF @ = "up" THEN "closed" ELSE @]
    ELSE LET reply == Head(s.server.replies)
         IN  [s EXCEPT !.code = reply.code, !.server.replies = Tail(@),
                       !.history.crossed = @ \/ reply.of \notin cmds]

command(s, cmd, arg) ==
    Each(Send(s, cmd, arg),
         LAMBDA t : {IF t.code = 421 THEN t ELSE get_reply(t, {cmd})})

Ask(s, cmd, arg, class) == {Check(t, class) : t \in command(s, cmd, arg)}

-----------------------------------------------------------------------------
(* Data connections.                                                       *)

port(s) == Ask(s, "PORT", NoDir, COMPLETE)

(* Passive mode is given up for good when it does not work once: the       *)
(* server refuses or cannot be connected to.                               *)
initconn(s) ==
    IF ~s.bucket.use_passive THEN port(s)
    ELSE Each(Ask(s, "PASV", NoDir, COMPLETE),
              LAMBDA t : port([t EXCEPT !.bucket.use_passive = FALSE])
                         \cup IF t.ok THEN {t} ELSE {})

changetype(s, type) ==
    IF s.bucket.type = type THEN {s}
    ELSE {IF t.ok THEN [t EXCEPT !.bucket.type = type] ELSE t :
             t \in Ask(s, "TYPE", NoDir, COMPLETE)}

(* In active mode the server connects; when the user interrupts the wait   *)
(* for it, the transfer is left to fail, and its last reply is not read.   *)
accept(s) ==
    {s} \cup
    IF s.bucket.use_passive THEN {}
    ELSE {Fails([Answer(s, s.server.transfer, 425) EXCEPT
                     !.server.transfer = "none", !.history.overlooked = TRUE])}

open_data_connection(s, cmd, dir, type, reget) ==
    LET typed == Then(initconn(s), LAMBDA t : changetype(t, type))
        placed == IF reget
                  THEN Then(typed, LAMBDA t : Ask(t, "REST", NoDir, CONTINUE))
                  ELSE typed
        asked == Then(placed, LAMBDA t : Ask(t, cmd, dir, PRELIM))
    IN  Then(asked, accept)

(* How the server ends a transfer: all of it, broken off, or by hanging    *)
(* up.  (A reply of another class than 426 is treated as 226 by my_abort,  *)
(* and as 426 by everyone else.)                                           *)
Ends(s, cmd) ==
    LET ended == [s EXCEPT !.server.transfer = "none"]
    IN  IF s.server.transfer = "none" THEN {s}
        ELSE {[Answer(ended, cmd, 226) EXCEPT !.done = TRUE],
              Answer(ended, cmd, 426)} \cup HangUp(s)

Answered(s, cmd) == Check(get_reply(s, {cmd}), COMPLETE)

(* An abort is answered twice if it breaks off the transfer, and the       *)
(* second reply is read after a 426 only: the reply of a transfer that the *)
(* server has ended is taken for the answer.                               *)
Aborted(s) ==
    IF s.server.transfer = "none" THEN {Answer(s, "ABOR", 225)}
    ELSE LET broken == Answer([s EXCEPT !.server.transfer = "none"],
                              s.server.transfer, 426)
         IN  {Answer(broken, "ABOR", 226)}

(* Faulty variant: only one reply is read.                                 *)
AbortReplies_First(s) == get_reply(s, Transfers \cup {"ABOR"})

AbortReplies(s) ==
    LET cmds == Transfers \cup {"ABOR"}
        first == get_reply(s, cmds)
    IN  IF first.code = 426 THEN get_reply(first, cmds) ELSE first

my_abort(s) ==
    LET ended == \E i \in DOMAIN s.server.replies : s.server.replies[i].code # 426
        t == Fails([s EXCEPT !.done = FALSE, !.history.overlooked = @ \/ ended])
    IN  CASE s.bucket.link = "up" ->
                {AbortReplies([u EXCEPT !.got_sigpipe = FALSE]) : u \in Aborted(t) \cup HangUp(t)}
          [] s.bucket.link = "unset" -> {t}
          [] OTHER -> {[t EXCEPT !.bucket.link = "reset", !.got_sigpipe = TRUE]}

(* The user interrupts a transfer, which the server may just have ended.   *)
Interrupted(s, cmd) == Each({s} \cup Ends(s, cmd), my_abort)

-----------------------------------------------------------------------------
(* Directories.                                                            *)

is_same_dir(s, dir) == s.bucket.cwd = dir

(* Faulty variant: the directory is noted without regard to the reply.     *)
ftpfs_chdir_internal_Unchecked(s, dir) ==
    IF ~s.bucket.cwd_defered /\ is_same_dir(s, dir) THEN {s}
    ELSE {[t EXCEPT !.bucket.cwd = dir, !.bucket.cwd_defered = FALSE,
                    !.history.astray = FALSE] : t \in Ask(s, "CWD", dir, COMPLETE)}

ftpfs_chdir_internal(s, dir) ==
    IF ~s.bucket.cwd_defered /\ is_same_dir(s, dir) THEN {s}
    ELSE {IF t.ok THEN [t EXCEPT !.bucket.cwd = dir, !.bucket.cwd_defered = FALSE,
                                 !.history.astray = FALSE]
          ELSE t : t \in Ask(s, "CWD", dir, COMPLETE)}

ByChdir(s, dir) == s.bucket.strict \/ dir \in Spaced

AtDir(s, dir) == IF ByChdir(s, dir) THEN ftpfs_chdir_internal(s, dir) ELSE {s}
ListedDir(s, dir) == IF ByChdir(s, dir) THEN s.server.cwd ELSE dir

OpenList(s, dir) == open_data_connection(s, "LIST", dir, "ascii", FALSE)

(* The first parsed line counts an inode: then the server is known to      *)
(* understand the options of ls.                                           *)
SomeLines(s) == {s, [s EXCEPT !.bucket.listed = TRUE]}

Cached(s, dir) ==
    [s EXCEPT !.bucket.listed = TRUE,
              !.cache[dir] = [from |-> ListedDir(s, dir), whole |-> s.done,
                              astray |-> s.history.astray,
                              links |-> IF dir \in WithLinks THEN "unresolved"
                                        ELSE "none"]]

(* A listing; one that is cut short or empty is not cached.                *)
ReadListing(s, dir) ==
    Each(Ends(s, "LIST"), LAMBDA t :
        LET u == Answered(t, "LIST")
        IN  IF u.ok THEN {Fails(u), Cached(u, dir)} ELSE SomeLines(u))
    \cup Each(Interrupted([s EXCEPT !.again = FALSE], "LIST"), SomeLines)

Attempt(s, dir) ==
    Then(AtDir(s, dir), LAMBDA t :
        Then(OpenList([t EXCEPT !.again = TRUE], dir), LAMBDA u : ReadListing(u, dir)))

(* The first listing of a connection that fails is tried once more without *)
(* options; but not if CWD failed or the user interrupted.                 *)
FallsBack(s) == s.again /\ ~s.ok /\ ~s.bucket.listed /\ ~s.bucket.strict

Listed(s, dir) ==
    Each(Attempt(s, dir), LAMBDA t :
        IF FallsBack(t)
        THEN Attempt([t EXCEPT !.bucket.strict = TRUE, !.ok = TRUE], dir)
        ELSE {t})

(* A cached listing is used until it expires, which it may at any time.    *)
GetListing(s, dir) ==
    IF s.cache[dir] = NoListing THEN Listed(s, dir)
    ELSE (IF s.force THEN {} ELSE {s})
         \cup Listed([s EXCEPT !.cache[dir] = NoListing, !.force = FALSE], dir)

Resolved(s, dir) == [s EXCEPT !.cache[dir].links = "resolved", !.ok = TRUE]

(* With the options of ls a second listing shows where the links lead to;  *)
(* without them the directories they point into are listed.                *)
resolve_symlink(s, dir) ==
    IF s.bucket.strict
    THEN {Resolved(t, dir) : t \in UNION {GetListing(s, d) : d \in Dirs \ {dir}}}
    ELSE {Resolved(t, dir) :
             t \in Then(Then(AtDir(s, dir), LAMBDA t : OpenList(t, dir)),
                        LAMBDA t : {Answered(u, "LIST") : u \in Ends(t, "LIST")})}

retrieve_dir(s, dir, resolve_symlinks) ==
    Then(GetListing(s, dir), LAMBDA t :
        IF resolve_symlinks /\ t.cache[dir].links = "unresolved"
        THEN resolve_symlink(t, dir) ELSE {t})

flush_all_directory(s) == [s EXCEPT !.cache = [d \in Dirs |-> NoListing]]

-----------------------------------------------------------------------------
(* Files.                                                                  *)

linear_start(s, reget) ==
    {IF t.ok THEN [t EXCEPT !.bucket.linear = "open"] ELSE t :
        t \in open_data_connection(s, "RETR", NoDir, "binary", reget)}

(* All the reads until the end of the data, after which the reply is read, *)
(* or the first that the user interrupts, the wait for the reply included. *)
linear_read(s) ==
    {[t EXCEPT !.bucket.linear = "ended"] : t \in
        {Answered(u, "RETR") : u \in Ends(s, "RETR")}
        \cup {[Fails(u) EXCEPT !.history.overlooked = @ \/ u.server.replies # <<>>] :
                  u \in Ends(s, "RETR")}
        \cup Interrupted(s, "RETR")}

(* A write that took a part of the buffer is taken for one of all of it.   *)
WrittenShort(S) ==
    S \cup {[t EXCEPT !.done = FALSE, !.unsure = TRUE] : t \in {s \in S : s.ok}}

retrieve_file(s) ==
    WrittenShort({[t EXCEPT !.bucket.linear = s.bucket.linear] :
                     t \in Then(linear_start(s, FALSE), linear_read)})

(* When writing fails or is interrupted the server is left to take what    *)
(* has been sent for the whole.                                            *)
(* Faulty variant: the last reply is read, but not looked at.              *)
store_file_Unchecked(s) ==
    Then(open_data_connection(s, "STOR", NoDir, "binary", FALSE), LAMBDA t :
        {get_reply(u, {"STOR"}) : u \in Ends(t, "STOR")})

store_file(s) == WrittenShort(
    Then(open_data_connection(s, "STOR", NoDir, "binary", FALSE), LAMBDA t :
        {Answered(u, "STOR") : u \in Ends(t, "STOR")}
        \cup {Fails(Answered([u EXCEPT !.done = FALSE], "STOR")) : u \in Ends(t, "STOR")}))

-----------------------------------------------------------------------------
(* The connection itself.                                                  *)

NoBucket == [link |-> "none", type |-> "unknown", cwd |-> NoDir, cwd_defered |-> FALSE,
             use_passive |-> FALSE, strict |-> FALSE, listed |-> FALSE,
             linear |-> "none"]

AtLogin == [cwd |-> Home, transfer |-> "none", replies |-> <<>>]

NewLink(s) ==
    [s EXCEPT !.server = AtLogin, !.got_sigpipe = FALSE,
              !.history.crossed = FALSE, !.history.hung = FALSE,
              !.history.overlooked = FALSE, !.history.astray = FALSE,
              !.history.failed = 0]

(* After a login.  The server is not where it was; if a CWD had been sent  *)
(* the connection does not know.                                           *)
Connected(s) ==
    [NewLink(s) EXCEPT
        !.bucket.link = "up", !.bucket.type = "unknown",
        !.history.astray = ~s.bucket.cwd_defered /\ s.bucket.cwd \notin {NoDir, Home}]

connection_destructor(s) ==
    [NewLink(flush_all_directory(s)) EXCEPT !.bucket = NoBucket]

(* With the default options; connecting and the login may fail.            *)
open_command_connection(s) ==
    {Fails(s), Connected([s EXCEPT !.bucket.use_passive = TRUE])}

(* Faulty variant: a failed write is not remembered.                       *)
is_connection_closed_Never(s) == s.bucket.link = "unset"

is_connection_closed(s) == s.got_sigpipe

(* A connection is made again when a write to it has failed, or is freed   *)
(* when that fails.                                                        *)
open_link(s) ==
    IF s.bucket.link = "none" THEN open_command_connection(s)
    ELSE IF is_connection_closed(s)
    THEN {Connected(flush_all_directory(s)), Fails(connection_destructor(s))}
    ELSE {s}

-----------------------------------------------------------------------------
(* Entry points.  Bounds: between opening a file with O_LINEAR and closing *)
(* it the caller does nothing else with the server, as copy_file_file,     *)
(* unless it goes on with a copy (Reget) within one server; and after a    *)
(* reply has been mistaken for another the connection is only given up.    *)

Becomes(s) == /\ bucket' = s.bucket /\ server' = s.server /\ cache' = s.cache
              /\ got_sigpipe' = s.got_sigpipe /\ force_expiration' = s.force
              /\ history' = s.history

Reports(s, claims) ==
    LET lie == claims /\ s.ok /\ ~s.done
    IN  [s EXCEPT !.history.lied = lie, !.history.unsure = lie /\ s.unsure]

(* How many operations have failed since the link was lost, other than the *)
(* one that it was lost in.                                                *)
Counted(s) ==
    [s EXCEPT !.history.failed =
        IF ~Lost(s) \/ s.history.drops # history.drops THEN 0
        ELSE IF Lost(Now) /\ ~s.ok THEN @ + 1 ELSE @]

Calls(S, claims) ==
    /\ bucket.linear = "none" /\ ~history.crossed
    /\ \E s \in S : Becomes(Reports(Counted(s), claims))

OnPath(Op(_), claims) == Calls(Then(open_link(Now), Op), claims)

OnHandle(S, claims) ==
    /\ ~history.crossed
    /\ \E s \in S : Becomes(Reports(s, claims))

(* opendir and stat.                                                       *)
Look == \E d \in Dirs, resolve \in BOOLEAN :
    OnPath(LAMBDA s : retrieve_dir(s, d, resolve), FALSE)

s_chdir == \E d \in Dirs :
    OnPath(LAMBDA s : {[s EXCEPT !.bucket.cwd = d, !.bucket.cwd_defered = TRUE,
                                 !.history.astray = FALSE]}, FALSE)

Flushed(s) == {s, IF s.ok THEN flush_all_directory(s) ELSE s}

(* unlink, mkdir and rmdir; the listings are not flushed while the panel   *)
(* operates on files.                                                      *)
send_ftp_command ==
    OnPath(LAMBDA s : Each(Ask(s, "DELE", NoDir, COMPLETE), Flushed), TRUE)

(* SITE CHMOD with OPT_IGNORE_ERROR: whatever comes of it is a success.    *)
Ignored(s) == [s EXCEPT !.unsure = TRUE]

ftpfs_chmod ==
    OnPath(LAMBDA s : Each(command(s, "CHMOD", NoDir),
                           LAMBDA t : Flushed(Ignored(t))), TRUE)

(* RNTO is sent whatever came of RNFR.                                     *)
RnFr == Then(open_link(Now), LAMBDA s : command(s, "RNFR", NoDir))
RnTo(s) == Each(Ask(s, "RNTO", NoDir, COMPLETE), Flushed)

ftpfs_rename ==
    Calls(Each(RnFr, LAMBDA s : Then(open_link([s EXCEPT !.ok = TRUE]), RnTo)), TRUE)

(* What the listing has returned is over.                                  *)
Afresh(s) == [s EXCEPT !.code = 0, !.done = FALSE, !.again = FALSE]

InDir(Op(_)) == \E d \in Dirs :
    OnPath(LAMBDA s : Then({Afresh(t) : t \in retrieve_dir(s, d, TRUE)}, Op), TRUE)

GetFile == InDir(retrieve_file)

(* The file is stored when it is closed, the listings are flushed even if  *)
(* that fails; one that was there and has only been emptied is not stored. *)
Stored(s) == Each(store_file(s), LAMBDA t : {t, flush_all_directory(t)})

PutFile == InDir(LAMBDA s : Stored(s) \cup {Ignored(s)})

OpenLinear == \E d \in Dirs :
    OnPath(LAMBDA s : {[t EXCEPT !.bucket.linear = IF t.ok THEN "closed" ELSE @] :
                              t \in retrieve_dir(s, d, TRUE)}, FALSE)

(* The first read, or a seek.                                              *)
StartLinear == \E reget \in BOOLEAN :
    bucket.linear = "closed" /\ OnHandle(linear_start(Now, reget), FALSE)

(* Reading is tried again when it failed: there is no transfer any more.   *)
ReadLinear ==
    \/ bucket.linear = "open" /\ OnHandle(linear_read(Now), TRUE)
    \/ bucket.linear = "ended" /\ OnHandle(my_abort(Now), FALSE)

CloseLinear ==
    /\ bucket.linear # "none"
    /\ \E s \in IF bucket.linear = "open" THEN Interrupted(Now, "RETR") ELSE {Now} :
           Becomes(Reports([s EXCEPT !.bucket.linear = "none"], FALSE))

(* A job takes the connection along; here it is made anew.                 *)
my_forget ==
    /\ bucket.link # "none" /\ bucket.linear = "none"
    /\ \E s \in {Connected(Now), [Connected(Now) EXCEPT !.bucket.link = "closed"],
                 [NewLink(Now) EXCEPT !.bucket.link = "unset"]} :
           Becomes(Reports(s, FALSE))

(* vfs_timeout_handler, when nothing is open.                              *)
s_free == /\ bucket.link # "none" /\ bucket.linear = "none"
          /\ Becomes(Reports(connection_destructor(Now), FALSE))

ftpfs_flushdir == bucket.linear = "none" /\ ~force_expiration /\ Becomes(Reports([Now EXCEPT !.force = TRUE], FALSE))

HangsUp == /\ bucket.link = "up"
           /\ \E s \in HangUp(Now) : Becomes(Reports(s, FALSE))

Init ==
    /\ bucket = NoBucket /\ server = AtLogin
    /\ cache = [d \in Dirs |-> NoListing]
    /\ got_sigpipe = FALSE /\ force_expiration = FALSE
    /\ history = [crossed |-> FALSE, hung |-> FALSE, overlooked |-> FALSE,
                  astray |-> FALSE, drops |-> 0, failed |-> 0,
                  lied |-> FALSE, unsure |-> FALSE]

Next ==
    \/ Look \/ s_chdir \/ send_ftp_command \/ ftpfs_chmod \/ ftpfs_rename
    \/ GetFile \/ PutFile
    \/ OpenLinear \/ StartLinear \/ ReadLinear \/ CloseLinear
    \/ my_forget \/ s_free \/ ftpfs_flushdir \/ HangsUp

Spec == Init /\ [][Next]_vars

-----------------------------------------------------------------------------
(* Properties.                                                             *)

(* Every reply is read as the answer to the command that it answers, and   *)
(* none is waited for that does not come: whatever the server refuses or   *)
(* breaks off, and whichever transfers the user interrupts.  The exception *)
(* is a link on which a reply was left unread: by aborting a transfer that *)
(* the server had ended, or by interrupting the wait for the server or for *)
(* a last reply.                                                           *)
InStep == history.crossed \/ history.hung \/ server.replies # <<>> => history.overlooked

(* What is cached as the listing of a directory is all of it, and of that  *)
(* directory: however listings fail and are tried again in another way.    *)
(* The exception is a link that was made again when the directory of the   *)
(* server was thought to be known.                                         *)
ListedAsNamed ==
    \A d \in Dirs : cache[d] # NoListing =>
        cache[d].whole /\ (cache[d].from = d \/ cache[d].astray)

(* What an operation reports as done is done, all of it.  The exceptions   *)
(* are a link on which a reply was left unread, and an operation that      *)
(* returns success whatever came of it: one whose reply is not looked at,  *)
(* a transfer that wrote a part of a buffer, an existing file that was     *)
(* only emptied.                                                           *)
Truthful == history.lied => history.overlooked \/ history.unsure

(* A lost link makes two operations fail at most.                          *)
RepairedSoon == history.failed <= 2
=============================================================================
