------------------------------ MODULE EpollEcho ------------------------------
(***************************************************************************)
(* The echo server of server-epoll.cpp and its clients client-epoll.cpp:   *)
(* programs of one thread each, which wait for events and handle them one  *)
(* by one.  The server has one buffer for all its connections, and so has  *)
(* each client for both directions.                                        *)
(*                                                                         *)
(* A handler changes the registration of its own connection only, and what *)
(* is ready stays ready until it is handled, so that the events of one     *)
(* epoll_wait may be handled as if each had been waited for by itself.     *)
(*                                                                         *)
(* A byte is <<c, k>>, the k-th byte typed at client c.  A buffer is the   *)
(* bytes before its first zero, which is what strlen sees.  A read may     *)
(* fill the buffer and leave no zero: strlen then goes on behind it, which *)
(* is undefined; on the stack it meets a zero sooner or later, and what    *)
(* lies before it is written too.                                          *)
(***************************************************************************)
EXTENDS Integers, Sequences, SequencesExt

CONSTANTS Conn,    \* the clients, each with one connection
          Lines,   \* bound: the lengths of the lines, as the client's reads return them
          MAXSIZE, \* the length of a buffer
          Garbage, \* what the client's buffer, which nothing clears, may hold at first
          Behind   \* what strlen may find behind a buffer without a zero

Junk == <<"garbage", 0>>

ASSUME EpollAssumption ==
  /\ MAXSIZE \in Nat \ {0}
  /\ Lines \in [Conn -> Seq(1..MAXSIZE)]
  /\ Garbage \subseteq Seq({Junk}) /\ \A g \in Garbage : Len(g) <= MAXSIZE
  /\ Behind \subseteq Seq({Junk})

VARIABLES
  interest,  \* server: the event each connection is registered for, new or none
  buffer,    \* server: the buffer of do_epoll
  alive,     \* server: the process is running
  up, down,  \* the bytes on their way to the server, to the client
  open,      \* client: the process is running
  stdin,     \* client: the descriptor 0 is registered
  sock,      \* client: the event its socket is registered for, none or closed
  stdout,    \* client: the descriptor 1 is registered
  buf,       \* client: the buffer of handle_connection
  line,      \* client: the number of lines typed
  got, sent,       \* history, server: the bytes read and written
  typed, printed,  \* history, client: the bytes typed and printed
  overlap,         \* history: the server read into a buffer it had not yet written
  ahead,           \* history: the clients with a line typed before the echo of the last
  overrun          \* history: the connections written to, by either side, from a full buffer

serverVars == <<interest, buffer, alive, got, sent, overlap>>
clientVars == <<open, stdin, sock, stdout, buf, line, typed, printed, ahead>>
vars == <<serverVars, clientVars, up, down, overrun>>

Byte == (Conn \X Nat) \cup {Junk}

\* The contents of a buffer.
Contents(b) == b \in Seq(Byte) /\ Len(b) <= MAXSIZE

TypeOK ==
  /\ interest \in [Conn -> {"new", "in", "out", "none"}]
  /\ Contents(buffer) /\ alive \in BOOLEAN
  /\ up \in [Conn -> Seq(Byte)] /\ down \in [Conn -> Seq(Byte)]
  /\ open \in [Conn -> BOOLEAN]
  /\ stdin \in [Conn -> BOOLEAN] /\ stdout \in [Conn -> BOOLEAN]
  /\ sock \in [Conn -> {"none", "in", "out", "closed"}]
  /\ \A c \in Conn : Contents(buf[c])
  /\ \A c \in Conn : line[c] \in 0..Len(Lines[c])
  /\ got \in [Conn -> Seq(Byte)] /\ sent \in [Conn -> Seq(Byte)]
  /\ typed \in [Conn -> Seq(Byte)] /\ printed \in [Conn -> Seq(Byte)]
  /\ overlap \in BOOLEAN /\ ahead \subseteq Conn /\ overrun \subseteq Conn

Nothing == [c \in Conn |-> <<>>]

Init ==
  /\ interest = [c \in Conn |-> "new"] /\ buffer = <<>> /\ alive = TRUE
  /\ up = Nothing /\ down = Nothing
  /\ open = [c \in Conn |-> TRUE]
  /\ stdin = [c \in Conn |-> TRUE] /\ stdout = [c \in Conn |-> FALSE]
  /\ sock = [c \in Conn |-> "none"]
  /\ buf \in [Conn -> Garbage]
  /\ line = [c \in Conn |-> 0]
  /\ got = Nothing /\ sent = Nothing /\ typed = Nothing /\ printed = Nothing
  /\ overlap = FALSE /\ ahead = {} /\ overrun = {}

\* What a buffer holds after s was read into it.
Into(b, s) == s \o SubSeq(b, Len(s) + 1, Len(b))

Extend(f, c, s) == [f EXCEPT ![c] = @ \o s]

\* What one read takes of the bytes that are there, and what it leaves.
Taken(s) == IF Len(s) <= MAXSIZE THEN s ELSE SubSeq(s, 1, MAXSIZE)
Rest(s) == IF Len(s) <= MAXSIZE THEN <<>> ELSE SubSeq(s, MAXSIZE + 1, Len(s))

\* What write(fd, buf, strlen(buf)) may write.
Text(b) == IF Len(b) < MAXSIZE THEN {b} ELSE {b \o g : g \in Behind}

Strlen(c, b) == overrun' = IF Len(b) < MAXSIZE THEN overrun ELSE overrun \cup {c}

-----------------------------------------------------------------------------
(***************************************************************************)
(* The server.                                                             *)
(***************************************************************************)
handle_accpet(c) ==
  /\ alive /\ interest[c] = "new"
  /\ interest' = [interest EXCEPT ![c] = "in"]
  /\ UNCHANGED <<buffer, alive, got, sent, overlap, clientVars, up, down, overrun>>

\* The connection is ready for EPOLLIN: data, the end, or an error.
do_read(c) ==
  /\ alive /\ interest[c] = "in"
  /\ \/ /\ up[c] # <<>>
        /\ buffer' = Into(buffer, Taken(up[c]))
        /\ overlap' = (overlap \/ buffer # <<>>)
        /\ interest' = [interest EXCEPT ![c] = "out"]
        /\ up' = [up EXCEPT ![c] = Rest(@)]
        /\ got' = Extend(got, c, Taken(up[c]))
     \/ /\ ~open[c]
        /\ interest' = [interest EXCEPT ![c] = "none"]
        /\ UNCHANGED <<buffer, overlap, up, got>>
  /\ UNCHANGED <<alive, sent, clientVars, down, overrun>>

\* A faulty do_write that clears the buffer only when the write failed.
do_writeKeep(c) ==
  /\ alive /\ interest[c] = "out" /\ open[c]
  /\ \E s \in Text(buffer) : down' = Extend(down, c, s) /\ sent' = Extend(sent, c, s)
  /\ Strlen(c, buffer)
  /\ interest' = [interest EXCEPT ![c] = "in"]
  /\ UNCHANGED <<buffer, alive, got, overlap, clientVars, up>>

\* A faulty do_write that clears the buffer before it writes it.
do_writeCleared(c) ==
  /\ alive /\ interest[c] = "out" /\ open[c]
  /\ interest' = [interest EXCEPT ![c] = "in"]
  /\ buffer' = <<>>
  /\ UNCHANGED <<alive, got, sent, overlap, clientVars, up, down, overrun>>

(***************************************************************************)
(* The connection is ready for EPOLLOUT, and the buffer is written,        *)
(* whoever filled it.  To a client that is gone the bytes are lost, the    *)
(* write fails, or SIGPIPE ends the server.                                *)
(***************************************************************************)
do_write(c) ==
  /\ alive /\ interest[c] = "out"
  /\ \/ /\ open[c]
        /\ \E s \in Text(buffer) : down' = Extend(down, c, s) /\ sent' = Extend(sent, c, s)
        /\ interest' = [interest EXCEPT ![c] = "in"]
        /\ UNCHANGED alive
     \/ /\ ~open[c]
        /\ \/ \E s \in {"in", "none"} : interest' = [interest EXCEPT ![c] = s] /\ UNCHANGED alive
           \/ alive' = FALSE /\ UNCHANGED interest
        /\ UNCHANGED <<down, sent>>
  /\ Strlen(c, buffer)
  /\ buffer' = <<>>
  /\ UNCHANGED <<got, overlap, clientVars, up>>

handle_events(c) == handle_accpet(c) \/ do_read(c) \/ do_write(c)

-----------------------------------------------------------------------------
(***************************************************************************)
(* The client.                                                             *)
(***************************************************************************)
\* The bytes that were typed, without those the buffer held before.
Real(s) ==
  LET upTo[i \in 0..Len(s)] ==
        IF i = 0 THEN <<>> ELSE IF s[i] = Junk THEN upTo[i - 1] ELSE Append(upTo[i - 1], s[i])
  IN  upTo[Len(s)]

\* A faulty do_read that reads behind what the buffer holds.
do_readStdinBehind(c) ==
  /\ open[c] /\ stdin[c] /\ line[c] < Len(Lines[c])
  /\ LET s == [k \in 1..Lines[c][line[c] + 1] |-> <<c, Len(typed[c]) + k>>] IN
       /\ buf' = Extend(buf, c, s)
       /\ typed' = Extend(typed, c, s)
  /\ sock' = [sock EXCEPT ![c] = IF @ = "none" THEN "out" ELSE @]
  /\ line' = [line EXCEPT ![c] = @ + 1]
  /\ UNCHANGED <<open, stdin, stdout, printed, ahead, serverVars, up, down, overrun>>

(***************************************************************************)
(* A line is typed and read.  add_event fails when the socket is           *)
(* registered already, and nobody looks.                                   *)
(***************************************************************************)
do_readStdin(c) ==
  /\ open[c] /\ stdin[c] /\ line[c] < Len(Lines[c])
  /\ LET s == [k \in 1..Lines[c][line[c] + 1] |-> <<c, Len(typed[c]) + k>>] IN
       /\ buf' = [buf EXCEPT ![c] = Into(@, s)]
       /\ typed' = Extend(typed, c, s)
  /\ sock' = [sock EXCEPT ![c] = IF @ = "none" THEN "out" ELSE @]
  /\ line' = [line EXCEPT ![c] = @ + 1]
  /\ ahead' = IF Real(printed[c]) = typed[c] THEN ahead ELSE ahead \cup {c}
  /\ UNCHANGED <<open, stdin, stdout, printed, serverVars, up, down, overrun>>

\* The end of the input: only the descriptor is closed.
do_readEnd(c) ==
  /\ open[c] /\ stdin[c]
  /\ stdin' = [stdin EXCEPT ![c] = FALSE]
  /\ UNCHANGED <<open, sock, stdout, buf, line, typed, printed, ahead, serverVars, up, down, overrun>>

\* A faulty do_read that writes to stdout and leaves the socket registered.
do_readSockStay(c) ==
  /\ open[c] /\ sock[c] = "in" /\ down[c] # <<>>
  /\ buf' = [buf EXCEPT ![c] = Into(@, Taken(down[c]))]
  /\ down' = [down EXCEPT ![c] = Rest(@)]
  /\ stdout' = [stdout EXCEPT ![c] = TRUE]
  /\ UNCHANGED sock
  /\ UNCHANGED <<open, stdin, line, typed, printed, ahead, serverVars, up, overrun>>

do_readSock(c) ==
  /\ open[c] /\ sock[c] = "in"
  /\ \/ /\ down[c] # <<>>
        /\ buf' = [buf EXCEPT ![c] = Into(@, Taken(down[c]))]
        /\ down' = [down EXCEPT ![c] = Rest(@)]
        /\ sock' = [sock EXCEPT ![c] = "none"]
        /\ stdout' = [stdout EXCEPT ![c] = TRUE]
     \/ /\ down[c] = <<>> /\ ~alive
        /\ sock' = [sock EXCEPT ![c] = "closed"]
        /\ UNCHANGED <<buf, down, stdout>>
  /\ UNCHANGED <<open, stdin, line, typed, printed, ahead, serverVars, up, overrun>>

\* A write to the socket; with the server gone as do_write of the server.
do_writeSock(c) ==
  /\ open[c] /\ sock[c] = "out"
  /\ \E s \in Text(buf[c]) : up' = Extend(up, c, s)
  /\ Strlen(c, buf[c])
  /\ \/ sock' = [sock EXCEPT ![c] = "in"] /\ UNCHANGED open
     \/ ~alive /\ sock' = [sock EXCEPT ![c] = "closed"] /\ UNCHANGED open
     \/ ~alive /\ open' = [open EXCEPT ![c] = FALSE] /\ UNCHANGED sock
  /\ buf' = [buf EXCEPT ![c] = <<>>]
  /\ UNCHANGED <<stdin, stdout, line, typed, printed, ahead, serverVars, down>>

\* A faulty do_write that leaves stdout registered and the buffer as it is.
do_writeStdoutStay(c) ==
  /\ open[c] /\ stdout[c]
  /\ \E s \in Text(buf[c]) : printed' = Extend(printed, c, s)
  /\ Strlen(c, buf[c])
  /\ UNCHANGED <<open, stdin, sock, stdout, buf, line, typed, ahead, serverVars, up, down>>

do_writeStdout(c) ==
  /\ open[c] /\ stdout[c]
  /\ \E s \in Text(buf[c]) : printed' = Extend(printed, c, s)
  /\ Strlen(c, buf[c])
  /\ stdout' = [stdout EXCEPT ![c] = FALSE]
  /\ buf' = [buf EXCEPT ![c] = <<>>]
  /\ UNCHANGED <<open, stdin, sock, line, typed, ahead, serverVars, up, down>>

handle_connection(c) == do_readSock(c) \/ do_writeSock(c) \/ do_writeStdout(c)

\* The client's loop never ends by itself: the process is killed.
Kill(c) ==
  /\ open[c]
  /\ open' = [open EXCEPT ![c] = FALSE]
  /\ UNCHANGED <<stdin, sock, stdout, buf, line, typed, printed, ahead, serverVars, up, down, overrun>>

-----------------------------------------------------------------------------
Next ==
  \E c \in Conn :
    \/ handle_events(c)
    \/ do_readStdin(c) \/ do_readEnd(c) \/ handle_connection(c) \/ Kill(c)

Spec == Init /\ [][Next]_vars

\* The loops handle every event that epoll_wait reports; users may stop typing.
Fairness ==
  \A c \in Conn : WF_vars(handle_events(c)) /\ WF_vars(handle_connection(c))

FairSpec == Spec /\ Fairness

-----------------------------------------------------------------------------
(***************************************************************************)
(* A connection is sent the bytes that were read from it, in order and     *)
(* nothing else, as long as the one buffer is written before the next read *)
(* into it, from whatever connection, and nothing of its own has ever      *)
(* filled a buffer: what lies behind a full one is sent with it.           *)
(***************************************************************************)
EchoUnlessOverlap ==
  ~overlap => \A c \in Conn \ overrun : open[c] =>
    got[c] = sent[c] \o (IF interest[c] = "out" THEN buffer ELSE <<>>)

(***************************************************************************)
(* Apart from what its buffer held at first, a client prints what was      *)
(* typed, unless a line is typed before the echo of the last is there, or  *)
(* the server mixed two connections up, or one of its lines filled a       *)
(* buffer.                                                                 *)
(***************************************************************************)
PrintsWhatWasTyped ==
  ~overlap => \A c \in Conn \ (ahead \cup overrun) : IsPrefix(Real(printed[c]), typed[c])

(***************************************************************************)
(* ... and it does print all of it.                                        *)
(***************************************************************************)
EchoComes ==
  \A c \in Conn : \A n \in 1..FoldSeq(+, 0, Lines[c]) :
    Len(typed[c]) >= n ~>
      \/ Len(Real(printed[c])) >= n
      \/ overlap \/ c \in ahead \cup overrun \/ ~open[c] \/ ~alive

(***************************************************************************)
(* However the connections overlap in the one buffer, a byte that was      *)
(* typed is sent back once at most, and to one client, unless a client     *)
(* itself sends the echo again, which one that types ahead may do.  Stated *)
(* for runs in which nothing fills a buffer.                               *)
(***************************************************************************)
SentOnce ==
  ahead = {} /\ overrun = {} => \A c, d \in Conn : \A i \in DOMAIN sent[c], j \in DOMAIN sent[d] :
    sent[c][i] = sent[d][j] => sent[c][i] = Junk \/ <<c, i>> = <<d, j>>
=============================================================================
