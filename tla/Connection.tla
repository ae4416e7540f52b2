------------------------------ MODULE Connection ------------------------------
(***************************************************************************)
(* Requests and replies between mtclient and mtd: the window of requests   *)
(* in flight that a client keeps (struct child of mtclient.cc), the        *)
(* buffered connection of either end (KVConn of mtclient.hh, conn of       *)
(* mtd.cc, kvout of kvio.cc), the main thread that accepts and hands       *)
(* connections over, and the loops of the TCP and UDP threads.             *)
(*                                                                         *)
(* What travels is a sequence of fields: <<c, s, i>> is field i of request *)
(* s of client c, or of the reply to it.  A parsed message refers to the   *)
(* places of the input buffer where its fields lie, as the stable strings  *)
(* of the program do, so that a buffer reused too early shows.  A socket   *)
(* holds SockCap fields and a read takes any part of them; a field is not  *)
(* cut in two (MsgPack.tla has the cut ones).                              *)
(***************************************************************************)
EXTENDS Integers, Sequences, FiniteSets, SequencesExt, FiniteSetsExt, TLC

CONSTANTS Tcp,        \* clients with a TCP connection
          Udp,        \* clients with a UDP socket
          Programs,   \* what the clients may do: sets of functions from the
                      \* clients that take part to sequences of operations
          Refused,    \* clients built with a longer maximal key than mtd
          Core,       \* the core a client asks for, -1 for any
          TcpThreads, \* number of threads of mtd serving TCP
          Window,     \* requests in flight; a power of two
          ReqLen,     \* fields of a request
          RepLen,     \* fields of a reply
          InBuf,      \* fields of an input buffer (inbufsz)
          OutCap,     \* initial fields of an output buffer
          SockCap,    \* fields a TCP socket holds in one direction
          MaxKills,   \* clients killed with requests in flight
          MaxLosses   \* datagrams lost

Clients == Tcp \cup Udp
Threads == 0..(TcpThreads - 1)

VARIABLES cl,      \* per client: state, call stack, window, operations to do
          port,    \* the buffers of the two ends of each connection
          up,      \* fields (datagrams for UDP) on their way to the server
          down,    \* and to the client
          pipe,    \* connections accepted and not yet seen by a thread
          next,    \* counter that deals connections to threads
          srv,     \* per TCP thread: where it is, ready queue, connection
          served,  \* requests executed so far, per client
          faults,  \* kills and losses so far
          failed   \* assertions of the two programs that did not hold

vars == <<cl, port, up, down, pipe, next, srv, served, faults, failed>>

Fields(c, s, lo, hi) == [i \in 1..(hi - lo + 1) |-> <<c, s, lo + i - 1>>]

-------------------------------------------------------------------------------
(* The buffers of one end.                                                 *)

NewPort == [mem |-> 0 :> <<>>, cur |-> 0, pos |-> 0, total |-> 0,
            part |-> <<>>, out |-> <<>>, cap |-> OutCap]

\* check(0): what the buffer holds beyond the last field parsed.
Unread(p) == Len(p.mem[p.cur]) - p.pos

MutHardCheck(p) ==
    [p EXCEPT !.mem = p.cur :> <<>>, !.total = @ + p.pos, !.pos = 0]

\* The buffers as hard_check() leaves them before it reads: a new start when
\* the parser is between messages, one more buffer when this one is full.
hard_check(p) ==
    IF p.part = <<>>
    THEN [p EXCEPT !.mem = p.cur :> <<>>, !.total = @ + p.pos, !.pos = 0]
    ELSE IF p.pos = InBuf
    THEN LET b == CHOOSE b \in 0..InBuf : b \notin DOMAIN p.mem
         IN  [p EXCEPT !.mem = @ @@ b :> <<>>, !.cur = b,
                       !.total = @ + p.pos, !.pos = 0]
    ELSE p

\* What read() may return of the fields waiting in a socket.
ReadSizes(p, q) == 1..Min({Len(q), InBuf - p.pos})
Filled(p, fs) == [p EXCEPT !.mem[p.cur] = @ \o fs]

\* streaming_parser::consume on the unread part of the buffer, for a message
\* of n fields.
consume(p, n) ==
    LET k == Min({n - Len(p.part), Unread(p)})
    IN  [p EXCEPT !.pos = @ + k,
                  !.part = @ \o [i \in 1..k |-> <<p.cur, p.pos + i>>]]

Parsed(p) == [i \in DOMAIN p.part |->
                  IF /\ p.part[i][1] \in DOMAIN p.mem
                     /\ p.part[i][2] <= Len(p.mem[p.part[i][1]])
                  THEN p.mem[p.part[i][1]][p.part[i][2]]
                  ELSE <<>>]

\* conn::recent_string: the bytes since position x if this buffer has them.
recent_string(p, x) ==
    IF x - p.total \in 0..p.pos
    THEN SubSeq(p.mem[p.cur], x - p.total + 1, p.pos)
    ELSE <<>>

\* msgpack::unparse into a kvout: the fields that fit before the buffer has
\* to be flushed, and the buffer, which grow() then also doubles.
Fit(p, n) == Min({n, p.cap - Len(p.out)})
Unparse(p, fs, n) == [p EXCEPT !.out = @ \o SubSeq(fs, 1, Fit(p, n)),
                               !.cap = IF Fit(p, n) < n THEN 2 * @ ELSE @]

\* One write of kvflush to a TCP socket holding q.
Writable(p, q) == Min({Len(p.out), SockCap - Len(q)})
Written(p, n) == [p EXCEPT !.out = SubSeq(@, n + 1, Len(@))]

-------------------------------------------------------------------------------
(* The client.  Its stack has one frame for each call under way; the last  *)
(* one runs.                                                               *)

Frame(c) == Last(cl[c].stack)
In(c, name) == cl[c].state = "open" /\ cl[c].stack # <<>> /\ Frame(c)[1] = name
\* The stack with its last frame replaced by the frames fs.
Stack(c, fs) == Front(cl[c].stack) \o fs
Goto(c, fs) == cl' = [cl EXCEPT ![c].stack = Stack(c, fs)]
Mine(c) == port["client"][c]
SetMine(c, p) == port' = [port EXCEPT !["client"][c] = p]

\* The wait of a synchronous request, beside checkasync's force 0, 1 and 2.
Sync == 3

Unsent == [seq |-> -1, acked |-> TRUE, op |-> "none"]
NewClient(prog, c) ==
    [state |-> IF c \notin DOMAIN prog THEN "absent"
               ELSE IF c \in Udp THEN "open" ELSE "new",
     stack |-> <<>>, seq0 |-> 0, seq1 |-> 0,
     slot |-> [i \in 0..(Window - 1) |-> Unsent],
     todo |-> IF c \in DOMAIN prog THEN prog[c] ELSE <<>>]

\* KVConn::KVConn and handshake(), up to its wait for the answer.
Connect(c) ==
    /\ cl[c].state = "new"
    /\ cl' = [cl EXCEPT ![c].state = "connecting"]
    /\ up' = [up EXCEPT ![c] = << <<c, "handshake", 1>> >>]
    /\ UNCHANGED <<port, down, pipe, next, srv, served, faults, failed>>

\* handshake(): the answer; a client whose key length does not suit exits.
Connected(c) ==
    /\ cl[c].state = "connecting"
    /\ down[c] # <<>>
    /\ cl' = [cl EXCEPT ![c].state = IF Head(down[c])[2] = "ok" THEN "open"
                                                                ELSE "closed"]
    /\ down' = [down EXCEPT ![c] = Tail(@)]
    /\ UNCHANGED <<port, up, pipe, next, srv, served, faults, failed>>

\* The test calls the next operation.  A synchronous one comes after
\* wait_all; the last call is the checkasync(&c, 2) of run_child.
Call(c) ==
    /\ cl[c].state = "open"
    /\ cl[c].stack = <<>>
    /\ cl[c].todo # <<>> \/ cl[c].seq0 # cl[c].seq1
    /\ cl' = [cl EXCEPT
           ![c].stack = IF cl[c].todo = <<>> THEN << <<"checkasync", 2>> >>
                        ELSE IF Head(cl[c].todo) = "sync"
                        THEN << <<"send", "sync", 1>>, <<"checkasync", 2>> >>
                        ELSE << <<"check_flush", Head(cl[c].todo)>> >>,
           ![c].todo = IF @ = <<>> THEN @ ELSE Tail(@)]
    /\ UNCHANGED <<port, up, down, pipe, next, srv, served, faults, failed>>

\* run_child closes the socket.
Close(c) ==
    /\ cl[c].state = "open"
    /\ cl[c].stack = <<>> /\ cl[c].todo = <<>> /\ cl[c].seq0 = cl[c].seq1
    /\ cl' = [cl EXCEPT ![c].state = "closed"]
    /\ UNCHANGED <<port, up, down, pipe, next, srv, served, faults, failed>>

\* child::check_flush: a flush after every half window ...
CheckFlush(c) ==
    /\ In(c, "check_flush")
    /\ Goto(c, << <<"window", Frame(c)[2]>> >> \o
               IF cl[c].seq1 % (Window \div 2) = 0 THEN << <<"flush">> >>
                                                   ELSE <<>>)
    /\ UNCHANGED <<port, up, down, pipe, next, srv, served, faults, failed>>

\* ... and a wait for replies while the window is full.
WindowFull(c) == cl[c].seq1 - cl[c].seq0 >= Window
CheckWindow(c) ==
    /\ In(c, "window")
    /\ Goto(c, IF WindowFull(c) THEN << Frame(c), <<"checkasync", 1>> >>
                                ELSE << <<"send", Frame(c)[2], 1>> >>)
    /\ UNCHANGED <<port, up, down, pipe, next, srv, served, faults, failed>>

\* aget, aput, aremove and their column forms (a slot of the window is
\* taken), and get, put, remove (the reply is received at once): the request
\* goes into the output buffer, which is flushed when it is full.
Send(c) ==
    /\ In(c, "send")
    /\ \E op \in {Frame(c)[2]}, i \in {Frame(c)[3]} :
       LET s == cl[c].seq1
           n == ReqLen - i + 1
           k == Fit(Mine(c), n)
       IN  /\ SetMine(c, Unparse(Mine(c), Fields(c, s, i, ReqLen), n))
           /\ IF k < n
              THEN Goto(c, << <<"send", op, i + k>>, <<"flush">> >>)
              ELSE IF op = "sync"
              THEN Goto(c, << <<"receive", Sync>>, <<"flush">> >>)
              ELSE cl' = [cl EXCEPT
                      ![c].stack = Stack(c, IF c \in Udp THEN << <<"flush">> >>
                                                         ELSE <<>>),
                      ![c].slot[s % Window] =
                          [seq |-> s, acked |-> FALSE, op |-> op],
                      ![c].seq1 = s + 1]
    /\ UNCHANGED <<up, down, pipe, next, srv, served, faults, failed>>

\* kvflush: write what the socket takes until nothing is left.
Flush(c) ==
    /\ In(c, "flush")
    /\ IF Mine(c).out = <<>>
       THEN Goto(c, <<>>) /\ UNCHANGED <<port, up>>
       ELSE \E n \in {IF c \in Udp THEN Len(Mine(c).out)
                                   ELSE Writable(Mine(c), up[c])} :
            /\ n > 0
            /\ LET fs == SubSeq(Mine(c).out, 1, n)
               IN  up' = [up EXCEPT ![c] =
                              IF c \in Udp THEN Append(@, fs) ELSE @ \o fs]
            /\ SetMine(c, Written(Mine(c), n))
            /\ IF n = Len(Mine(c).out) THEN Goto(c, <<>>) ELSE UNCHANGED cl
    /\ UNCHANGED <<down, pipe, next, srv, served, faults, failed>>

\* checkasync: force 0 takes what is there, 1 waits for a reply, 2 for all.
CheckAsync(c) ==
    /\ In(c, "checkasync")
    /\ \E force \in {Frame(c)[2]} :
       Goto(c, IF cl[c].seq0 = cl[c].seq1 THEN <<>>
               ELSE IF force = 0 THEN << <<"check", force>> >>
               ELSE << <<"check", force>>, <<"flush">> >>)
    /\ UNCHANGED <<port, up, down, pipe, next, srv, served, faults, failed>>

\* A read of the client: part of a TCP stream, or one datagram of any order.
TcpRead(c, frames) ==
    \E p \in {hard_check(Mine(c))} : \E k \in ReadSizes(p, down[c]) :
       /\ c \in Tcp
       /\ SetMine(c, Filled(p, SubSeq(down[c], 1, k)))
       /\ down' = [down EXCEPT ![c] = SubSeq(@, k + 1, Len(@))]
       /\ Goto(c, frames)

UdpRead(c, frames) ==
    \E p \in {hard_check(Mine(c))} : \E j \in DOMAIN down[c] :
       /\ c \in Udp
       /\ SetMine(c, Filled(p, down[c][j]))
       /\ down' = [down EXCEPT ![c] = RemoveAt(@, j)]
       /\ Goto(c, frames)

\* KVConn::check in checkasync.
Check(c) ==
    /\ In(c, "check")
    /\ \E force \in {Frame(c)[2]} :
       IF Unread(Mine(c)) > 0
       THEN Goto(c, << <<"receive", force>> >>) /\ UNCHANGED <<port, down>>
       ELSE IF down[c] = <<>>
       THEN force = 0 /\ Goto(c, <<>>) /\ UNCHANGED <<port, down>>
       ELSE \/ TcpRead(c, << <<"receive", force>> >>)
            \/ UdpRead(c, << <<"receive", force>> >>)
    /\ UNCHANGED <<up, pipe, next, srv, served, faults, failed>>

\* What checkasync does with a reply: it must belong to an unanswered request
\* of the window; the window moves past answered requests; the callback runs,
\* and that of volt2b ("nest") sends a request of its own.
Answered(c, s) == {i \in cl[c].seq0..(cl[c].seq1 - 1) :
                     i = s \/ cl[c].slot[i % Window].acked}
Reply(c, v, force) ==
    LET s == v[1][2]
        a == cl[c].slot[s % Window]
        seq0 == CHOOSE i \in cl[c].seq0..cl[c].seq1 :
                    /\ cl[c].seq0..(i - 1) \subseteq Answered(c, s)
                    /\ i \notin Answered(c, s)
    IN  /\ cl' = [cl EXCEPT
              ![c].slot[s % Window].acked = TRUE,
              ![c].seq0 = seq0,
              ![c].stack = Stack(c,
                  << <<"checkasync", IF force = 2 THEN 2 ELSE 0>> >> \o
                  IF a.op = "nest" THEN << <<"check_flush", "async">> >>
                                   ELSE <<>>)]
        /\ failed' = failed \cup
              (IF s \in cl[c].seq0..(cl[c].seq1 - 1) THEN {} ELSE {"window"})
              \cup (IF a.seq = s THEN {} ELSE {"slot"})
              \cup (IF a.acked THEN {"acked"} ELSE {})
              \cup (IF v = Fields(c, s, 1, RepLen) THEN {} ELSE {"reply"})

\* The reply to get, put or remove.
SyncReply(c, v) ==
    /\ cl' = [cl EXCEPT ![c].stack = Stack(c, <<>>),
                        ![c].seq0 = @ + 1, ![c].seq1 = @ + 1]
    /\ failed' = failed \cup (IF v = Fields(c, cl[c].seq1, 1, RepLen) THEN {}
                                                             ELSE {"sync"})

\* KVConn::receive: parse what the buffer has, read on if that is not a reply.
Receive(c) ==
    /\ In(c, "receive")
    /\ \E p \in {consume(Mine(c), RepLen)} :
       IF Len(p.part) < RepLen
       THEN /\ SetMine(c, p)
            /\ Goto(c, << <<"more", Frame(c)[2]>>, <<"flush">> >>)
            /\ UNCHANGED failed
       ELSE /\ SetMine(c, [p EXCEPT !.part = <<>>])
            /\ IF Frame(c)[2] = Sync THEN SyncReply(c, Parsed(p))
                                       ELSE Reply(c, Parsed(p), Frame(c)[2])
    /\ UNCHANGED <<up, down, pipe, next, srv, served, faults>>

\* A datagram holds a whole reply, so this is a read of a stream.
ReceiveMore(c) ==
    /\ In(c, "more")
    /\ TcpRead(c, << <<"receive", Frame(c)[2]>> >>)
    /\ UNCHANGED <<up, pipe, next, srv, served, faults, failed>>

ClientStep(c) ==
    \/ Connect(c) \/ Connected(c) \/ Call(c) \/ Close(c) \/ CheckFlush(c)
    \/ CheckWindow(c) \/ Send(c) \/ Flush(c) \/ CheckAsync(c) \/ Check(c)
    \/ Receive(c) \/ ReceiveMore(c)

-------------------------------------------------------------------------------
(* The server.                                                             *)

Alive == \A t \in Threads : srv[t].pc # "dead"
Theirs(c) == port["server"][c]
SetTheirs(c, p) == port' = [port EXCEPT !["server"][c] = p]
At(t, pc) == Alive /\ srv[t].pc = pc
Conn(t) == srv[t].cur

\* The main thread: a connection is accepted, its handshake read, and the
\* connection written to the pipe of the core it asks for, or of the next.  (The
\* clients send a whole handshake; main closes a connection with a broken one.)
Accept(c) ==
    /\ Alive
    /\ c \in Tcp /\ cl[c].state = "connecting" /\ up[c] # <<>>
    /\ LET any == Core[c] \notin Threads
           t == IF any THEN next % TcpThreads ELSE Core[c]
       IN  /\ pipe' = [pipe EXCEPT ![t] = Append(@, c)]
           /\ next' = IF any THEN next + 1 ELSE next
    /\ up' = [up EXCEPT ![c] = <<>>]
    /\ UNCHANGED <<cl, port, down, srv, served, faults, failed>>

\* Level-triggered readiness: data, the end of the stream, or the pipe.
Gone(c) == cl[c].state \in {"closed", "killed"}
Events(t) == {c \in srv[t].conns : up[c] # <<>> \/ Gone(c)} \cup
             (IF pipe[t] # <<>> THEN {"pipe"} ELSE {})

\* tcp_threadfunc: wait, then go through the ready connections.
Wait(t) ==
    /\ At(t, "wait")
    /\ Events(t) # {}
    /\ \E r \in SetToSeqs(Events(t)) :
          srv' = [srv EXCEPT ![t].pc = "next", ![t].ready = r]
    /\ UNCHANGED <<cl, port, up, down, pipe, next, served, faults, failed>>

PipeReady(t) == srv[t].ready # <<>> /\ Head(srv[t].ready) = "pipe"

NextReady(t) ==
    /\ At(t, "next")
    /\ ~ PipeReady(t)
    /\ srv' = IF srv[t].ready = <<>> THEN [srv EXCEPT ![t].pc = "wait"]
              ELSE \* remember xposition()
                   LET c == Head(srv[t].ready)
                   IN  [srv EXCEPT ![t].pc = "receive", ![t].cur = c,
                                   ![t].ready = Tail(@),
                                   ![t].xposition =
                                        Theirs(c).total + Theirs(c).pos]
    /\ UNCHANGED <<cl, port, up, down, pipe, next, served, faults, failed>>

\* A client that may send longer keys than mtd takes is refused.
handshake(c) == IF c \in Refused THEN "bad maxkeylen" ELSE "ok"

\* New connections: each has its handshake answered.
NewConnections(t) ==
    /\ At(t, "next")
    /\ PipeReady(t)
    /\ LET new == ToSet(pipe[t])
       IN  /\ srv' = [srv EXCEPT ![t].ready = Tail(@),
                                 ![t].conns = @ \cup (new \ Refused)]
           /\ port' = [port EXCEPT !["server"] =
                           [c \in Clients |-> IF c \in new THEN NewPort
                                                           ELSE @[c]]]
           /\ down' = [c \in Clients |->
                         IF c \notin new THEN down[c]
                         ELSE << <<c, handshake(c), 1>> >>]
    /\ pipe' = [pipe EXCEPT ![t] = <<>>]
    /\ UNCHANGED <<cl, up, next, served, faults, failed>>

\* conn::receive and onego: a whole request is executed, with the bytes
\* recent_string still finds of it handed to the log, and answered; more
\* fields are read for a partial one.
Execute(t, c, p) ==
    LET v == Parsed(p)
        r == recent_string(p, srv[t].xposition)
    IN  /\ served' = [served EXCEPT ![c] = @ + 1]
        /\ failed' = failed \cup
              (IF v = Fields(c, served[c], 1, ReqLen) THEN {} ELSE {"request"})
              \cup (IF r \in {v, <<>>} THEN {} ELSE {"recent_string"})
        /\ srv' = [srv EXCEPT ![t].pc = "reply", ![t].seq = v[1][2],
                              ![t].field = 1]

ServerReceive(t) ==
    /\ At(t, "receive")
    /\ \E c \in {Conn(t)} : \E p \in {consume(Theirs(c), ReqLen)} :
       IF Len(p.part) < ReqLen
       THEN /\ SetTheirs(c, p)
            /\ srv' = [srv EXCEPT ![t].pc = "more"]
            /\ UNCHANGED <<served, failed>>
       ELSE /\ SetTheirs(c, [p EXCEPT !.part = <<>>])
            /\ Execute(t, c, p)
    /\ UNCHANGED <<cl, up, down, pipe, next, faults>>

\* conn::hard_check with tryhard 2, once the output is flushed: a blocking
\* read, which ends the connection at the end of the stream.
ServerReadMore(t) ==
    /\ At(t, "more")
    /\ \E c \in {Conn(t)} :
       /\ Theirs(c).out = <<>>
       /\ IF up[c] = <<>>
          THEN /\ Gone(c)
               /\ srv' = [srv EXCEPT ![t].pc = "closed"]
               /\ UNCHANGED <<port, up>>
          ELSE \E p \in {hard_check(Theirs(c))} : \E k \in ReadSizes(p, up[c]) :
               /\ SetTheirs(c, Filled(p, SubSeq(up[c], 1, k)))
               /\ up' = [up EXCEPT ![c] = SubSeq(@, k + 1, Len(@))]
               /\ srv' = [srv EXCEPT ![t].pc = "receive"]
    /\ UNCHANGED <<cl, down, pipe, next, served, faults, failed>>

MutAfterReply(t, c) == srv' = [srv EXCEPT ![t].pc = "flush"]

\* The reply is put into the output buffer.  If the input buffer has more, the
\* connection is ready again; otherwise the output is flushed.  (onego fails only
\* for a command that the clients do not send; the connection is then closed.)
AfterReply(t, c) ==
    IF Unread(Theirs(c)) > 0
    THEN srv' = [srv EXCEPT ![t].pc = "next", ![t].ready = Append(@, c)]
    ELSE srv' = [srv EXCEPT ![t].pc = "flush"]

PutReply(t) ==
    /\ At(t, "reply")
    /\ \E c \in {Conn(t)} :
       LET i == srv[t].field
           n == RepLen - i + 1
           k == Fit(Theirs(c), n)
       IN  /\ SetTheirs(c, Unparse(Theirs(c),
                                   Fields(c, srv[t].seq, i, RepLen), n))
           /\ IF k < n
              THEN srv' = [srv EXCEPT ![t].pc = "full", ![t].field = i + k]
              ELSE AfterReply(t, c)
    /\ UNCHANGED <<cl, up, down, pipe, next, served, faults, failed>>

Flushed(t, pc) ==
    srv' = [srv EXCEPT ![t].pc = CASE pc = "full" -> "reply"
                                   [] pc = "more" -> "more"
                                   [] OTHER -> "next",
                       ![t].conns = IF pc = "closed" THEN @ \ {Conn(t)} ELSE @]

\* kvflush of the server.
ServerFlush(t) ==
    /\ Alive /\ srv[t].pc \in {"flush", "full", "more", "closed"}
    /\ \E c \in {Conn(t)} :
       IF Theirs(c).out = <<>>
       THEN /\ srv[t].pc # "more"
            /\ Flushed(t, srv[t].pc)
            /\ UNCHANGED <<port, down>>
       ELSE /\ ~ Gone(c)
            /\ \E n \in {Writable(Theirs(c), down[c])} :
               /\ n > 0
               /\ down' = [down EXCEPT ![c] = @ \o SubSeq(Theirs(c).out, 1, n)]
               /\ SetTheirs(c, Written(Theirs(c), n))
               /\ IF n = Len(Theirs(c).out) THEN Flushed(t, srv[t].pc)
                                            ELSE UNCHANGED srv
    /\ UNCHANGED <<cl, up, pipe, next, served, faults, failed>>

\* kvflush to a client that is gone: the bytes vanish, or write raises
\* SIGPIPE, which mtd leaves at its default, and the server ends.
FlushToGone(t) ==
    /\ Alive /\ srv[t].pc \in {"flush", "full", "more", "closed"}
    /\ \E c \in {Conn(t)} :
       /\ Gone(c) /\ Theirs(c).out # <<>>
       /\ \/ SetTheirs(c, Written(Theirs(c), Len(Theirs(c).out)))
             /\ UNCHANGED srv
          \/ srv' = [x \in Threads |-> [srv[x] EXCEPT !.pc = "dead"]]
             /\ UNCHANGED port
    /\ UNCHANGED <<cl, up, down, pipe, next, served, faults, failed>>

ServerStep(t) ==
    \/ Wait(t) \/ NextReady(t) \/ NewConnections(t) \/ ServerReceive(t)
    \/ ServerReadMore(t) \/ PutReply(t) \/ ServerFlush(t) \/ FlushToGone(t)

\* udp_threadfunc: one datagram is one request, its reply another.
UdpServe(c) ==
    /\ Alive
    /\ c \in Udp
    /\ \E j \in DOMAIN up[c] :
       /\ down' = [down EXCEPT ![c] =
                       Append(@, Fields(c, up[c][j][1][2], 1, RepLen))]
       /\ up' = [up EXCEPT ![c] = RemoveAt(@, j)]
       /\ failed' = failed \cup
             (IF Len(up[c][j]) = ReqLen THEN {} ELSE {"partial datagram"})
    /\ served' = [served EXCEPT ![c] = @ + 1]
    /\ UNCHANGED <<cl, port, pipe, next, srv, faults>>

-------------------------------------------------------------------------------
(* What the network and the user do.                                       *)

Kill(c) ==
    /\ faults.kills < MaxKills
    /\ c \in Tcp /\ cl[c].state = "open"
    /\ cl[c].stack # <<>>
    /\ cl' = [cl EXCEPT ![c].state = "killed", ![c].stack = <<>>]
    /\ down' = [down EXCEPT ![c] = <<>>]
    /\ faults' = [faults EXCEPT !.kills = @ + 1]
    /\ UNCHANGED <<port, up, pipe, next, srv, served, failed>>

Lose(c) ==
    /\ faults.losses < MaxLosses
    /\ c \in Udp
    /\ \/ \E j \in DOMAIN up[c] : up' = [up EXCEPT ![c] = RemoveAt(@, j)]
                                  /\ UNCHANGED down
       \/ \E j \in DOMAIN down[c] : down' = [down EXCEPT ![c] = RemoveAt(@, j)]
                                    /\ UNCHANGED up
    /\ faults' = [faults EXCEPT !.losses = @ + 1]
    /\ UNCHANGED <<cl, port, pipe, next, srv, served, failed>>

Init ==
    /\ \E prog \in Programs : cl = [c \in Clients |-> NewClient(prog, c)]
    /\ port = [side \in {"client", "server"} |-> [c \in Clients |-> NewPort]]
    /\ up = [c \in Clients |-> <<>>]
    /\ down = [c \in Clients |-> <<>>]
    /\ pipe = [t \in Threads |-> <<>>]
    /\ next = 0
    /\ srv = [t \in Threads |-> [pc |-> "wait", ready |-> <<>>, cur |-> "none",
                                 conns |-> {}, xposition |-> 0, seq |-> 0,
                                 field |-> 1]]
    /\ served = [c \in Clients |-> 0]
    /\ faults = [kills |-> 0, losses |-> 0]
    /\ failed = {}

Next ==
    \/ \E c \in Clients : ClientStep(c) \/ Accept(c) \/ UdpServe(c)
                          \/ Kill(c) \/ Lose(c)
    \/ \E t \in Threads : ServerStep(t)

Spec == Init /\ [][Next]_vars

-------------------------------------------------------------------------------
(* Properties.                                                             *)

\* Every request is executed once, whole, in the order its client sent it
\* (mtd.cc, tcp_threadfunc), recent_string() hands the log either nothing or
\* exactly the bytes of that request, and every reply that a client parses is
\* that of an unanswered request of its window (the assertions of checkasync),
\* however reads cut the streams and datagrams overtake each other.
RepliesMatch ==
    /\ failed = {}
    /\ \A c \in Clients : cl[c].seq0 <= served[c]

\* Where a client waits for the server, and a server thread for clients.
ClientWaits(c) ==
    \/ cl[c].state \in {"absent", "closed", "killed"}
    \/ cl[c].state = "connecting" /\ up[c] = <<>> /\ down[c] = <<>>
    \/ In(c, "flush") /\ c \in Tcp /\ Mine(c).out # <<>>
       /\ Writable(Mine(c), up[c]) = 0
    \/ (In(c, "check") \/ In(c, "more")) /\ Unread(Mine(c)) = 0
       /\ down[c] = <<>> /\ Frame(c)[2] # 0
ServerWaits(t) ==
    \/ At(t, "wait") /\ Events(t) = {}
    \/ At(t, "more") /\ Theirs(Conn(t)).out = <<>> /\ up[Conn(t)] = <<>>
       /\ ~ Gone(Conn(t))
    \/ /\ srv[t].pc \in {"flush", "full", "more", "closed"}
       /\ Theirs(Conn(t)).out # <<>> /\ ~ Gone(Conn(t))
       /\ Writable(Theirs(Conn(t)), down[Conn(t)]) = 0

\* The two sides never wait for each other, and no request stays in a buffer
\* that nobody looks at (check(0) in tcp_threadfunc, the flush of checkasync):
\* when nobody can go on, every TCP client has had all its replies and closed.
\* All steps use up requests, so this is also why they end.
RequestsAnswered ==
    (/\ \A c \in Clients : ClientWaits(c)
     /\ \A t \in Threads : ServerWaits(t))
    => \A c \in Tcp : cl[c].state \in {"absent", "closed", "killed"}
===============================================================================
