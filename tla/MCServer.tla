------------------------------ MODULE MCServer ------------------------------
(***************************************************************************)
(* The server around the tree and the libraries it is written with, for    *)
(* TLC: a behaviour is one of the value log, the test programs, client     *)
(* connections, msgpack streams, rows, Strings or Jsons, chosen by part.   *)
(***************************************************************************)
EXTENDS Integers, Sequences, TLC

VARIABLES
  part,
  up, global_log_epoch, global_wake_epoch, tree, phantom_epoch_, ts_, query, log, disk, ck,
  ckpgen, rec, hist, slips, failures, flushed,                         \* ValueLog
  list, th, table, timeout, active, size, draws, cuts,              \* Workloads
  failed,                                                           \* Workloads, Connection
  cl, port, toServer, toClient, pipe, next, srv, served, faults,    \* Connection
  sent, wire, pos, avail, parser, got,                              \* MsgPack
  kind, g, slot, w, rd, writes,                                     \* Rows
  m,                                                                \* Strings
  heap, var, stray,                                                 \* Json
  ops,                                                              \* Strings, Json
  want                                                              \* Rows, Strings, Json

logVars == <<up, global_log_epoch, global_wake_epoch, tree, phantom_epoch_, ts_, query, log, disk,
             ck, ckpgen, rec, hist, slips, failures, flushed>>
workVars == <<list, th, table, timeout, active, size, draws, cuts>>
connVars == <<cl, port, toServer, toClient, pipe, next, srv, served, faults>>
packVars == <<sent, wire, pos, avail, parser, got>>
rowVars == <<kind, g, slot, w, rd, writes>>
jsonVars == <<heap, var, stray>>
vars == <<part, logVars, workVars, failed, connVars, packVars, rowVars, m, jsonVars, ops, want>>

None == "none"
NoLog ==
  /\ up = None /\ global_log_epoch = None /\ global_wake_epoch = None /\ tree = None
  /\ phantom_epoch_ = None /\ ts_ = None /\ query = None /\ log = None /\ disk = None
  /\ ck = None /\ ckpgen = None /\ rec = None /\ hist = None /\ slips = None /\ failures = None
  /\ flushed = None
NoWork ==
  /\ list = None /\ th = None /\ table = None /\ timeout = None /\ active = None /\ size = None
  /\ draws = None /\ cuts = None
NoConn ==
  /\ cl = None /\ port = None /\ toServer = None /\ toClient = None /\ pipe = None /\ next = None
  /\ srv = None /\ served = None /\ faults = None
NoPack ==
  sent = None /\ wire = None /\ pos = None /\ avail = None /\ parser = None /\ got = None
NoRows == kind = None /\ g = None /\ slot = None /\ w = None /\ rd = None /\ writes = None
NoStrings == m = None
NoJson == heap = None /\ var = None /\ stray = None

-----------------------------------------------------------------------------
(* Two clients put, replace and remove one key of two columns and write to *)
(* two logs; one checkpoint; a failure, the recovery and a failure in it.  *)
LogClients == {"c1", "c2"}
Of(one, other) == [c \in LogClients |-> IF c = "c1" THEN one ELSE other]
LogOfClient == Of(0, 1)
ColOfClient == Of(1, 2)
Columns == {1, 2}
TwoLogs == {0, 1}
LogKeys == {"k"}
Log == INSTANCE ValueLog WITH Clients <- LogClients, Logs <- TwoLogs, LogOf <- LogOfClient,
         Keys <- LogKeys, Cols <- Columns, ColOf <- ColOfClient, BufLen <- 4, MaxEpoch <- 3, MaxOps <- 2,
         MaxCheckpoints <- 1, MaxFailures <- 1, MaxRecoveryFailures <- 1

-----------------------------------------------------------------------------
(* Two threads run each test, and the tests that check what an earlier one *)
(* left after it.                                                          *)
Runs(by, sequences, seeded, crash) ==
  {[by |-> by, tests |-> s, draws |-> seeded, crash |-> crash] : s \in sequences}
Alone(names) == {<<n>> : n \in names}
Lists ==
  Runs("mtclient", Alone({"sync_rw1", "rw1fixed", "bdb", "rw2", "rw2fixed", "wscale"}), TRUE, FALSE)
  \cup Runs("mtclient", Alone({"rw1", "rw1long", "rw16", "ycsbk", "rwsep24", "rw3", "rw4",
                               "rw4fixed", "same", "rwsmall24", "rw1puts", "scantest", "udp1"}),
            FALSE, FALSE)
  \cup Runs("mtclient", {<<"tri1", "tri1check">>, <<"palma", "palmb">>, <<"long_init", "long_go">>,
                         <<"ruscale_init", "rscale">>, <<"ruscale_init", "uscale">>,
                         <<"wd1", "wd1check">>, <<"wd2", "wd2check">>, <<"volt1a", "volt1b">>,
                         <<"volt2a", "volt2b">>, <<"w1b", "u1">>}, FALSE, FALSE)
  \cup Runs("mtclient", {<<"w1", "r1">>, <<"wcol1", "rcol1">>, <<"cpa", "cpc">>, <<"cpa", "cpd">>},
            TRUE, FALSE)
  \cup Runs("mtclient", {<<"over1", "over2">>, <<"rec1", "rec2">>}, FALSE, TRUE)
  \cup Runs("mttest", {<<"rand", "ycsb">>} \cup Alone({"recovery", "scan1", "rscan1",
                       "splitremove1", "url", "intensive"}), FALSE, FALSE)
TwoThreads == 0..1
Work == INSTANCE Workloads WITH Threads <- TwoThreads, Lists <- Lists, Limit <- 1,
          NLongParts <- 3, DrawnKeys <- TwoThreads

-----------------------------------------------------------------------------
(* One TCP thread and the UDP thread of mtd; buffers and sockets that fill *)
(* before the window does; a client that is killed, a client that is       *)
(* refused, a lost datagram.                                               *)
TcpClients == {"c1", "c2", "r1"}
UdpClients == {"u1"}
RefusedClients == {"r1"}
CoreOf == [c \in TcpClients \cup UdpClients |-> IF c = "c2" THEN 0 ELSE -1]
ClientPrograms ==
  {"c1" :> <<"async", "sync">>,
   "c1" :> <<"async", "nest", "async", "async", "sync">>,
   "c1" :> <<"async", "async">> @@ "c2" :> <<"async", "sync">>,
   "u1" :> <<"async", "nest", "async", "async", "async">>,
   "r1" :> <<"sync">> @@ "c1" :> <<"sync">>}
Conn == INSTANCE Connection WITH up <- toServer, down <- toClient, Tcp <- TcpClients,
          Udp <- UdpClients, Programs <- ClientPrograms, Refused <- RefusedClients,
          Core <- CoreOf, TcpThreads <- 1, Window <- 4,
          ReqLen <- 2, RepLen <- 2, InBuf <- 5, OutCap <- 3, SockCap <- 4, MaxKills <- 1,
          MaxLosses <- 1

-----------------------------------------------------------------------------
(* Values on both sides of each limit of a format, with bytes base 4.      *)
Signed(x) == [t |-> "i", v |-> x]
Unsigned(x) == [t |-> "u", v |-> x]
Arr(s) == [t |-> "a", v |-> s]
Obj(s) == [t |-> "o", v |-> s]
Member(k, x) == [k |-> k, v |-> x]
Null == [t |-> "null", v |-> 0]
Bool == [t |-> "b", v |-> 1]
Double == [t |-> "d", v |-> 5]
Bytes(n) == [i \in 1..n |-> i % 4]
Text(n) == [t |-> "s", v |-> Bytes(n)]
Messages == {
  <<Arr(<<Unsigned(3), Signed(2), Text(1), Signed(1), Text(3)>>),
    Arr(<<Unsigned(20), Signed(3), Arr(<<>>)>>)>>,
  <<Arr(<<Signed(-1), Signed(-2), Signed(-3), Signed(1), Signed(2), Signed(7), Signed(8),
          Signed(-9)>>),
    Arr(<<Signed(127), Signed(128), Signed(-129), Unsigned(255), Unsigned(256)>>)>>,
  <<Obj(<<Member(Bytes(1), Arr(<<Signed(1), Obj(<<>>)>>)),
          Member(Bytes(2), Obj(<<Member(<<>>, Null)>>))>>),
    Arr(<<Obj(<<Member(Bytes(1), Bool)>>), Double>>)>>,
  <<Arr(<<Arr(<<Arr(<<Signed(0), Text(4)>>), Null>>), Text(16)>>), Signed(3)>>,
  <<Arr([i \in 1..16 |-> Bool]), Arr(<<Text(17)>>)>>,
  <<Obj([i \in 1..4 |-> Member(Bytes(i), Signed(i))]),
    Obj(<<Member(Bytes(1), Bool), Member(Bytes(3), Arr(<<Double>>))>>)>>,
  <<Arr(<<Signed(1), Text(0)>>), [t |-> "ext", v |-> 0]>>}
Pack == INSTANCE MsgPack

-----------------------------------------------------------------------------
(* A writer and a reader of each type of row.                              *)
Set(i, x) == [at |-> i, v |-> x]
Whole(x) == [at |-> 0, whole |-> TRUE, v |-> x]
Part(i, x) == [at |-> i, whole |-> FALSE, v |-> x]
ColumnChanges == {<<Set(0, <<"a">>)>>, <<Set(1, <<"b">>)>>, <<Set(0, <<>>), Set(2, <<"c", "d">>)>>}
StringChanges == {<<Whole(<<"a", "b", "c">>)>>, <<Part(1, <<"d">>)>>,
                  <<Whole(<<"e", "f">>), Part(2, <<"g">>)>>}
NewTexts == {<<"h">>}
FieldLists == {<<>>, <<1>>, <<1, 0>>}
RowKinds == {"array", "versioned", "bag", "string"}
RowReaders == {"r1"}
Row == INSTANCE Rows WITH Kinds <- RowKinds, Readers <- RowReaders, MaxWrites <- 3, MaxGets <- 2,
         MaxTicks <- 1

-----------------------------------------------------------------------------
(* Four operations on two Strings and a StringAccum; blocks of a few bytes *)
(* in the place of 16, 1024 and 65536.                                     *)
StringVars == {"x", "y"}
AccumVars == {"sa"}
StringBlocks == {"b1", "b2", "b3", "b4", "b5"}
Texts == [ta |-> <<"a">>, tA |-> <<"A", "a">>]
Strs == INSTANCE Strings WITH Strs <- StringVars, Accs <- AccumVars, Blocks <- StringBlocks,
          MaxOps <- 4, MaxLen <- 5, Unit <- 4, Space <- 1, Large <- 6, Slack <- 2, AccMin <- 2,
          AccBig <- 4, AccStep <- 2, NumRoom <- 3

-----------------------------------------------------------------------------
(* Three operations on two Jsons, a key that spells an index and one that  *)
(* does not; some of the keys collide.                                     *)
Key == {"0", "1", "2", "3", "a", "b"}
KeyHash == [k \in Key |-> CASE k \in {"0", "2"} -> 0 [] k = "1" -> 1
                             [] k \in {"3", "a"} -> 2 [] k = "b" -> 4]
KeyIndex == [k \in Key |-> CASE k = "0" -> 0 [] k = "1" -> 1 [] k = "2" -> 2
                              [] k = "3" -> 3 [] OTHER -> -1]
UsedKeys == {"0", "a"}
Prims == {[t |-> "i", v |-> "0"], [t |-> "s", v |-> "1"]}
JsonVars == {"p", "q"}
JsonBlocks == {"b1", "b2", "b3", "b4", "b5", "b6", "b7", "b8", "b9"}
Json_ == INSTANCE Json WITH Vars <- JsonVars, Blocks <- JsonBlocks, MaxOps <- 3, MinCap <- 1, HashStart <- 1, LongChain <- 0

-----------------------------------------------------------------------------
InitLog ==
  /\ part = "log" /\ Log!Init
  /\ NoWork /\ failed = None /\ NoConn /\ NoPack /\ NoRows /\ NoStrings /\ NoJson
  /\ ops = None /\ want = None
InitWork ==
  /\ part = "work" /\ Work!Init
  /\ NoLog /\ NoConn /\ NoPack /\ NoRows /\ NoStrings /\ NoJson /\ ops = None /\ want = None
InitConn ==
  /\ part = "conn" /\ Conn!Init
  /\ NoLog /\ NoWork /\ NoPack /\ NoRows /\ NoStrings /\ NoJson /\ ops = None /\ want = None
InitPack ==
  /\ part = "pack" /\ Pack!Init
  /\ NoLog /\ NoWork /\ failed = None /\ NoConn /\ NoRows /\ NoStrings /\ NoJson
  /\ ops = None /\ want = None
InitRow ==
  /\ part = "row" /\ Row!Init
  /\ NoLog /\ NoWork /\ failed = None /\ NoConn /\ NoPack /\ NoStrings /\ NoJson /\ ops = None
InitStrings ==
  /\ part = "string" /\ Strs!Init
  /\ NoLog /\ NoWork /\ failed = None /\ NoConn /\ NoPack /\ NoRows /\ NoJson
InitJson ==
  /\ part = "json" /\ Json_!Init
  /\ NoLog /\ NoWork /\ failed = None /\ NoConn /\ NoPack /\ NoRows /\ NoStrings

NextLog ==
  /\ part = "log" /\ Log!Next
  /\ UNCHANGED <<part, workVars, failed, connVars, packVars, rowVars, m, jsonVars, ops, want>>
NextWork ==
  /\ part = "work" /\ Work!Next
  /\ UNCHANGED <<part, logVars, connVars, packVars, rowVars, m, jsonVars, ops, want>>
NextConn ==
  /\ part = "conn" /\ Conn!Next
  /\ UNCHANGED <<part, logVars, workVars, packVars, rowVars, m, jsonVars, ops, want>>
NextPack ==
  /\ part = "pack" /\ Pack!Next
  /\ UNCHANGED <<part, logVars, workVars, failed, connVars, rowVars, m, jsonVars, ops, want>>
NextRow ==
  /\ part = "row" /\ Row!Next
  /\ UNCHANGED <<part, logVars, workVars, failed, connVars, packVars, m, jsonVars, ops>>
NextStrings ==
  /\ part = "string" /\ Strs!Next
  /\ UNCHANGED <<part, logVars, workVars, failed, connVars, packVars, rowVars, jsonVars>>
NextJson ==
  /\ part = "json" /\ Json_!Next
  /\ UNCHANGED <<part, logVars, workVars, failed, connVars, packVars, rowVars, m>>

Init == InitLog \/ InitWork \/ InitConn \/ InitPack \/ InitRow \/ InitStrings \/ InitJson
Next == NextLog \/ NextWork \/ NextConn \/ NextPack \/ NextRow \/ NextStrings \/ NextJson
Spec == Init /\ [][Next]_vars

\* Once something has slipped or strayed the properties of the value log, of the rows and of
\* Json say nothing.
UntilSlip ==
  /\ part = "log" => slips \subseteq {"unwoken"} \/ slips \subseteq {"spanning", "unnoticed"}
  /\ part = "row" => g.slips = {}
  /\ part = "json" => stray = {}

\* The value log alone, with one kind of slip.
UntilOtherSlip == slips \subseteq {"unannounced", "unnoticed"}
UntilOtherDelay == slips \subseteq {"unnoticed"}
LogSpec == InitLog /\ [][NextLog]_vars

\* The rows alone, with one kind of slip.
RowSpec == InitRow /\ [][NextRow]_vars
UntilNotWindow == g.slips \subseteq {"window"}
UntilNotLate == g.slips \subseteq {"late"}
UntilNotShared == g.slips \subseteq {"shared"}
UntilNotField == g.slips \subseteq {"field"}

\* Json alone, with one kind of stray read.
JsonSpec == InitJson /\ [][NextJson]_vars
UntilNotTable == stray \subseteq {"table"}
UntilNotOwn == stray \subseteq {"own"}

-----------------------------------------------------------------------------
\* logrecord::apply: rows are rebuilt in the order of their timestamps, whatever the order in
\* which the threads replay the logs.
ReplayIsOrdered == part = "log" => Log!ReplayIsOrdered

\* recover: what is recovered is a consistent past of the updates, it holds all that the logs
\* called flushed (max_flushed_epoch) and the assertions on the checkpoint and on the epochs of
\* the logs hold, while nothing slips.
RecoveredPrefix == part = "log" => Log!RecoveredPrefix

\* recover, "We can't replay anything at or beyond the minimum missed wake epoch": the same past
\* is consistent when a put is recorded while another has yet to wake its quiescent log.
PrefixDuringWake == part = "log" => Log!Prefix

\* The assertions hold when the epoch moves on before a quiescent log has noticed a wake.
ChecksWhenLate == part = "log" => Log!Checks


\* kvtest.hh: once the alarm has rung no test waits for ever, but for the deleter of wd1.
TestsEnd == part = "work" => Work!TestsEnd

\* mtclient.cc, mtd.cc: every reply goes to the callback of its request.
RepliesMatch == part = "conn" => Conn!RepliesMatch

\* mtd.cc: no request is left behind while the server sleeps.
RequestsAnswered == part = "conn" => Conn!RequestsAnswered

\* msgpack.cc: wherever the stream is cut, the parser returns the values that were sent.
ParsedIsSent == part = "pack" => Pack!ParsedIsSent

\* value_*.hh: a reader beside a writer sees a row as it was between two updates, while
\* nothing slips.
RowsAreWhole == part = "row" => Row!RowsAreWhole

\* memdebug::hard_assert_use, "use tag %x after free": the same when the epoch moves while a row
\* is retired and the leaf still points to it.
WholeInWindow == part = "row" /\ g.slips \subseteq {"window"} => Row!Whole

\* String::make_stable, "data is known to stay around forever": the same when the epoch moves
\* between the end of a query and the sending of its answer.
WholeInAnswer == part = "row" /\ g.slips \subseteq {"late"} => Row!Whole

\* memdebug::hard_free_checks, "double free": the same when a query's snapshot grows.
WholeWhenShared == part = "row" /\ g.slips \subseteq {"shared"} => Row!Whole

\* value_versioned_array::col, "unsigned(i) < unsigned(ncol_)": the same when a get asks for one
\* field that the row does not have.
WholeOutside == part = "row" /\ g.slips \subseteq {"field"} => Row!Whole

\* string.cc, straccum.cc: shared memory never shows through.
StringsKeepValue == part = "string" => Strs!StringsKeepValue

\* json.hh, json.cc: a Json is a value, whatever it shares, while only live memory is read.
JsonIsAValue == part = "json" => Json_!JsonIsAValue

\* Json::unset, "Remove the value of @a key from an object Json": the same when the object has
\* never had an item.
UnsetIsAValue == part = "json" /\ stray \subseteq {"table"} => Json_!Value

\* "two Json values cannot share subobjects": the same when a Json is assigned an element of its
\* own.
OwnIsAValue == part = "json" /\ stray \subseteq {"own"} => Json_!Value
=============================================================================
