------------------------------ MODULE Workloads ------------------------------
(***************************************************************************)
(* The test programs of kvtest.hh and mtclient.cc and the two programs     *)
(* that run them.  A test is, per thread, a list of phases: loops of puts, *)
(* removes and checked gets that a timeout may cut short, waits for a key, *)
(* barriers, and the few steps that compute.  The table is atomic here:    *)
(* the question is whether the answers a test expects are right for every  *)
(* order in which its threads run, and whether it ends.                    *)
(*                                                                         *)
(* mttest runs threads through the subtests of a comma list and meets      *)
(* between them (test_thread::go); mtclient forks one process per client   *)
(* and per invocation, each with its own alarm.                            *)
(***************************************************************************)
EXTENDS Integers, Sequences, FiniteSets, TLC
LOCAL INSTANCE SequencesExt

CONSTANTS Threads,        \* client ids, 0 .. n - 1
          Lists,          \* [by |-> program, tests |-> sequence of tests, crash |-> BOOLEAN]
          Limit,          \* client.limit(), and the bound of loops only an alarm ends
          NLongParts,     \* the parts of the long test, 16 in the code
          DrawnKeys       \* what client.rand may return, before % or + 1

VARIABLES list,     \* what runs
          th,       \* per thread: pc, sub(test), ph(ase), i and n (loops), sz (local_size),
                    \* x (what a test computes), y (rounds or barriers passed)
          table,    \* keys present -> values
          timeout,  \* per thread, how many of timeout[0], timeout[1] are set
          active,   \* active_threads_
          size,     \* global_size
          draws,    \* per seed, the keys client.rand returns
          cuts,     \* tables a server restart may bring back
          failed    \* the checks that failed, by test

vars == <<list, th, table, timeout, active, size, draws, cuts, failed>>

nthreads == Cardinality(Threads)
Empty == -2                       \* the value Str()
Missing == -1                     \* what asyncgetcb_int stores for no value

-----------------------------------------------------------------------------
(* Keys carry their format: quick_istr(5, 8) and quick_istr(5) differ.      *)
K(fmt, n) == <<fmt, n, 0>>
Present(k) == k \in DOMAIN table
IntOf(k) == IF Present(k) /\ table[k] # Empty THEN table[k] ELSE Missing

Loop(op, ops, stop, pick, upto) ==
  [kind |-> "loop", op |-> op, ops |-> ops, stop |-> stop, pick |-> pick, upto |-> upto]
Never == 2
Each(op, ops) == Loop(op, ops, Never, "next", "all")
One(op, k, v) == Each(op, <<<<k, v>>>>)
Until(k, present, stop) == [kind |-> "until", key |-> k, present |-> present, stop |-> stop]
Random(does, keys, stop) ==
  [kind |-> "random", does |-> does, keys |-> keys, stop |-> stop, count |-> Limit]
Once(does, k) == [kind |-> "random", does |-> does, keys |-> {k}, stop |-> Never, count |-> 1]
Phase(kind) == [kind |-> kind]
Again(ph) == [kind |-> "again", ph |-> ph]

\* The pairs (x, x + 1) of a stream of keys.
PlusOne(fmt, xs) == [i \in DOMAIN xs |-> <<K(fmt, xs[i]), xs[i] + 1>>]
PutsThenChecks(ops, stop) ==
  <<Loop("put", ops, 0, "next", "all"), Loop("check", ops, stop, "any", "done")>>
Stream(t) == draws[t % 48]
Modulo(xs, m) == [i \in DOMAIN xs |-> xs[i] % m]
UpTo(n) == [i \in 1..n |-> i - 1]

-----------------------------------------------------------------------------
(* Puts, then gets that expect what was put.                               *)
kvtest_sync_rw1_seed(t) == PutsThenChecks(PlusOne("10", Stream(t)), 1)
kvtest_rw1puts_seed(t) == <<Loop("put", PlusOne("i", Stream(t)), 0, "next", "all")>>
kvtest_rw1_seed(t) == PutsThenChecks(PlusOne("i", Stream(t)), 1)
kvtest_rw1long_seed(t) ==
  PutsThenChecks([i \in DOMAIN Stream(t) |->
    <<<<"user", Stream(t)[i], Stream(t)[i] % 4>>, Stream(t)[i] + 1>>], 1)
kvtest_rw1fixed_seed(t) == PutsThenChecks(PlusOne("i", Modulo(Stream(t), 2)), 1)
kvtest_rw16_seed(t) == PutsThenChecks(PlusOne("16", Stream(t)), 1)
kvtest_rw3(t) ==
  LET ops == PlusOne("8", UpTo(Limit + 1))
  IN  <<Loop("put", ops, 0, "next", "all"), Loop("check", ops, Never, "next", "done")>>
Decreasing(top) == [i \in 1..(Limit + 1) |-> <<K("8", top - (i - 1)), i>>]
kvtest_rw4(t) ==
  <<Loop("put", Decreasing(2147483647), 0, "next", "all"),
    Loop("check", Decreasing(2147483647), Never, "next", "done")>>
kvtest_rw4fixed(t) ==
  <<Loop("put", Decreasing(99999999), 0, "next", "all"),
    Loop("check", Decreasing(99999999), Never, "next", "done")>>
\* Key and value both come from the stream, so no key may come twice.
kvtest_ycsbk_seed(t) ==
  PutsThenChecks([i \in DOMAIN Stream(t) |-> <<<<"user", t, i>>, Stream(t)[i]>>], 1)
\* Only the second alarm ends the gets, however many puts there were.
kvtest_udp1_seed(t) ==
  LET ops == [i \in 1..(Limit + 1) |-> <<K("i", 0), 1>>]
  IN  <<Loop("put", ops, 0, "next", "all"), Loop("check", ops, 1, "next", "all")>>
\* The stream restarts every nrec gets, counted from the second get.
kvtest_bdb(t) ==
  LET val == 94
      ops == [i \in DOMAIN draws[0] |-> <<K("a", draws[0][i]), val>>]
  IN  <<Each("put", ops), Each("check", <<ops[1]>> \o ops)>>

(* Puts and gets at once: a get is for a key put before.                   *)
kvtest_rw2_seed(t) ==
  <<[kind |-> "mix", ops |-> [i \in 1..(Limit + 1) |->
      LET x == 7 * (draws[t % 48][1] + i - 1) IN <<K("i", x), x + 1>>]]>>
kvtest_rw2fixed_seed(t) ==
  <<[kind |-> "mix", ops |-> [i \in 1..(Limit + 1) |->
      LET x == (7 * (draws[t % 48][1] + i - 1)) % 5 IN <<K("i", x), x + 1>>]]>>

(* One test puts, another checks.  Tests that shuffle their puts do them   *)
(* in order here: what is put depends on the key only.                     *)
kvtest_w1_seed(t) == <<Each("put", PlusOne("10", draws[t]))>>
kvtest_r1_seed(t) == <<Loop("check", PlusOne("10", draws[t]), Never, "any", "all")>>
Column(t, xs) == [i \in DOMAIN xs |-> <<<<"10", xs[i], t % 24>>, xs[i] + 1>>]
kvtest_wcol1at(t) == <<Each("put", Column(t, Modulo(Stream(t), 2)))>>
kvtest_rcol1at(t) == <<Each("check", Column(t, Modulo(Stream(t), 2)))>>
Triangle(n) ==
  FlattenSeq([x \in 1..n |-> [y \in 1..x |-> <<K("i", 100 + (y - 1) * nthreads), x - y>>]])
kvtest_tri1(t) == <<Each("put", Triangle(Limit))>>
kvtest_tri1_check(t) ==
  <<Each("check", [x \in 1..Limit |-> <<K("i", 100 + (x - 1) * nthreads), Limit - x>>])>>
kvtest_palma(t) == <<Each("put", PlusOne("i", UpTo(4)))>>
kvtest_palmb_seed(t) == <<Loop("check", PlusOne("i", UpTo(2)), 0, "any", "all")>>
\* A client writes its own part; it goes round all of them, whoever wrote them.
Part(t) == [i \in 1..2 |-> <<K("^", 2 * t + i), 2 * t + i>>]
kvtest_long_init(t) == <<Each("put", Part(t))>>
kvtest_long_go(t) ==
  FlattenSeq([c \in 1..NLongParts |-> LET part == Part((t + c - 1) % NLongParts) IN
    [i \in 1..Len(part) |-> [kind |-> "either", op |-> <<part[i]>>, stop |-> 0]]])
kvtest_ruscale_init(t) == <<Each("put", PlusOne("i", [i \in 1..2 |-> 2 * t + i - 1]))>>
kvtest_rscale(t) == <<Loop("check", PlusOne("i", UpTo(2 * nthreads)), 0, "any", "all")>>
kvtest_uscale(t) == <<Loop("put", PlusOne("i", UpTo(2 * nthreads)), 0, "any", "all")>>
kvtest_wscale(t) == <<Loop("put", PlusOne("i", Stream(t)), 0, "next", "all")>>
cpa(t) == <<Each("put", PlusOne("i", draws[t]))>>
cpc(t) == <<Loop("check", PlusOne("i", draws[t]), 0, "next", "all")>>
cpd(t) == <<Loop("put", PlusOne("i", draws[t]), 0, "next", "all")>>
w1b(t) == <<Each("put", PlusOne("10", draws[t]))>>
u1(t) == <<Each("put", PlusOne("i", draws[t]))>>

(* No answer is expected.                                                  *)
kvtest_same_seed(t) == <<Loop("put", PlusOne("i", Modulo(Stream(t), 2)), 0, "next", "all")>>
Ints(fmt, S) == {K(fmt, n) : n \in S}
kvtest_rwsmall_seed(t) == <<Random({"get", "put"}, Ints("i", 0..1), 0)>>
kvtest_rwsep_seed(t) ==
  <<Each("put", PlusOne("i", <<100 + 2 * t, 101 + 2 * t>>)),
    Random({"get", "put"}, Ints("i", {100 + 2 * t, 101 + 2 * t}), 0)>>
volt1a(t) == <<Each("put", PlusOne("50", UpTo(2)))>>
volt1b(t) == [i \in 1..2 |-> [kind |-> "either", op |-> PlusOne("50", UpTo(2)), stop |-> 0]]
volt2a(t) == <<Each("put", PlusOne("50", UpTo(2)))>>
volt2b(t) == <<Random({"get", "put"}, Ints("50", 0..1), 0)>>

-----------------------------------------------------------------------------

Counted(t, init, does, stop) ==
  (IF t = 0 THEN <<Each("put", init)>> ELSE <<>>)
  \o <<Phase("barrier"), Random(does, Ints("i", 0..1), stop), Phase("addsize"), Phase("barrier")>>
  \o (IF t = 0 THEN <<Phase("checksize")>> ELSE <<>>)

kvtest_rand(t) == Counted(t, PlusOne("i", <<draws[0][1]>>), {"get", "remove", "put"}, 0)

kvtest_ycsb(t) == Counted(t, PlusOne("i", <<0>>), {"get", "remove", "put"}, Never)
kvtest_recovery(t) == Counted(t, PlusOne("i", <<draws[0][1]>>), {"get", "remove", "put"}, Never)
                      \o <<Phase("barrier"), Random({"get", "remove", "put"}, Ints("i", 0..1), Never)>>
kvtest_intensive(t) ==
  (IF t = 0 THEN <<Each("put", PlusOne("i", <<draws[0][1]>>))>> ELSE <<>>)
  \o <<Phase("barrier"),
       Random(IF t % 2 = 1 THEN {"get", "remove"} ELSE {"put"}, Ints("i", 0..1), 0)>>

-----------------------------------------------------------------------------
(* Tests whose threads wait for each other.                                *)
\* The deleter starts when the writer is Lead keys ahead.
Lead == 2
Lane(t) == t \div 2
Lanes == IF nthreads \div 2 > 1 THEN nthreads \div 2 ELSE 1
Pos(t, n) == K("i", 1000 + (Lane(t) % Lanes) + n * Lanes)
kvtest_wd1(t) ==
  IF t % 2 = 1
  THEN <<Until(Pos(t, Lead), TRUE, Never), Phase("chase")>>
  ELSE <<Loop("put", [i \in 1..(Limit + 3) |-> <<Pos(t, i - 1), 0>>], 0, "next", "all")>>
kvtest_wd1_check(t) == IF t % 2 = 0 THEN <<Phase("lookback")>> ELSE <<>>

S(t) == K("s", t)
KK(t) == K("k", t)
Side(t) == <<"k", t, 1>>
NextOf(t) == (t + 1) % nthreads
kvtest_wd2(t) ==
  <<Each("put", <<<<K("n", 0), nthreads>>, <<S(t), 0>>, <<Side(t), Empty>>, <<KK(t), Empty>>>>),
    Phase("putx"),
    Once({"get", "remove"}, KK(NextOf(t))),
    Once({"get", "put", "remove"}, Side(NextOf(t))),
    Phase("status"),
    Again(2)>>
kvtest_wd2_check(t) == IF t = 0 THEN <<Phase("compare")>> ELSE <<>>

Trigger == K("16", 226)
Me(t) == K("i", t)
Signal == K("i", nthreads)
Others == Threads \ {0}
OthersInOrder == [i \in 1..Cardinality(Others) |-> i]
\* Mutant: the wait for the other threads has no timeout.
MutSplitremove1(t) ==
  IF t = 0
  THEN <<One("put", Trigger, 0), One("put", Signal, 0)>>
       \o [i \in DOMAIN OthersInOrder |-> One("put", Me(i), 0)]
       \o [i \in DOMAIN OthersInOrder |-> Until(Me(i), FALSE, Never)]
       \o <<One("remove", Trigger, 0), One("remove", Signal, 0), Again(1)>>
  ELSE <<Until(Trigger, TRUE, 0), Phase("endif"), Phase("probe"), Until(Me(t), TRUE, 0),
         One("remove", Me(t), 0), Until(Signal, FALSE, 0), Again(1)>>

kvtest_splitremove1(t) ==
  IF t = 0
  THEN <<One("put", Trigger, 0), One("put", Signal, 0)>>
       \o [i \in DOMAIN OthersInOrder |-> One("put", Me(i), 0)]
       \o [i \in DOMAIN OthersInOrder |-> Until(Me(i), FALSE, 0)]
       \o <<One("remove", Trigger, 0), One("remove", Signal, 0), Again(1)>>
  ELSE <<Until(Trigger, TRUE, 0), Phase("endif"), Phase("probe"), Until(Me(t), TRUE, 0),
         One("remove", Me(t), 0), Until(Signal, FALSE, 0), Again(1)>>

\* The scanner puts every Stride-th key; writers put and remove others.
Stride == 3
ScanKeys == 2
Batch == 2
kvtest_scan1(t) ==
  IF t % 24 = 0
  THEN <<Each("put", [i \in 1..ScanKeys |-> <<K("8", (i - 1) * Stride), 0>>]),
         [kind |-> "scan", up |-> TRUE]>>
  ELSE <<Random({"put", "remove"}, {K("8", i * Stride + 1) : i \in 0..(ScanKeys - 1)}, 0)>>
kvtest_rscan1(t) ==
  IF t % 24 = 0
  THEN <<Each("put", [i \in 1..ScanKeys |-> <<K("8", i * Stride), 0>>]),
         [kind |-> "scan", up |-> FALSE]>>
  ELSE <<Random({"put", "remove"}, {K("8", i * Stride + 1) : i \in 1..ScanKeys}, 0)>>

\* Two urls in, the first of them out; the rest is looked up.
kvtest_url_seed(t) ==
  LET url(i) == <<K("u", i), 2014>>
  IN  <<Each("put", <<url(1), url(2)>>), Each("remove", <<url(1)>>),
        Each("put", <<url(3), url(4)>>), Each("remove", <<url(2)>>),
        Each("check", <<url(3), url(4)>>)>>

\* Every client writes the round's key, then notes who won.
Round(t, r) ==
  <<Phase("endif"), Phase("time"), One("put", K("o", r), 10 * t + 1), Phase("time"),
    [kind |-> "winner", from |-> K("o", r), to |-> <<"o", r, t + 1>>]>>
over1(t) == Round(t, 1) \o Round(t, 2)
over2(t) == <<[kind |-> "winners", keys |-> [r \in 1..2 |-> <<K("o", r), <<"o", r, t + 1>>>>]]>>
rec1(t) ==
  <<Loop("put", [i \in 1..(Limit + 1) |-> <<<<"r", i, t>>, i>>], 0, "next", "all")>>
rec2(t) == <<[kind |-> "prefix", keys |-> [i \in 1..(Limit + 1) |-> <<"r", i, t>>]]>>
ScanLo == 2
ScanHi == 5
scantest(t) ==
  <<Each("put", [i \in 1..(ScanHi - ScanLo) |-> <<K("kk", ScanLo + i - 1), ScanLo + i - 1>>]),
    [kind |-> "scantest"]>>

Test(name, t) ==
  CASE name = "sync_rw1" -> kvtest_sync_rw1_seed(t) [] name = "rw1puts" -> kvtest_rw1puts_seed(t)
    [] name = "rw1" -> kvtest_rw1_seed(t)           [] name = "rw1long" -> kvtest_rw1long_seed(t)
    [] name = "rw1fixed" -> kvtest_rw1fixed_seed(t) [] name = "rw16" -> kvtest_rw16_seed(t)
    [] name = "rw2" -> kvtest_rw2_seed(t)           [] name = "rw2fixed" -> kvtest_rw2fixed_seed(t)
    [] name = "rw3" -> kvtest_rw3(t)                [] name = "rw4" -> kvtest_rw4(t)
    [] name = "rw4fixed" -> kvtest_rw4fixed(t)      [] name = "ycsbk" -> kvtest_ycsbk_seed(t)
    [] name = "udp1" -> kvtest_udp1_seed(t)         [] name = "bdb" -> kvtest_bdb(t)
    [] name = "w1" -> kvtest_w1_seed(t)             [] name = "r1" -> kvtest_r1_seed(t)
    [] name = "wcol1" -> kvtest_wcol1at(t)          [] name = "rcol1" -> kvtest_rcol1at(t)
    [] name = "tri1" -> kvtest_tri1(t)              [] name = "tri1check" -> kvtest_tri1_check(t)
    [] name = "palma" -> kvtest_palma(t)            [] name = "palmb" -> kvtest_palmb_seed(t)
    [] name = "long_init" -> kvtest_long_init(t)    [] name = "long_go" -> kvtest_long_go(t)
    [] name = "ruscale_init" -> kvtest_ruscale_init(t) [] name = "rscale" -> kvtest_rscale(t)
    [] name = "uscale" -> kvtest_uscale(t)          [] name = "wscale" -> kvtest_wscale(t)
    [] name = "cpa" -> cpa(t) [] name = "cpc" -> cpc(t) [] name = "cpd" -> cpd(t)
    [] name = "w1b" -> w1b(t) [] name = "u1" -> u1(t)
    [] name = "same" -> kvtest_same_seed(t)         [] name = "rwsmall24" -> kvtest_rwsmall_seed(t)
    [] name = "rwsep24" -> kvtest_rwsep_seed(t)
    [] name = "volt1a" -> volt1a(t) [] name = "volt1b" -> volt1b(t)
    [] name = "volt2a" -> volt2a(t) [] name = "volt2b" -> volt2b(t)
    [] name = "rand" -> kvtest_rand(t)              [] name = "ycsb" -> kvtest_ycsb(t)
    [] name = "recovery" -> kvtest_recovery(t)      [] name = "intensive" -> kvtest_intensive(t)
    [] name = "wd1" -> kvtest_wd1(t)                [] name = "wd1check" -> kvtest_wd1_check(t)
    [] name = "wd2" -> kvtest_wd2(t)                [] name = "wd2check" -> kvtest_wd2_check(t)
    [] name = "splitremove1" -> kvtest_splitremove1(t)
    [] name = "scan1" -> kvtest_scan1(t)            [] name = "rscan1" -> kvtest_rscan1(t)
    [] name = "url" -> kvtest_url_seed(t)
    [] name = "over1" -> over1(t) [] name = "over2" -> over2(t)
    [] name = "rec1" -> rec1(t)   [] name = "rec2" -> rec2(t)
    [] name = "scantest" -> scantest(t)

-----------------------------------------------------------------------------
Fresh(pc, sub) == [pc |-> pc, sub |-> sub, ph |-> 1, i |-> 0, n |-> 0, sz |-> 0, x |-> 0, y |-> 0]

Init ==
  /\ list \in Lists
  /\ th = [t \in Threads |-> Fresh(IF list.by = "mttest" THEN "start" ELSE "run", 1)]
  /\ table = <<>>
  /\ timeout = [t \in Threads |-> 0]
  /\ active = 0
  /\ size = 0
  /\ draws \in [Threads -> IF list.draws THEN [1..(Limit + 1) -> DrawnKeys]
                           ELSE {[i \in 1..(Limit + 1) |-> 0]}]
  /\ cuts = {table}
  /\ failed = {}

Program(t) == Test(list.tests[th[t].sub], t)
Ended(t) == th[t].ph > Len(Program(t))
At(t, kind) == th[t].pc = "run" /\ ~Ended(t) /\ Program(t)[th[t].ph].kind = kind
Cur(t) == Program(t)[th[t].ph]
TimedOut(t, which) == timeout[t] > which
NextPhase(t) == [th[t] EXCEPT !.ph = @ + 1, !.i = 0]

\* One operation on the table.  put and remove say whether they changed its size.
After(op, k, v) ==
  CASE op = "put" -> (k :> v) @@ table
    [] op = "remove" -> [j \in DOMAIN table \ {k} |-> table[j]]
    [] OTHER -> table
\* rand, ycsb and recovery keep a local_size.
Counts(t) == list.tests[th[t].sub] \in {"rand", "ycsb", "recovery"}
Delta(t, op, k) ==
  CASE Counts(t) /\ op = "put" /\ ~Present(k) -> 1
    [] Counts(t) /\ op = "remove" /\ Present(k) -> -1
    [] OTHER -> 0
get_check(k, v) == Present(k) /\ table[k] = v

\* A check that fails is noted, with the key if it was a get that found none.
Fail(t, bad, missing) ==
  failed' = IF bad THEN failed \cup {[test |-> list.tests[th[t].sub], missing |-> missing]} ELSE failed
Keep == UNCHANGED <<list, timeout, active, draws>>
Remember == cuts' = IF list.crash THEN cuts \cup {table'} ELSE cuts
Apply(t, op, k, v, new) ==
  /\ table' = After(op, k, v)
  /\ th' = [th EXCEPT ![t] = [new EXCEPT !.sz = @ + Delta(t, op, k)]]
  /\ Fail(t, op = "check" /\ ~get_check(k, v), IF Present(k) THEN <<>> ELSE <<k>>)
  /\ Remember
  /\ UNCHANGED size /\ Keep
Goto(t, new, bad) ==
  /\ th' = [th EXCEPT ![t] = new]
  /\ Fail(t, bad, <<>>)
  /\ UNCHANGED <<table, size, cuts>> /\ Keep

\* for (n = 0; !client.timeout(stop) && n <= limit; ++n)
LoopStep(t, p) ==
  /\ p.kind = "loop"
  /\ LET bound == IF p.upto = "done" THEN th[t].n ELSE Len(p.ops)
         goes == th[t].i < bound /\ ~TimedOut(t, p.stop)
     IN  \/ /\ goes
            /\ \E j \in IF p.pick = "next" THEN {th[t].i + 1} ELSE 1..bound :
                 Apply(t, p.op, p.ops[j][1], p.ops[j][2], [th[t] EXCEPT !.i = @ + 1])
         \/ ~goes /\ Goto(t, [NextPhase(t) EXCEPT !.n = th[t].i], FALSE)

\* A put of the next key, or a get of one put before.
MixStep(t, p) ==
  /\ p.kind = "mix"
  /\ LET ops == p.ops
         goes == th[t].i < Limit + 1 /\ ~TimedOut(t, 0)
         new == [th[t] EXCEPT !.i = @ + 1]
     IN  \/ /\ goes
            /\ LET kv == ops[th[t].n + 1] IN Apply(t, "put", kv[1], kv[2], [new EXCEPT !.n = @ + 1])
         \/ goes /\ \E j \in 1..th[t].n : Apply(t, "check", ops[j][1], ops[j][2], new)
         \/ ~goes /\ Goto(t, NextPhase(t), FALSE)

\* Any of some operations on any of some keys.
RandomStep(t, p) ==
  /\ p.kind = "random"
  /\ LET goes == th[t].i < p.count /\ ~TimedOut(t, p.stop)
     IN  \/ /\ goes
            /\ \E op \in p.does, k \in p.keys : Apply(t, op, k, 0, [th[t] EXCEPT !.i = @ + 1])
         \/ ~goes /\ Goto(t, NextPhase(t), FALSE)

EitherStep(t, p) ==
  /\ p.kind = "either"
  /\ \/ /\ ~TimedOut(t, p.stop)
        /\ \E op \in {"put", "check"}, j \in DOMAIN p.op :
             Apply(t, op, p.op[j][1], p.op[j][2], NextPhase(t))
     \/ TimedOut(t, p.stop) /\ Goto(t, NextPhase(t), FALSE)

\* while (!client.timeout(0) && !client.get_sync(key)) spin
Holds(t, p) == Present(p.key) = p.present \/ TimedOut(t, p.stop)
UntilStep(t, p) == p.kind = "until" /\ Holds(t, p) /\ Goto(t, NextPhase(t), FALSE)

LeaveTest(t) == [th[t] EXCEPT !.ph = Len(Program(t)) + 1]
EndIfStep(t, p) ==
  /\ p.kind = "endif"
  /\ Goto(t, IF TimedOut(t, 0) THEN LeaveTest(t) ELSE NextPhase(t), FALSE)
AgainStep(t, p) ==
  /\ p.kind = "again"
  /\ \/ TimedOut(t, 0) /\ Goto(t, LeaveTest(t), FALSE)
     \/ /\ ~TimedOut(t, 0) /\ th[t].y < Limit
        /\ Goto(t, [th[t] EXCEPT !.ph = p.ph, !.y = @ + 1], FALSE)

\* GH::thread_barrier, and the second and the half second that over1 waits.
Arrived(u, t, kind) ==
  \/ th[u].sub > th[t].sub
  \/ th[u].sub = th[t].sub /\ (th[u].y > th[t].y \/ (th[u].y = th[t].y /\ At(u, kind)))
wait_barrier(t, p) ==
  /\ p.kind = "barrier"
  /\ \A u \in Threads : Arrived(u, t, "barrier")
  /\ Goto(t, [NextPhase(t) EXCEPT !.y = @ + 1], FALSE)
TimeStep(t, p) ==
  /\ p.kind = "time"
  /\ \A u \in Threads : Ended(u) \/ Arrived(u, t, "time")
  /\ Goto(t, [NextPhase(t) EXCEPT !.y = @ + 1], FALSE)

AddSize(t, p) ==
  /\ p.kind = "addsize"
  /\ size' = size + th[t].sz
  /\ th' = [th EXCEPT ![t] = NextPhase(t)]
  /\ UNCHANGED <<table, cuts, failed>> /\ Keep
CheckSize(t, p) ==
  p.kind = "checksize" /\ Goto(t, NextPhase(t), size # Cardinality(DOMAIN table))

\* The deleter of wd1, and the look at what it and the writer left.
Chase(t, p) ==
  /\ p.kind = "chase"
  /\ LET goes == th[t].i < Limit + 2 /\ ~TimedOut(t, 0)
         k == Pos(t, th[t].n)
     IN  \/ /\ goes
            /\ Apply(t, "remove", k, 0, [th[t] EXCEPT !.i = @ + 1, !.n = @ + (IF Present(k) THEN 1 ELSE 0)])
         \/ ~goes /\ Goto(t, NextPhase(t), FALSE)
Lookback(t, p) ==
  /\ p.kind = "lookback"
  /\ LET there(n) == Present(Pos(t, n))
     IN  Goto(t, NextPhase(t), \E a, b, c \in 0..(Limit + 3) :
                                 a < b /\ b < c /\ there(a) /\ ~there(b) /\ there(c))

\* wd2: x counts how often the thread found its key removed; s follows it.
PutX(t, p) ==
  /\ p.kind = "putx"
  /\ Apply(t, "put", KK(t), th[t].x,
           [NextPhase(t) EXCEPT !.n = IF Present(KK(t)) THEN 0 ELSE 1])
Status(t, p) ==
  /\ p.kind = "status"
  /\ \/ th[t].n = 1 /\ Apply(t, "put", S(t), th[t].x + 1, [NextPhase(t) EXCEPT !.x = @ + 1])
     \/ th[t].n = 0 /\ Goto(t, NextPhase(t), FALSE)
Compare(t, p) ==
  /\ p.kind = "compare"
  /\ Goto(t, NextPhase(t), \E u \in Threads :
       LET s == IntOf(S(u)) k == IntOf(KK(u))
       IN  ~(s >= 0 /\ (s = k \/ s = k + 1 \/ k = -1)))

\* splitremove1: while its own key is not there, the trigger must be.
Probe(t, p) ==
  /\ p.kind = "probe"
  /\ \/ th[t].i = 0 /\ Present(Me(t)) /\ Goto(t, NextPhase(t), FALSE)
     \/ th[t].i = 0 /\ ~Present(Me(t)) /\ Goto(t, [th[t] EXCEPT !.i = 1], FALSE)
     \/ /\ th[t].i = 1
        /\ LET missing == ~Present(Trigger) /\ ~TimedOut(t, 0)
           IN  Goto(t, IF missing THEN NextPhase(t) ELSE [th[t] EXCEPT !.i = 0], missing)

\* Scans from pos (x), expecting mypos (n) next, in steps of Batch.
Numbers(fmt) == {k[2] : k \in {j \in DOMAIN table : j[1] = fmt}}
FirstOf(N, want, up) ==
  {a \in N : Cardinality({b \in N : IF up THEN b < a ELSE b > a}) < want}
ScanStep(t, p) ==
  /\ p.kind = "scan"
  /\ LET up == p.up
         top == ScanKeys * Stride
         start == IF up THEN [x |-> 0, n |-> 0] ELSE [x |-> top + Stride, n |-> top]
         pos == IF th[t].i = 0 THEN start.x ELSE th[t].x
         mypos == IF th[t].i = 0 THEN start.n ELSE th[t].n
         got == FirstOf({a \in Numbers("8") : IF up THEN a >= pos ELSE a <= pos}, Batch, up)
         last == CHOOSE a \in got : \A b \in got : IF up THEN b <= a ELSE b >= a
         passed == {m \in {i * Stride : i \in 0..ScanKeys} :
                      IF up THEN mypos <= m /\ m <= last ELSE last <= m /\ m <= mypos}
         more == [th[t] EXCEPT !.i = @ + 1]
         goes == th[t].i < Limit + 2 /\ ~TimedOut(t, 0)
     IN  \/ /\ goes /\ got = {}
            /\ Goto(t, [more EXCEPT !.x = start.x, !.n = start.n],
                    IF up THEN mypos < top ELSE mypos > 0)
         \/ /\ goes /\ got # {}
            /\ Goto(t, [more EXCEPT !.x = IF up THEN last + 1 ELSE last - 1,
                                    !.n = IF up THEN (last \div Stride + 1) * Stride
                                          ELSE ((last - 1) \div Stride) * Stride],
                    ~(passed \subseteq got))
         \/ ~goes /\ Goto(t, NextPhase(t), FALSE)

Winner(t, p) ==
  LET found == Present(p.from) IN
  /\ p.kind = "winner"
  /\ table' = IF found THEN After("put", p.to, table[p.from]) ELSE table
  /\ th' = [th EXCEPT ![t] = NextPhase(t)]
  /\ Fail(t, ~found, <<>>)
  /\ Remember
  /\ UNCHANGED size /\ Keep
\* over2 stops at the first key that is missing.
Winners(t, p) ==
  /\ p.kind = "winners"
  /\ LET ks == p.keys
         both(r) == Present(ks[r][1]) /\ Present(ks[r][2])
     IN  Goto(t, NextPhase(t), \E r \in DOMAIN ks :
           (\A q \in 1..r : both(q)) /\ table[ks[r][1]] # table[ks[r][2]])
Prefix(t, p) ==
  /\ p.kind = "prefix"
  /\ LET ks == p.keys
     IN  Goto(t, NextPhase(t), \E i, j \in DOMAIN ks : i < j /\ ~Present(ks[i]) /\ Present(ks[j]))
ScanTest(t, p) ==
  /\ p.kind = "scantest"
  /\ Goto(t, NextPhase(t), \E i \in (ScanLo - 1)..(ScanHi + 1), wanted \in 0..2 :
       LET got == FirstOf({a \in Numbers("kk") : a >= i}, wanted, TRUE)
           n == IF i <= ScanHi - wanted THEN wanted ELSE IF i <= ScanHi THEN ScanHi - i ELSE 0
           k0 == IF i < ScanLo THEN ScanLo ELSE i
       IN  Cardinality(got) # n \/ got # {j \in k0..(k0 + wanted - 1) : j < ScanHi})

-----------------------------------------------------------------------------
(* mttest: test_thread::go.                                                *)
ready_timeouts == timeout' = [t \in Threads |-> 0]
Step(t, pc) == th' = [th EXCEPT ![t].pc = pc]
LastSubtest(t) == th[t].sub = Len(list.tests)

Go(t) ==
  /\ th[t].pc = "start"
  /\ active' = active + 1
  /\ IF active = 0 THEN ready_timeouts ELSE UNCHANGED timeout
  /\ Step(t, "run")
  /\ UNCHANGED <<list, table, size, draws, cuts, failed>>

\* The last thread wakes those that wait and restarts the timer.
SubtestEnd(t) ==
  /\ list.by = "mttest" /\ th[t].pc = "run" /\ Ended(t) /\ ~LastSubtest(t)
  /\ active' = active - 1
  /\ \/ /\ active = 1
        /\ th' = [u \in Threads |-> IF u = t \/ th[u].pc = "waiting"
                                    THEN [th[u] EXCEPT !.pc = "woken"] ELSE th[u]]
        /\ ready_timeouts
     \/ active # 1 /\ Step(t, "waiting") /\ UNCHANGED timeout
  /\ UNCHANGED <<list, table, size, draws, cuts, failed>>

Reenter(t) ==
  /\ th[t].pc = "woken"
  /\ active' = active + 1
  /\ th' = [th EXCEPT ![t] = Fresh("run", th[t].sub + 1)]
  /\ UNCHANGED <<list, table, timeout, size, draws, cuts, failed>>

Finish(t) ==
  /\ list.by = "mttest" /\ th[t].pc = "run" /\ Ended(t) /\ LastSubtest(t)
  /\ active' = active - 1
  /\ Step(t, "done")
  /\ UNCHANGED <<list, table, timeout, size, draws, cuts, failed>>

\* SIGALRM: one flag for all threads of mttest, one per child of mtclient.  The
\* second one rings for the tests that look at timeout[1].
Alarms(t) ==
  LET ps == Program(t)
  IN  IF \E i \in DOMAIN ps : ps[i].kind = "loop" /\ ps[i].stop = 1 THEN 2 ELSE 1
Alarm(t) ==
  /\ th[t].pc = "run" /\ timeout[t] < Alarms(t)
  /\ timeout' = [u \in Threads |-> IF u = t \/ list.by = "mttest" THEN timeout[u] + 1 ELSE timeout[u]]
  /\ UNCHANGED <<list, th, table, active, size, draws, cuts, failed>>

(* mtclient: run_child, wait for the children, the next invocation.        *)
RunChild(t) ==
  /\ list.by = "mtclient" /\ th[t].pc = "run" /\ Ended(t)
  /\ Step(t, "done")
  /\ UNCHANGED <<list, table, timeout, active, size, draws, cuts, failed>>

AllDone == \A t \in Threads : th[t].pc = "done"
Invoke ==
  /\ list.by = "mtclient" /\ AllDone
  /\ LET sub == th[0].sub
     IN  sub < Len(list.tests) /\ th' = [t \in Threads |-> Fresh("run", sub + 1)]
  /\ timeout' = [t \in Threads |-> 0]
  /\ IF list.crash THEN table' \in cuts ELSE UNCHANGED table
  /\ UNCHANGED <<list, active, size, draws, cuts, failed>>

Work(t) ==
  /\ th[t].pc = "run" /\ ~Ended(t)
  /\ \E p \in {Cur(t)} :
       \/ LoopStep(t, p) \/ MixStep(t, p) \/ RandomStep(t, p) \/ EitherStep(t, p)
       \/ UntilStep(t, p) \/ EndIfStep(t, p) \/ AgainStep(t, p)
       \/ wait_barrier(t, p) \/ TimeStep(t, p) \/ AddSize(t, p) \/ CheckSize(t, p)
       \/ Chase(t, p) \/ Lookback(t, p) \/ PutX(t, p) \/ Status(t, p) \/ Compare(t, p)
       \/ Probe(t, p) \/ ScanStep(t, p)
       \/ Winner(t, p) \/ Winners(t, p) \/ Prefix(t, p) \/ ScanTest(t, p)

Next ==
  \/ \E t \in Threads : Work(t) \/ Go(t) \/ SubtestEnd(t) \/ Reenter(t) \/ Finish(t)
                         \/ Alarm(t) \/ RunChild(t)
  \/ Invoke

Spec == Init /\ [][Next]_vars

-----------------------------------------------------------------------------
(* Properties.                                                             *)


\* A thread that waits for another one.
Waits(t) ==
  \/ th[t].pc = "waiting"
  \/ At(t, "until") /\ ~Holds(t, Cur(t))
  \/ At(t, "barrier") /\ \E u \in Threads : ~Arrived(u, t, "barrier")
  \/ At(t, "time") /\ \E u \in Threads : ~Ended(u) /\ ~Arrived(u, t, "time")

\* After the alarm every test ends.  The one exception is the deleter of wd1,
\* which waits without a timeout for a writer that stopped too early.
TestsEnd ==
  (\A t \in Threads : th[t].pc = "done" \/ (timeout[t] > 0 /\ Waits(t)))
    => \A t \in Threads : th[t].pc = "done" \/ list.tests[th[t].sub] = "wd1"
=============================================================================
