------------------------------- MODULE Strings -------------------------------
(***************************************************************************)
(* The memory of String and StringAccum (string.hh, string.cc,             *)
(* straccum.hh, straccum.cc): Strings and their substrings share a counted *)
(* memo, append into its unused end when nobody else has, and exchange     *)
(* whole memos with StringAccums without copying.                          *)
(*                                                                         *)
(* The heap holds memos; static memory holds the empty string, the         *)
(* out-of-memory string and the texts the program's char* arguments point  *)
(* to.  A pointer with its length is [at, pos, len]: bytes pos+1..pos+len  *)
(* of block at.  The sizes are scaled: Unit for 16, Space for MEMO_SPACE,  *)
(* Large for 1024, Slack for shrink_to_fit's 256, AccMin for 128, and      *)
(* AccBig, AccStep for the 1 << 20 and 1 << 19 of StringAccum::grow, and   *)
(* NumRoom for the 24 bytes a number is printed into.                      *)
(* operator new throws, so the code's own tests for a null memo are not    *)
(* reached; out-of-memory values come from make_out_of_memory and          *)
(* assign_out_of_memory.                                                   *)
(***************************************************************************)
EXTENDS Integers, Sequences, FiniteSets, SequencesExt, TLC

CONSTANTS Strs, Accs,      \* the program's String and StringAccum variables
          Blocks,          \* names of memory blocks, enough of them
          Texts,           \* name -> the characters a char* argument shows
          MaxOps, MaxLen,  \* operations of a run; longest string it builds
          Unit, Space, Large, Slack, AccMin, AccBig, AccStep, NumRoom

VARIABLES m,     \* [heap, str, acc]: memory and the representations in it
          want,  \* the value each variable should have
          ops    \* operations done

vars == <<m, want, ops>>

NUL == "0"
Junk == "?"
OomChars == <<"E", "E">>
Static == [empty |-> <<NUL>>, oom |-> Append(OomChars, NUL)]
          @@ [t \in DOMAIN Texts |-> Append(Texts[t], NUL)]

-------------------------------------------------------------------------------
(* Memos and representations.                                              *)

Ptr(at, pos, len) == [at |-> at, pos |-> pos, len |-> len]
Rep(p, memo) == [at |-> p.at, pos |-> p.pos, len |-> p.len, memo |-> memo]
null_string_rep == Rep(Ptr("empty", 0, 0), FALSE)
oom_string_rep == Rep(Ptr("oom", 0, Len(OomChars)), FALSE)
rep_t == [at |-> "empty", len |-> 0, cap |-> 0]

Fresh(s) == CHOOSE b \in Blocks : b \notin DOMAIN s.heap
Block(s, at) == IF at \in DOMAIN Static THEN Static[at] ELSE s.heap[at].data
Chars(s, p) == SubSeq(Block(s, p.at), p.pos + 1, p.pos + p.len)

\* memcpy and memset into a block.
Write(s, at, pos, cs) ==
    [s EXCEPT !.heap[at].data =
        [i \in DOMAIN @ |-> IF i - pos \in DOMAIN cs THEN cs[i - pos] ELSE @[i]]]
Fill(c, n) == [i \in 1..n |-> c]

create_memo(s, capacity, dirty) ==
    [s EXCEPT !.heap = @ @@ (Fresh(s) :> [ref |-> 1, cap |-> capacity, dirty |-> dirty,
                                          data |-> Fill(Junk, capacity)])]
delete_memo(s, at) ==
    [s EXCEPT !.heap = [i \in DOMAIN @ \ {at} |-> @[i]]]

ref(s, r) == IF r.memo THEN [s EXCEPT !.heap[r.at].ref = @ + 1] ELSE s
deref(s, r) == IF ~r.memo THEN s
               ELSE IF s.heap[r.at].ref = 1 THEN delete_memo(s, r.at)
               ELSE [s EXCEPT !.heap[r.at].ref = @ - 1]

\* x's representation becomes r, which owns the reference it brings.
assign_noref(s, x, r) == [s EXCEPT !.str[x] = r]

out_of_memory(r) == r.at = "oom" /\ r.pos = 0
is_shared(s, r) == ~r.memo \/ s.heap[r.at].ref # 1
RoundUp(n) == ((n + Unit - 1) \div Unit) * Unit

RECURSIVE Doubled(_, _)
Doubled(from, n) == IF from < n THEN Doubled(2 * from, n) ELSE from

-------------------------------------------------------------------------------
(* String.                                                                 *)

\* assign(s, len, false): a memo of its own, or none for the empty string.
assign_copy(s, x, p) ==
    IF p.len = 0 THEN assign_noref(s, x, null_string_rep)
    ELSE LET at == Fresh(s)
             s1 == create_memo(s, RoundUp(p.len + Space) - Space, p.len)
         IN  assign_noref(Write(s1, at, 0, Chars(s, p)), x,
                          Rep(Ptr(at, 0, p.len), TRUE))

assign_out_of_memory(s, x) == assign_noref(deref(s, s.str[x]), x, oom_string_rep)

\* assign(s, len, true): "Be careful about String s = ...; s = s.c_str()".
assign_cstr(s, x, p) ==
    IF s.str[x].memo /\ p.at = s.str[x].at THEN assign_noref(s, x, Rep(p, TRUE))
    ELSE assign_copy(deref(s, s.str[x]), x, p)

\* assign(const String&) and operator=; x and y may share or be the same.
assign(s, x, r) == assign_noref(deref(ref(s, r), s.str[x]), x, r)

\* Without the second test the appended characters overwrite a sibling's.
MutAppendUninitialized(s, x, n) ==
    LET r == s.str[x]
        at == Fresh(s)
        total == r.len + n
        size == IF total + Space <= Large THEN RoundUp(total + Space)
                ELSE Doubled(2 * Large, total + Space)
    IN  IF n <= 0 \/ out_of_memory(r) THEN s
        ELSE IF r.memo /\ s.heap[r.at].cap > s.heap[r.at].dirty + n
        THEN [s EXCEPT !.heap[r.at].dirty = @ + n, !.str[x].len = total]
        ELSE LET s1 == Write(create_memo(s, size - Space, total), at, 0, Chars(s, r))
             IN  assign_noref(deref(s1, r), x, Rep(Ptr(at, 0, total), TRUE))

\* The new characters are the last n of x; they are not set yet.
append_uninitialized(s, x, n) ==
    LET r == s.str[x]
        at == Fresh(s)
        total == r.len + n
        size == IF total + Space <= Large THEN RoundUp(total + Space)
                ELSE Doubled(2 * Large, total + Space)
    IN  IF n <= 0 \/ out_of_memory(r) THEN s
        ELSE IF /\ r.memo
                /\ s.heap[r.at].cap > s.heap[r.at].dirty + n
                /\ s.heap[r.at].dirty = r.pos + r.len
        THEN [s EXCEPT !.heap[r.at].dirty = @ + n, !.str[x].len = total]
        ELSE LET s1 == Write(create_memo(s, size - Space, total), at, 0, Chars(s, r))
             IN  assign_noref(deref(s1, r), x, Rep(Ptr(at, 0, total), TRUE))

\* What follows append_uninitialized when it returned space.
Into(s, x, cs) == IF out_of_memory(s.str[x]) THEN s
                  ELSE LET r == s.str[x]
                       IN  Write(s, r.at, r.pos + r.len - Len(cs), cs)

\* append(s, len, memo); memo is "null", "absent" (a char*) or "memo".
append(s, x, p, memo) ==
    LET r == s.str[x]
        n == p.len
        Copied(s0) == Into(append_uninitialized(s0, x, n), x,
                           Chars(append_uninitialized(s0, x, n), p))
    IN  IF n = 0 \/ out_of_memory(r) THEN s
        ELSE IF out_of_memory(p) /\ memo = "null" THEN assign_out_of_memory(s, x)
        ELSE IF r.len = 0 /\ memo = "memo"
        THEN LET s1 == deref(s, r) IN assign_noref(ref(s1, Rep(p, TRUE)), x, Rep(p, TRUE))
        ELSE IF ~(r.memo /\ p.at = r.at) THEN Copied(s)
        ELSE deref(Copied(ref(s, r)), r)                           \* preserve_s

append_fill(s, x, c, n) ==
    IF n = 0 \/ out_of_memory(s.str[x]) THEN s
    ELSE Into(append_uninitialized(s, x, n), x, Fill(c, n))

mutable_data(s, x) ==
    LET r == s.str[x]
    IN  IF ~is_shared(s, r) THEN s
        ELSE LET held == ref(s, r)                    \* do_not_delete_underlying_memo
             IN  deref(assign_copy(deref(held, r), x, r), r)

\* c_str and hard_c_str.
c_str(s, x) ==
    LET r == s.str[x]
        end == r.pos + r.len
    IN  IF \/ r.memo /\ end >= s.heap[r.at].dirty
           \/ Block(s, r.at)[end + 1] # NUL
        THEN IF out_of_memory(r) THEN s
             ELSE LET s1 == Into(append_uninitialized(s, x, 1), x, <<NUL>>)
                  IN  [s1 EXCEPT !.str[x].len = @ - 1]
        ELSE s

\* The part substr(pos, len) of a string of length n: its start and length.
SubstrRange(n, pos0, len0) ==
    LET pos == IF pos0 < 0 THEN pos0 + n ELSE pos0
        pos2 == IF len0 < 0 THEN n + len0
                ELSE IF pos >= 0 /\ len0 >= n THEN n ELSE pos + len0
        a == IF pos < 0 THEN 0 ELSE pos
        b == IF pos2 > n THEN n ELSE pos2
    IN  IF a >= b THEN <<0, 0>> ELSE <<a, b - a>>

\* substr, substring and fast_substring: a representation that shares r.
substr(r, pos, len) ==
    LET part == SubstrRange(r.len, pos, len)
    IN  IF part[2] = 0 THEN null_string_rep
        ELSE Rep(Ptr(r.at, r.pos + part[1], part[2]), r.memo)

lower(c) == IF c = "A" THEN "a" ELSE c
upper(c) == IF c = "a" THEN "A" ELSE c
Cased(up, chars) == [i \in DOMAIN chars |-> IF up THEN upper(chars[i]) ELSE lower(chars[i])]

\* hard_lower and hard_upper copy; a string without such letters is shared.
hard_case(s, x, r, up) ==
    IF Cased(up, Chars(s, r)) = Chars(s, r) THEN assign(s, x, r)
    ELSE LET s1 == assign_copy(s, x, r)               \* new_s, then moved to x
         IN  deref(Write(s1, s1.str[x].at, 0, Cased(up, Chars(s, r))), s.str[x])

shrink_to_fit(s, x) ==
    LET r == s.str[x]
    IN  IF r.memo /\ s.heap[r.at].ref > 1 /\ r.len + Slack < s.heap[r.at].cap
        THEN deref(assign_copy(s, x, r), r)
        ELSE s

-------------------------------------------------------------------------------
(* StringAccum.                                                            *)

\* grow; false when the accumulator is out of memory.
GrownCap(cap, ncap) ==
    IF ncap < AccMin THEN AccMin
    ELSE IF cap < AccBig /\ ncap < (cap + Space) * 2 - Space THEN (cap + Space) * 2 - Space
    ELSE IF cap >= AccBig /\ ncap < cap + AccStep THEN cap + AccStep
    ELSE ncap
grow(s, a, ncap) ==
    LET r == s.acc[a]
        at == Fresh(s)
        cap == GrownCap(r.cap, ncap)
        s1 == Write(create_memo(s, cap, 0), at, 0, Chars(s, Ptr(r.at, 0, r.len)))
    IN  IF r.cap < 0 \/ ncap < r.cap THEN s
        ELSE [(IF r.cap > 0 THEN delete_memo(s1, r.at) ELSE s1)
              EXCEPT !.acc[a] = [@ EXCEPT !.at = at, !.cap = cap]]

\* extend and hard_extend: room for n characters, counted in the length.
extend(s, a, n) ==
    LET s1 == IF s.acc[a].len + n <= s.acc[a].cap THEN s
              ELSE grow(s, a, s.acc[a].len + n)
    IN  IF s1.acc[a].cap < 0 THEN s1 ELSE [s1 EXCEPT !.acc[a].len = @ + n]

\* append and hard_append, "careful about calls like sa.append(sa.begin(),
\* sa.end())": the old block is released after the copy.
acc_append(s, a, p) ==
    LET r == s.acc[a]
        At(s0) == IF s0.acc[a].cap < 0 THEN s0
                  ELSE Write([s0 EXCEPT !.acc[a].len = r.len + p.len], s0.acc[a].at,
                             r.len, Chars(s, p))
    IN  IF p.len = 0 THEN s
        ELSE IF r.len + p.len <= r.cap THEN At(s)
        ELSE IF p.at # r.at THEN At(grow(s, a, r.len + p.len))
        ELSE LET s1 == extend([s EXCEPT !.acc[a] = rep_t], a, r.len + p.len)
             IN  delete_memo(Write(s1, s1.acc[a].at, 0,
                                   Chars(s, Ptr(r.at, 0, r.len)) \o Chars(s, p)), r.at)

acc_fill(s, a, c, n) ==
    LET s1 == extend(s, a, n)
        r == s1.acc[a]
    IN  IF n = 0 \/ r.cap < 0 THEN s1 ELSE Write(s1, r.at, r.len - n, Fill(c, n))

\* sa << number: reserve(NumRoom), print with the final NUL, adjust_length.
acc_number(s, a, cs) ==
    LET r == s.acc[a]
        s1 == IF r.len + NumRoom <= r.cap THEN s ELSE grow(s, a, r.len + NumRoom)
    IN  IF s1.acc[a].cap < 0 THEN s1
        ELSE [Write(s1, s1.acc[a].at, r.len, Append(cs, NUL)) EXCEPT !.acc[a].len = @ + Len(cs)]

acc_c_str(s, a) ==
    LET s1 == IF s.acc[a].len < s.acc[a].cap THEN s ELSE grow(s, a, s.acc[a].len)
    IN  IF s1.acc[a].cap < 0 THEN s1 ELSE Write(s1, s1.acc[a].at, s1.acc[a].len, <<NUL>>)

acc_assign_out_of_memory(s, a) ==
    LET s1 == IF s.acc[a].cap > 0 THEN delete_memo(s, s.acc[a].at) ELSE s
    IN  [s1 EXCEPT !.acc[a] = [rep_t EXCEPT !.cap = -1]]

clear(s, a) == [s EXCEPT !.acc[a] = [@ EXCEPT !.cap = IF @ < 0 THEN 0 ELSE @, !.len = 0]]
acc_delete(s, a) == IF s.acc[a].cap > 0 THEN delete_memo(s, s.acc[a].at) ELSE s

\* take_string: the block becomes the memo of x.
take_string(s, a, x) ==
    LET r == s.acc[a]
        given == [s EXCEPT !.heap[r.at] = [@ EXCEPT !.ref = 1, !.cap = r.cap, !.dirty = r.len],
                           !.acc[a] = rep_t]
        Move(s0, rep) == assign_noref(deref(s0, s0.str[x]), x, rep)
    IN  IF r.len > 0 /\ r.cap > 0 THEN Move(given, Rep(Ptr(r.at, 0, r.len), TRUE))
        ELSE IF r.cap >= 0 THEN Move(s, null_string_rep)
        ELSE Move(clear(s, a), oom_string_rep)

\* make_transfer: x's memo becomes a's block when x alone holds all of it.
make_transfer(s, a, x) ==
    LET r == s.str[x]
        s0 == [acc_delete(s, a) EXCEPT !.acc[a] = rep_t]
        moved == IF is_shared(s, r) \/ r.pos # 0
                 THEN deref(acc_append(s0, a, r), r)
                 ELSE [s0 EXCEPT !.acc[a] = [at |-> r.at, len |-> r.len,
                                             cap |-> s.heap[r.at].cap]]
    IN  assign_noref(moved, x, null_string_rep)

-------------------------------------------------------------------------------
(* The program: one operation on its variables at a time.                  *)

Value(v, bad) == [v |-> v, bad |-> bad, moved |-> FALSE]
OomValue == Value(OomChars, TRUE)
Plain(v) == Value(v, FALSE)
Cat(a, b) == IF a.bad THEN a ELSE IF b.bad THEN OomValue ELSE Plain(a.v \o b.v)
Live(x) == ~want[x].moved
Fits(v) == Len(v) <= MaxLen
StrPtr(x) == LET r == m.str[x] IN Ptr(r.at, r.pos, r.len)
AccPtr(a) == Ptr(m.acc[a].at, 0, m.acc[a].len)

Init ==
    /\ m = [heap |-> <<>>, str |-> [x \in Strs |-> null_string_rep],
            acc |-> [a \in Accs |-> rep_t]]
    /\ want = [x \in Strs \cup Accs |-> Plain(<<>>)]
    /\ ops = 0

Becomes(s, w) == /\ ops < MaxOps
                 /\ ops' = ops + 1
                 /\ m' = s
                 /\ want' = w

\* x = "text", copied, or made stable: used where it is.
AssignText(x) ==
    \E t \in DOMAIN Texts : \E stable \in BOOLEAN :
        LET p == Ptr(t, 0, Len(Texts[t]))
        IN  Becomes(IF stable THEN assign(m, x, Rep(p, FALSE)) ELSE assign_cstr(m, x, p),
                    [want EXCEPT ![x] = Plain(Texts[t])])

\* String(n): the digits are static, longer numbers are printed and copied.
AssignNumber(x) ==
    \E t \in DOMAIN Texts :
        LET p == Ptr(t, 0, Len(Texts[t]))
        IN  Becomes(IF p.len = 1 THEN assign(m, x, Rep(p, FALSE))
                    ELSE assign_copy(deref(m, m.str[x]), x, p),
                    [want EXCEPT ![x] = Plain(Texts[t])])

\* x = x.c_str() + 1.
AssignOwn(x) ==
    /\ Live(x) /\ ~want[x].bad /\ Len(want[x].v) > 0
    /\ LET s == c_str(m, x)
           r == s.str[x]
       IN  Becomes(assign_cstr(s, x, Ptr(r.at, r.pos + 1, r.len - 1)),
                   [want EXCEPT ![x] = Plain(Tail(@.v))])

AssignString(x, y) ==
    /\ Live(y)
    /\ Becomes(assign(m, x, m.str[y]), [want EXCEPT ![x] = want[y]])

\* x = std::move(y); y may not be read until it is assigned again.
MoveString(x, y) ==
    /\ Live(y) /\ x # y
    /\ Becomes([assign_noref(deref(m, m.str[x]), x, m.str[y])
                EXCEPT !.str[y].memo = FALSE],
               [want EXCEPT ![x] = want[y], ![y].moved = TRUE])

SwapStrings(x, y) ==
    /\ x # y
    /\ Becomes([m EXCEPT !.str[x] = m.str[y], !.str[y] = m.str[x]],
               [want EXCEPT ![x] = want[y], ![y] = want[x]])

Destroy(x) == Becomes(assign(m, x, null_string_rep), [want EXCEPT ![x] = Plain(<<>>)])

AppendString(x, y) ==
    /\ Live(x) /\ Live(y) /\ Fits(want[x].v \o want[y].v)
    /\ Becomes(append(m, x, StrPtr(y), IF m.str[y].memo THEN "memo" ELSE "null"),
               [want EXCEPT ![x] = IF want[y].v = <<>> THEN @ ELSE Cat(@, want[y])])

\* x += y.c_str().
AppendChars(x, y) ==
    /\ Live(x) /\ Live(y) /\ ~want[y].bad /\ Fits(want[x].v \o want[y].v)
    /\ LET s == c_str(m, y)
           r == s.str[y]
       IN  Becomes(append(s, x, Ptr(r.at, r.pos, r.len), "absent"),
                   [want EXCEPT ![x] = Cat(@, Plain(want[y].v))])

AppendFill(x) ==
    \E n \in 0..1 :
        /\ Live(x) /\ Fits(want[x].v \o Fill("A", n))
        /\ Becomes(append_fill(m, x, "A", n), [want EXCEPT ![x] = Cat(@, Plain(Fill("A", n)))])

\* x.mutable_data()[i] = 'z', and mutable_c_str.
Mutate(x) ==
    /\ Live(x) /\ Len(want[x].v) > 0
    /\ LET s == mutable_data(m, x)
           i == Len(want[x].v)
       IN  Becomes(Write(c_str(s, x), c_str(s, x).str[x].at,
                         c_str(s, x).str[x].pos + i - 1, <<"z">>),
                   [want EXCEPT ![x] = Plain([@.v EXCEPT ![i] = "z"])])

Terminate(x) == Live(x) /\ Becomes(c_str(m, x), want)

\* x = y.substr(pos, len).  What starts where the out-of-memory string does
\* is out of memory too.
Substr(x, y) ==
    \E pos \in -2..1 : \E len \in {-1, 1, 2} :
        /\ Live(y)
        /\ LET part == SubstrRange(Len(want[y].v), pos, len)
           IN  Becomes(assign(m, x, substr(m.str[y], pos, len)),
                       [want EXCEPT ![x] =
                           Value(SubSeq(want[y].v, part[1] + 1, part[1] + part[2]),
                                 want[y].bad /\ part[2] > 0 /\ part[1] = 0)])

ChangeCase(x, y) ==
    \E up \in BOOLEAN :
        /\ Live(y) /\ ~want[y].bad
        /\ Becomes(hard_case(m, x, m.str[y], up),
                   [want EXCEPT ![x] = Plain(Cased(up, want[y].v))])

Shrink(x) == Live(x) /\ Becomes(shrink_to_fit(m, x), want)

MakeOutOfMemory(x) ==
    Becomes(assign(m, x, oom_string_rep), [want EXCEPT ![x] = OomValue])

\* sa << x, sa << sa, sa.append_fill, sa.append(c).
AccumString(a, x) ==
    /\ Live(x) /\ Fits(want[a].v \o want[x].v)
    /\ Becomes(acc_append(m, a, StrPtr(x)), [want EXCEPT ![a] = Cat(@, Plain(want[x].v))])

AccumSelf(a) ==
    /\ Fits(want[a].v \o want[a].v)
    /\ Becomes(acc_append(m, a, AccPtr(a)), [want EXCEPT ![a] = Cat(@, @)])

AccumFill(a) ==
    \E n \in 0..1 :
        /\ Fits(want[a].v \o Fill("a", n))
        /\ Becomes(acc_fill(m, a, "a", n), [want EXCEPT ![a] = Cat(@, Plain(Fill("a", n)))])

AccumNumber(a) ==
    \E t \in DOMAIN Texts :
        /\ Fits(want[a].v \o Texts[t]) /\ Len(Texts[t]) < NumRoom
        /\ Becomes(acc_number(m, a, Texts[t]), [want EXCEPT ![a] = Cat(@, Plain(Texts[t]))])

AccumTerminate(a) == Becomes(acc_c_str(m, a), want)
AccumPop(a) == /\ m.acc[a].len >= 1
               /\ Becomes([m EXCEPT !.acc[a].len = @ - 1], [want EXCEPT ![a].v = Front(@)])
AccumClear(a) == Becomes(clear(m, a), [want EXCEPT ![a] = Plain(<<>>)])
AccumOutOfMemory(a) ==
    Becomes(acc_assign_out_of_memory(m, a), [want EXCEPT ![a] = Value(<<>>, TRUE)])

\* x = sa.take_string(); sa = StringAccum(std::move(x)).
TakeString(a, x) ==
    Becomes(take_string(m, a, x),
            [want EXCEPT ![x] = IF want[a].bad THEN OomValue ELSE want[a], ![a] = Plain(<<>>)])

Transfer(a, x) ==
    /\ Live(x)
    /\ Becomes(make_transfer(m, a, x), [want EXCEPT ![a] = Plain(want[x].v), ![x] = Plain(<<>>)])

Next ==
    \/ \E x \in Strs :
        \/ AssignText(x) \/ AssignNumber(x) \/ AssignOwn(x) \/ Destroy(x) \/ AppendFill(x) \/ Mutate(x)
        \/ Terminate(x) \/ Shrink(x) \/ MakeOutOfMemory(x)
        \/ \E y \in Strs : \/ AssignString(x, y) \/ MoveString(x, y) \/ SwapStrings(x, y)
                           \/ AppendString(x, y) \/ AppendChars(x, y)
                           \/ Substr(x, y) \/ ChangeCase(x, y)
    \/ \E a \in Accs :
        \/ AccumSelf(a) \/ AccumFill(a) \/ AccumNumber(a) \/ AccumTerminate(a)
        \/ AccumPop(a)
        \/ AccumClear(a) \/ AccumOutOfMemory(a)
        \/ \E x \in Strs : AccumString(a, x) \/ TakeString(a, x) \/ Transfer(a, x)

Spec == Init /\ [][Next]_vars

-------------------------------------------------------------------------------

Reads(p, v) == /\ p.at \in DOMAIN Static \cup DOMAIN m.heap
               /\ p.pos + p.len <= Len(Block(m, p.at))
               /\ Chars(m, p) = v

\* However strings, substrings and accumulators share, append to and hand
\* over memory, each of them reads what its own operations made of it, in
\* memory that is still allocated; out-of-memory strings are contagious; a
\* memo's count is the number of Strings in it, and nothing is leaked.
StringsKeepValue ==
    /\ \A x \in Strs : Live(x) => /\ Reads(StrPtr(x), want[x].v)
                                  /\ out_of_memory(m.str[x]) = want[x].bad
    /\ \A a \in Accs : /\ Reads(AccPtr(a), want[a].v)
                       /\ (m.acc[a].cap < 0) = want[a].bad
    /\ \A i \in DOMAIN m.heap :
        LET strs == {x \in Strs : m.str[x].memo /\ m.str[x].at = i}
            accs == {a \in Accs : m.acc[a].cap > 0 /\ m.acc[a].at = i}
        IN  \/ strs = {} /\ Cardinality(accs) = 1
            \/ accs = {} /\ strs # {} /\ m.heap[i].ref = Cardinality(strs)
=============================================================================
