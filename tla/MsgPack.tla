------------------------------- MODULE MsgPack -------------------------------
(***************************************************************************)
(* The messages between client and server (msgpack.hh, msgpack.cc): how a  *)
(* Json value is written, how streaming_parser puts it together again from *)
(* the pieces the reads happen to return, and how the plain parser, which  *)
(* reads logs and skips over the head of a put, moves through it.          *)
(*                                                                         *)
(* A Json value is a record [t, v]: t is "null", "b", "i" (signed), "u"    *)
(* (unsigned), "d", "s" (v is the sequence of its characters), "a" (v is   *)
(* the sequence of elements) or "o" (v is the sequence of pairs [k, v] in  *)
(* the order of insertion).  A byte is a format byte <<name, x>>, where x  *)
(* is what the fixed formats carry, or a plain byte 0..Base-1.  Base is 4  *)
(* instead of 256 and the limits of the fixed formats are scaled down with *)
(* it, so that every format occurs in short messages.                      *)
(***************************************************************************)
EXTENDS Integers, Sequences, FiniteSets, SequencesExt, FiniteSetsExt

CONSTANTS Messages  \* sequences of Json values a connection may carry

Base == 4
nfixuint == 2
nfixnegint == 1
nfixstr == 2
nfixarray == 3
nfixmap == 2

VARIABLES sent,    \* the values that are sent
          wire,    \* and their bytes
          pos,     \* bytes consumed
          avail,   \* bytes read from the socket
          parser,  \* the streaming_parser
          got      \* the values it returned

vars == <<sent, wire, pos, avail, parser, got>>

Pow(w) == Base ^ w
Null == [t |-> "null", v |-> 0]

-------------------------------------------------------------------------------
(* Writing.                                                                *)

\* write_in_net_order, and back.
NetOrder(x, w) == [i \in 1..w |-> (x \div Pow(w - i)) % Base]
FromNet(s) == FoldLeft(LAMBDA acc, d : acc * Base + d, 0, s)
Signed(x, w) == IF x >= Pow(w) \div 2 THEN x - Pow(w) ELSE x

\* The bytes that a format takes, its own included (nbytes).
Width == [bin8 |-> 1, bin16 |-> 2, bin32 |-> 4, str8 |-> 1, str16 |-> 2,
          str32 |-> 4, float32 |-> 4, float64 |-> 8,
          uint8 |-> 1, uint16 |-> 2, uint32 |-> 4, uint64 |-> 8,
          int8 |-> 1, int16 |-> 2, int32 |-> 4, int64 |-> 8,
          array16 |-> 2, array32 |-> 4, map16 |-> 2, map32 |-> 4]
nbytes(b) == IF b[1] \in DOMAIN Width THEN 1 + Width[b[1]] ELSE 0

Tagged(name, x) == << <<name, 0>> >> \o NetOrder(x % Pow(Width[name]), Width[name])
\* The first format of names whose width holds x.
Narrowest(x, signed, names) ==
    LET Least(w) == IF signed THEN -(Pow(w) \div 2) ELSE 0
        Fits(w) == x - Least(w) \in 0..(Pow(w) - 1)
    IN  names[Min({n \in DOMAIN names : Fits(Width[names[n]])})]

write_unsigned(x) ==
    IF x < nfixuint THEN << <<"fixint", x>> >>
    ELSE Tagged(Narrowest(x, FALSE,
                          <<"uint8", "uint16", "uint32", "uint64">>), x)

write_signed(x) ==
    IF x + nfixnegint \in 0..(nfixuint + nfixnegint - 1)
    THEN << <<"fixint", x>> >>
    ELSE Tagged(Narrowest(x, TRUE,
                          <<"int8", "int16", "int32", "int64">>), x)

write_string(s) ==
    (IF Len(s) < nfixstr THEN << <<"fixstr", Len(s)>> >>
     ELSE Tagged(Narrowest(Len(s), FALSE, <<"str8", "str16", "str32">>),
                 Len(s))) \o s

write_array_header(n) ==
    IF n < nfixarray THEN << <<"fixarray", n>> >>
    ELSE Tagged(Narrowest(n, FALSE, <<"array16", "array32">>), n)

write_map_header(n) ==
    IF n < nfixmap THEN << <<"fixmap", n>> >>
    ELSE Tagged(Narrowest(n, FALSE, <<"map16", "map32">>), n)

\* unparser::operator<< for what is no container.  "ext" stands for a format
\* that the parser does not know and that this program never writes.
Primitive(j) ==
    CASE j.t = "null" -> << <<"null", 0>> >>
      [] j.t = "b" -> << <<"bool", j.v>> >>
      [] j.t = "u" -> write_unsigned(j.v)
      [] j.t = "i" -> write_signed(j.v)
      [] j.t = "d" -> Tagged("float64", j.v)
      [] j.t = "s" -> write_string(j.v)
      [] j.t = "ext" -> << <<"ext8", 0>>, 0 >>

\* unparser::operator<<(const Json&).
RECURSIVE Unparse(_)
Unparse(j) ==
    CASE j.t = "a" -> write_array_header(Len(j.v)) \o
                      FlattenSeq([i \in DOMAIN j.v |-> Unparse(j.v[i])])
      [] j.t = "o" -> write_map_header(Len(j.v)) \o
                      FlattenSeq([i \in DOMAIN j.v |->
                          write_string(j.v[i].k) \o Unparse(j.v[i].v)])
      [] OTHER -> Primitive(j)

-------------------------------------------------------------------------------
(* streaming_parser.  A pointer jp into the result is the path to an       *)
(* element, or the key under construction (jokey_).                        *)

NewParser == [state |-> "normal", stack |-> <<>>, str |-> <<>>, json |-> Null,
              jokey |-> Null]
reset(p) == [p EXCEPT !.state = "normal", !.stack = <<>>]
done(p) == p.state \in {"final", "error"}

Key == [key |-> TRUE, path |-> <<>>]
At(path) == [key |-> FALSE, path |-> path]

RECURSIVE ValueAt(_, _), WithValue(_, _, _)
ValueAt(j, path) ==
    IF path = <<>> THEN j
    ELSE ValueAt(IF j.t = "a" THEN j.v[Head(path)] ELSE j.v[Head(path)].v,
                 Tail(path))
WithValue(j, path, x) ==
    IF path = <<>> THEN x
    ELSE IF j.t = "a"
    THEN [j EXCEPT !.v[Head(path)] = WithValue(@, Tail(path), x)]
    ELSE [j EXCEPT !.v[Head(path)].v = WithValue(@, Tail(path), x)]

Deref(p, jp) == IF jp.key THEN p.jokey ELSE ValueAt(p.json, jp.path)
Assign(p, jp, x) == IF jp.key THEN [p EXCEPT !.jokey = x]
                    ELSE [p EXCEPT !.json = WithValue(@, jp.path, x)]

Target(p) == IF p.stack = <<>> THEN At(<<>>) ELSE Last(p.stack).jp
\* The container that the last element of the stack fills.
Container(p) == IF Len(p.stack) = 1 THEN At(<<>>)
                ELSE p.stack[Len(p.stack) - 1].jp
Push(p, jp, n) == [p EXCEPT !.stack = Append(@, [jp |-> jp, size |-> n])]
SetTop(p, jp, n) == [p EXCEPT !.stack[Len(p.stack)] = [jp |-> jp, size |-> n]]

\* Json::get_insert: the member called k, added at the end if there is none.
get_insert(o, k) ==
    IF \E i \in DOMAIN o.v : o.v[i].k = k THEN o
    ELSE [o EXCEPT !.v = Append(@, [k |-> k, v |-> Null])]
MemberIndex(o, k) == CHOOSE i \in DOMAIN o.v : o.v[i].k = k

\* Finished containers are left behind; the next element is up.
Pop(p) ==
    LET open == {i \in DOMAIN p.stack : p.stack[i].size # 0}
        q == [p EXCEPT !.stack = SubSeq(@, 1, IF open = {} THEN 0 ELSE Max(open))]
    IN  IF q.stack = <<>> THEN [q EXCEPT !.state = "final"]
        ELSE LET top == Last(q.stack)
                 in == Container(q)
             IN  IF Deref(q, in).t = "a"
                 THEN SetTop(q, At(in.path \o <<Last(top.jp.path) + 1>>),
                             top.size - 1)
                 ELSE SetTop(q, Key, top.size - 1)

\* The code at "next:": jx has a value; n is the size of a container.  (A number
\* as a key would become its text; unparse writes every key as a string.)
Added(p, jx, n) ==
    LET x == Deref(p, jx)
    IN  IF jx.key
        THEN IF x.t \notin {"s", "i", "u"} THEN [p EXCEPT !.state = "error"]
             ELSE LET jo == Container(p)
                      o == get_insert(Deref(p, jo), x.v)
                  IN  SetTop(Assign(p, jo, o),
                             At(jo.path \o <<MemberIndex(o, x.v)>>),
                             Last(p.stack).size)
        ELSE IF x.t = "a" /\ n # 0 THEN Push(p, At(jx.path \o <<1>>), n - 1)
        ELSE IF x.t = "o" /\ n # 0 THEN Push(p, Key, n - 1)
        ELSE Pop(p)

\* An old array keeps its elements up to the new size, to be overwritten.
ArrayOf(old, n) ==
    [t |-> "a", v |-> [i \in 1..n |-> IF old.t = "a" /\ i <= Len(old.v)
                                      THEN old.v[i] ELSE Null]]
ObjectOf == [t |-> "o", v |-> <<>>]

\* Bytes that str_ still takes of a format cut short or of a string.
Needed(p) == IF p.state = "partial" THEN nbytes(p.str[1]) ELSE Last(p.stack).size
MutTaken(p, n) == Min({n, Needed(p)})
Taken(p, n) == Min({n, Needed(p) - Len(p.str)})

\* consume(): bytes first+1..last of src.  Each returns the parser and the
\* number of bytes consumed.
RECURSIVE Consume(_, _, _, _), Loop(_, _, _, _), Raw(_, _, _, _, _, _)

\* "raw:": a string of n bytes; what there is of it waits in str_.
Raw(p, jx, src, first, last, n) ==
    IF last - first < n
    THEN <<[Push(p, Key, n) EXCEPT !.str = SubSeq(src, first + 1, last),
                                   !.state = "string"], last>>
    ELSE LET q == Assign(p, jx, [t |-> "s",
                                 v |-> SubSeq(src, first + 1, first + n)])
         IN  Loop(Added(q, jx, n), src, first + n, last)

Loop(p, src, first, last) ==
    IF p.state \in {"final", "error"} THEN <<p, first>>
    ELSE IF first = last THEN <<[p EXCEPT !.state = "normal"], first>>
    ELSE
    LET b == src[first + 1]
        jx == Target(p)
        Value(x, k) == Loop(Added(Assign(p, jx, x), jx, 0), src, first + k, last)
        Open(x, n, k) == Loop(Added(Assign(p, jx, x), jx, n), src, first + k, last)
        w == nbytes(b)
        x == FromNet(SubSeq(src, first + 2, first + w))
    IN  CASE b[1] = "fixint" -> Value([t |-> "i", v |-> b[2]], 1)
          [] b[1] = "null" -> Value(Null, 1)
          [] b[1] = "bool" -> Value([t |-> "b", v |-> b[2]], 1)
          [] b[1] = "fixmap" -> Open(ObjectOf, b[2], 1)
          [] b[1] = "fixarray" -> Open(ArrayOf(Deref(p, jx), b[2]), b[2], 1)
          [] b[1] = "fixstr" -> Raw(p, jx, src, first + 1, last, b[2])
          [] w = 0 -> <<[p EXCEPT !.state = "error"], first>>
          [] w > last - first ->
                <<[p EXCEPT !.str = SubSeq(src, first + 1, last),
                            !.state = "partial"], last>>
          [] w <= last - first /\ b[1] \in {"uint8", "uint16"} ->
                Value([t |-> "i", v |-> x], w)
          [] w <= last - first /\ b[1] \in {"uint32", "uint64"} ->
                Value([t |-> "u", v |-> x], w)
          [] w <= last - first /\ b[1] \in {"int8", "int16", "int32", "int64"} ->
                Value([t |-> "i", v |-> Signed(x, w - 1)], w)
          [] w <= last - first /\ b[1] \in {"float32", "float64"} ->
                Value([t |-> "d", v |-> x], w)
          [] w <= last - first /\ b[1] \in {"array16", "array32"} ->
                Open(ArrayOf(Deref(p, jx), x), x, w)
          [] w <= last - first /\ b[1] \in {"map16", "map32"} ->
                Open(ObjectOf, x, w)
          [] w <= last - first /\ b[1] \in {"bin8", "bin16", "bin32", "str8",
                                            "str16", "str32"} ->
                Raw(p, jx, src, first + w, last, x)

Consume(p, src, first, last) ==
    IF p.state \notin {"partial", "string"} THEN Loop(p, src, first, last)
    ELSE
    LET next == first + Taken(p, last - first)
        q == [p EXCEPT !.str = @ \o SubSeq(src, first + 1, next)]
    IN  IF Len(q.str) # Needed(p) THEN <<q, next>>
        ELSE IF p.state = "string"
        THEN LET r == [q EXCEPT !.stack = Front(@), !.state = "normal"]
                 jx == Target(r)
             IN  Loop(Added(Assign(r, jx, [t |-> "s", v |-> q.str]), jx, 0),
                      src, next, last)
        ELSE LET r == Consume([q EXCEPT !.state = "normal"], q.str, 0,
                              Len(q.str))[1]
             IN  IF r.state # "normal" THEN <<r, next>>
                 ELSE Loop(r, src, next, last)

-------------------------------------------------------------------------------
(* parser, over bytes b from position s (bytes before it are read).        *)

skip_array_size(b, s) ==
    CASE b[s + 1][1] = "fixarray" -> s + 1
      [] b[s + 1][1] \in {"array16", "array32"} -> s + nbytes(b[s + 1])

\* operator>>(Str&): the string and the position after it.
read_Str(b, s) ==
    LET h == IF b[s + 1][1] = "fixstr" THEN 1 ELSE nbytes(b[s + 1])
        n == IF h = 1 THEN b[s + 1][2] ELSE FromNet(SubSeq(b, s + 2, s + h))
    IN  <<SubSeq(b, s + h + 1, s + h + n), s + h + n>>

\* read_int and hard_read_int.
read_int(b, s) ==
    LET h == nbytes(b[s + 1])
        x == FromNet(SubSeq(b, s + 2, s + h))
    IN  IF h = 0 THEN <<b[s + 1][2], s + 1>>
        ELSE <<IF b[s + 1][1] \in {"int8", "int16", "int32", "int64"}
               THEN Signed(x, h - 1) ELSE x, s + h>>

IsStr(b) == b[1] \in {"fixstr", "str8", "str16", "str32", "bin8", "bin16", "bin32"}

\* skip_primitives, for one value; it does not know the 64-bit formats.
skip_primitive(b, s) ==
    IF IsStr(b[s + 1]) THEN read_Str(b, s)[2]
    ELSE IF b[s + 1][1] \in {"fixint", "null", "bool"} THEN s + 1
    ELSE IF b[s + 1][1] \in {"uint8", "int8", "uint16", "int16", "uint32",
                             "int32", "float32"} THEN s + nbytes(b[s + 1])
    ELSE s

-------------------------------------------------------------------------------
(* A connection: read() returns pieces, receive() parses them.             *)

Init ==
    /\ sent \in Messages
    /\ wire = FlattenSeq([i \in DOMAIN sent |-> Unparse(sent[i])])
    /\ pos = 0 /\ avail = 0
    /\ parser = NewParser
    /\ got = <<>>

Read ==
    /\ pos = avail /\ ~ done(parser)
    /\ avail' \in (avail + 1)..Len(wire)
    /\ UNCHANGED <<sent, wire, pos, parser, got>>

Feed ==
    /\ pos < avail /\ ~ done(parser)
    /\ \E r \in {Consume(parser, SubSeq(wire, pos + 1, avail), 0, avail - pos)} :
          /\ parser' = r[1]
          /\ pos' = pos + r[2]
    /\ UNCHANGED <<sent, wire, avail, got>>

\* receive() hands out the value and starts over; an error ends the connection.
Receive ==
    /\ parser.state = "final"
    /\ got' = Append(got, parser.json)
    /\ parser' = reset(parser)
    /\ UNCHANGED <<sent, wire, pos, avail>>

Next == Read \/ Feed \/ Receive

Spec == Init /\ [][Next]_vars

-------------------------------------------------------------------------------
(* Properties.                                                             *)

\* Values up to the distinction of signed and unsigned.
RECURSIVE Plain(_)
Plain(j) ==
    CASE j.t = "u" -> [j EXCEPT !.t = "i"]
      [] j.t = "a" -> [j EXCEPT !.v = [i \in DOMAIN j.v |-> Plain(j.v[i])]]
      [] j.t = "o" -> [j EXCEPT !.v = [i \in DOMAIN j.v |->
                           [k |-> j.v[i].k, v |-> Plain(j.v[i].v)]]]
      [] OTHER -> j

\* Position of element n of the array that message i is.
Start(i, n) == Len(FlattenSeq([m \in 1..(i - 1) |-> Unparse(sent[m])]))
               + Len(write_array_header(Len(sent[i].v)))
               + Len(FlattenSeq([m \in 1..(n - 1) |-> Unparse(sent[i].v[m])]))

\* parser goes from element to element of message i, up to the first one that
\* is no number or string.
ElementsFound(i) ==
    LET n == Len(got[i].v)
        w == SelectInSeq(got[i].v, LAMBDA x : x.t \notin {"i", "u", "s"})
    IN  \A k \in 1..(IF w = 0 THEN n ELSE w - 1) :
          \E s \in {Start(i, k)}, x \in {got[i].v[k]} :
          \E next \in {IF x.t = "s" THEN read_Str(wire, s) ELSE read_int(wire, s)} :
             /\ k = 1 => s = skip_array_size(wire, s - Len(write_array_header(n)))
             /\ next = <<x.v, Start(i, k + 1)>>
             /\ wire[s + 1][1] \notin {"int64", "uint64"}
                => skip_primitive(wire, s) = next[2]

\* However the reads cut the bytes, streaming_parser::consume returns the
\* values that were sent, one by one, without a byte of the next message; only
\* an unknown format stops it.  In an array of primitives narrower than 64
\* bits, parser finds each element where it starts, which is what the log
\* relies on when it stores the tail of a put (mtd.cc, onego).
ParsedIsSent ==
    /\ \A i \in DOMAIN got : Plain(got[i]) = Plain(sent[i])
    /\ parser.state = "error" => sent[Len(got) + 1].t = "ext"
    /\ avail = Len(wire) /\ pos = avail /\ ~ done(parser)
       => Len(got) = Len(sent)
    /\ LET i == Len(got)
       IN  i > 0 /\ parser = reset(parser) /\ got[i].t = "a" => ElementsFound(i)
===============================================================================
