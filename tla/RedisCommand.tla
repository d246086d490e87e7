---------------------------- MODULE RedisCommand ----------------------------
(***************************************************************************)
(* The requests of the Redis client (src/redis/redis_asio.hpp) as bytes on *)
(* the wire, and what a reader of the protocol makes of them.              *)
(*                                                                         *)
(* A text is a sequence of symbols.  A byte is a symbol; so is a decimal   *)
(* number, a keyword such as LIMIT, and the * or $ at the head of a line   *)
(* together with its number: how digits are written does not matter here,  *)
(* and each counts for one byte.  CR and LF are bytes like others, in the  *)
(* texts of the callers too.                                               *)
(***************************************************************************)
EXTENDS Integers, Sequences, SequencesExt

CONSTANTS
    Words,          \* the texts of the callers: keys, values, members, bounds
    Numbers,        \* the integers of the callers
    MaxList         \* bound: the length of their vectors and maps

ASSUME WordsAssumption ==
    LET bytes == UNION {ToSet(w) : w \in Words}
    IN  Words \subseteq Seq(bytes) /\ \A b \in bytes : b[1] = "byte"
ASSUME NumbersAssumption == Numbers \subseteq Int /\ MaxList \in Nat

VARIABLES
    request,        \* the command, its parts and its options
    wire            \* what generate_command returns for it

requestVars == <<request, wire>>

Byte(b) == <<"byte", b>>
CRLF == <<Byte("CR"), Byte("LF")>>
Keyword(k) == <<<<"keyword", k>>>>
to_string(n) == <<<<"number", n>>>>

-----------------------------------------------------------------------------
(* generate_command.                                                       *)

NoOptions == [nx |-> FALSE, xx |-> FALSE, ex |-> -1, px |-> -1]
SetOptions == [nx : BOOLEAN, xx : BOOLEAN, ex : Numbers, px : Numbers]

When(condition, parts) == IF condition THEN parts ELSE <<>>

OptionParts(o) ==
    When(o.nx, <<Keyword("NX")>>) \o When(o.xx, <<Keyword("XX")>>)
        \o When(o.ex # -1, <<Keyword("EX"), to_string(o.ex)>>)
        \o When(o.px # -1, <<Keyword("PX"), to_string(o.px)>>)

all_parts(r) == <<Keyword(r.command)>> \o r.parts \o OptionParts(r.options)

Bulk(text) == <<<<"$", Len(text)>>>> \o CRLF \o text \o CRLF

\* A slip: the parts are counted before the options are added.
generate_commandCountsFirst(r) ==
    <<<<"*", 1 + Len(r.parts)>>>> \o CRLF
        \o FlattenSeq([i \in DOMAIN all_parts(r) |-> Bulk(all_parts(r)[i])])

generate_command(r) ==
    <<<<"*", Len(all_parts(r))>>>> \o CRLF
        \o FlattenSeq([i \in DOMAIN all_parts(r) |-> Bulk(all_parts(r)[i])])

-----------------------------------------------------------------------------
(* What the functions of the namespaces pass to it.                        *)

Lists == UNION {[1..n -> Words] : n \in 0..MaxList}
Maps == {l \in UNION {[1..n -> Words \X Words] : n \in 0..MaxList} :
            \A i, j \in DOMAIN l : l[i][1] = l[j][1] => i = j}
Flat(pairs) == FlattenSeq(pairs)
Swapped(pairs) == [i \in DOMAIN pairs |-> <<to_string(i), pairs[i][1]>>]

Commands(names, parts) == [command : names, parts : parts, options : {NoOptions}]
Fixed(n) == [1..n -> Words]
KeyAnd(lists) == {Cons(k, l) : k \in Words, l \in lists}
AsTexts(x) == [i \in DOMAIN x |-> to_string(x[i])]
AndWord(lists) == {Append(l, w) : l \in lists, w \in Words}
WithNumbers(n) == {Cons(k, AsTexts(x)) : k \in Words, x \in [1..n -> Numbers]}

ConnectionRequests == Commands({"PING"}, {<<>>}) \cup Commands({"AUTH"}, Fixed(1))

StringRequests ==
    [command : {"SET"}, parts : Fixed(2), options : SetOptions]
        \cup Commands({"GET", "INCR", "DECR", "STRLEN"}, Fixed(1))
        \cup Commands({"APPEND"}, Fixed(2))
        \cup Commands({"MGET"}, Lists)
        \cup Commands({"MSET"}, {Flat(m) : m \in Maps})
        \cup Commands({"INCRBY", "DECRBY"}, WithNumbers(1))

HashRequests ==
    Commands({"HSET"}, KeyAnd({Flat(m) : m \in Maps}))
        \cup Commands({"HGET"}, Fixed(2))
        \cup Commands({"HGETALL", "HLEN", "HKEYS", "HVALS"}, Fixed(1))
        \cup Commands({"HDEL", "HMGET"}, KeyAnd(Lists))

ListRequests ==
    Commands({"LPUSH", "RPUSH"}, KeyAnd(Lists))
        \cup Commands({"LRANGE"}, WithNumbers(2))
        \cup Commands({"LLEN", "LPOP", "RPOP"}, Fixed(1))

SetRequests ==
    Commands({"SADD", "SREM"}, KeyAnd(Lists))
        \cup Commands({"SMEMBERS"}, Fixed(1)) \cup Commands({"SISMEMBER"}, Fixed(2))
        \cup Commands({"SDIFF", "SINTER", "SUNION"}, Lists)

Ranged(parts) == {p \o s : p \in parts, s \in {<<>>, <<Keyword("WITHSCORES")>>}}
Limit(offset, count) ==
    When(offset # -1 /\ count # -1, <<Keyword("LIMIT"), to_string(offset), to_string(count)>>)
Limited(parts) ==
    {p \o Limit(offset, count) : p \in parts, offset \in Numbers, count \in Numbers}

\* ZADD puts the score before its member; a score is its member's place here.
SortedSetRequests ==
    Commands({"ZADD"}, KeyAnd({Flat(Swapped(m)) : m \in Maps}))
        \cup Commands({"ZRANGE", "ZREVRANGE"}, Ranged(WithNumbers(2)))
        \cup Commands({"ZCARD"}, Fixed(1)) \cup Commands({"ZSCORE"}, Fixed(2))
        \cup Commands({"ZREM"}, KeyAnd(Lists))
        \cup Commands({"ZRANGEBYSCORE", "ZREVRANGEBYSCORE"}, Limited(Ranged(Fixed(3))))
        \cup Commands({"ZCOUNT"}, Fixed(3))

KeyRequests ==
    Commands({"DEL", "EXISTS"}, Lists)
        \cup Commands({"RENAME", "RENAMENX"}, Fixed(2))
        \cup Commands({"EXPIRE"}, WithNumbers(1)) \cup Commands({"PERSIST"}, Fixed(1))

PubSubRequests ==
    Commands({"SUBSCRIBE", "UNSUBSCRIBE"}, Lists) \cup Commands({"PUBLISH"}, Fixed(2))

XReadParts(count, streams, ids) ==
    When(count # -1, <<Keyword("COUNT"), to_string(count)>>) \o <<Keyword("STREAMS")>> \o streams \o ids

Additions == {p \o l : p \in Fixed(2), l \in Lists}
Reads == {XReadParts(n, s, ids) : n \in Numbers, s \in Lists, ids \in Lists}

StreamRequests ==
    Commands({"XADD"}, Additions) \cup Commands({"XREAD"}, Reads)
        \cup Commands({"XLEN"}, Fixed(1))

GeoRequests ==
    Commands({"GEOADD"}, AndWord(WithNumbers(2)))
        \cup Commands({"GEODIST"}, Fixed(4))
        \cup Commands({"GEORADIUS"}, AndWord(WithNumbers(3)))

ClientRequests ==
    ConnectionRequests \cup StringRequests \cup HashRequests \cup ListRequests
        \cup SetRequests \cup SortedSetRequests \cup KeyRequests \cup PubSubRequests
        \cup StreamRequests \cup GeoRequests

RequestInit == request \in ClientRequests /\ wire = <<>>

Generate ==
    /\ wire = <<>>
    /\ wire' = generate_command(request)
    /\ UNCHANGED request

RequestSpec == RequestInit /\ [][Generate]_requestVars

-----------------------------------------------------------------------------
\* What a reader of the protocol gets: as many parts as the first line says, each as long as
\* its line says, and what is left of the bytes after them.
Read(bytes) ==
    LET Starts(pos) == pos + 2 < Len(bytes) /\ bytes[pos][1] = "$"
        text(pos) == SubSeq(bytes, pos + 3, pos + 2 + bytes[pos][2])
        readUpTo[n \in 0..bytes[1][2]] ==
            IF n = 0 THEN [pos |-> 4, parts |-> <<>>]
            ELSE LET before == readUpTo[n - 1]
                 IN  IF ~Starts(before.pos) THEN before
                     ELSE [pos |-> before.pos + 5 + bytes[before.pos][2],
                           parts |-> Append(before.parts, text(before.pos))]
        all == readUpTo[bytes[1][2]]
    IN  [parts |-> all.parts, rest |-> SubSeq(bytes, all.pos, Len(bytes))]

-----------------------------------------------------------------------------
\* Every request is read back as its command, parts and options, with nothing left over,
\* whatever bytes are in the texts, line ends and nothing at all among them.
ReadsBack == wire # <<>> => Read(wire) = [parts |-> all_parts(request), rest |-> <<>>]
=============================================================================
