----------------------------- MODULE SlotStore -----------------------------
(***************************************************************************)
(* Slot and the command handlers of RedisSession (src/db/values.h): the    *)
(* values of the keys and, apart from them, the times at which they        *)
(* expire.  Expiration is lazy, and only GET looks at it.  HGET changes     *)
(* nothing and is not here.                                                *)
(*                                                                         *)
(* A handler calls Slot once, and waits (for the client to take the reply) *)
(* only after that: a command is one action, however many sessions share   *)
(* the slots of a server whose io_context has one thread.  Sessions store  *)
(* strings only; the maps that HSET and HGET work on are stored by code    *)
(* that calls Slot itself.                                                 *)
(***************************************************************************)
EXTENDS Integers

CONSTANTS
    Name,           \* the keys
    Field, Text,    \* the fields of maps, and the strings
    Ttl,            \* the seconds callers ask for
    MaxTime,        \* bound: the last second
    Absent          \* no value, or no time

StringValue == [type : {"String"}, value : Text]
MapValue == [type : {"Map"}, items : [Field -> Text \cup {Absent}]]
EmptyMap == [type |-> "Map", items |-> [f \in Field |-> Absent]]

ASSUME AbsentAssumption == Absent \notin Int \cup Text \cup StringValue \cup MapValue
ASSUME TimeAssumption == Ttl \subseteq Int /\ MaxTime \in Nat

VARIABLES
    data,               \* data and expiration_times: Absent where the map has no entry
    expiration_times,
    now,                \* steady_clock::now(), in seconds
    timed               \* history: the keys with an EXPIRE after the last DEL, or the GET that
                        \* found the key expired

slotVars == <<data, expiration_times, now, timed>>

SlotInit ==
    /\ data = [k \in Name |-> Absent]
    /\ expiration_times = [k \in Name |-> Absent]
    /\ now = 0
    /\ timed = {}

Expired(k) == expiration_times[k] # Absent /\ now > expiration_times[k]

-----------------------------------------------------------------------------
\* SET, whose time to live, if the key has one from before, goes on.
set_value(k, value) ==
    /\ data' = [data EXCEPT ![k] = value]
    /\ UNCHANGED <<expiration_times, now, timed>>

\* A slip: the value goes, its time stays.
DropValueOnly(k) ==
    /\ data' = [data EXCEPT ![k] = Absent]
    /\ timed' = timed \ {k}
    /\ UNCHANGED expiration_times

Drop(k) ==
    /\ data' = [data EXCEPT ![k] = Absent]
    /\ expiration_times' = [expiration_times EXCEPT ![k] = Absent]
    /\ timed' = timed \ {k}

\* A slip: the entry is dropped as soon as it has a time.
get_valueDropsTimed(k) ==
    /\ IF expiration_times[k] # Absent
       THEN Drop(k)
       ELSE UNCHANGED <<data, expiration_times, timed>>
    /\ UNCHANGED now

\* GET: an expired key is dropped here and nowhere else.
get_value(k) ==
    /\ IF Expired(k)
       THEN Drop(k)
       ELSE UNCHANGED <<data, expiration_times, timed>>
    /\ UNCHANGED now

\* DEL
remove(k) ==
    /\ Drop(k)
    /\ UNCHANGED now

\* EXPIRE, for a key that is there or not.
set_expiration(k, ttl) ==
    /\ expiration_times' = [expiration_times EXCEPT ![k] = now + ttl]
    /\ timed' = timed \cup {k}
    /\ UNCHANGED <<data, now>>

\* HSET, into a map that is there already.
hset(k, f, text) ==
    /\ IF data[k] # Absent /\ data[k].type = "Map"
       THEN data' = [data EXCEPT ![k].items[f] = text]
       ELSE UNCHANGED data
    /\ UNCHANGED <<expiration_times, now, timed>>

Tick ==
    /\ now < MaxTime
    /\ now' = now + 1
    /\ UNCHANGED <<data, expiration_times, timed>>

SlotNext ==
    \/ \E k \in Name :
           \/ \E v \in StringValue \cup {EmptyMap} : set_value(k, v)
           \/ get_value(k)
           \/ remove(k)
           \/ \E ttl \in Ttl : set_expiration(k, ttl)
           \/ \E f \in Field, text \in Text : hset(k, f, text)
    \/ Tick

SlotSpec == SlotInit /\ [][SlotNext]_slotVars

-----------------------------------------------------------------------------
\* What a GET of k would answer now.
Shown(k) == IF Expired(k) THEN Absent ELSE data[k]

SlotTypeOK ==
    /\ data \in [Name -> StringValue \cup MapValue \cup {Absent}]
    /\ expiration_times \in [Name -> Int \cup {Absent}]
    /\ now \in Nat
    /\ timed \subseteq Name

\* Unless somebody gave the key a time since it was last gone, its value never expires: DEL, and
\* a GET that finds the key expired, leave no time behind for the next value.
KeptUnlessTimed == \A k \in Name : k \notin timed => Shown(k) = data[k]

\* A GET changes the answer of no GET, though it deletes; no other command changes the answer
\* for another key, and time only takes values away.
AnswersChange ==
    [][\A k \in Name :
           /\ get_value(k) => \A j \in Name : Shown(j)' = Shown(j)
           /\ Shown(k)' # Shown(k) => \/ \A j \in Name \ {k} : Shown(j)' = Shown(j)
                                      \/ now' > now /\ Shown(k)' = Absent]_slotVars

\* What SET stores is what a GET right after it answers (line 169: set the value of the key).
SetIsShown ==
    [][\A k \in Name, v \in StringValue : set_value(k, v) => Shown(k)' = v]_slotVars
=============================================================================
