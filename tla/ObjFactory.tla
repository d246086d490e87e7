----------------------------- MODULE ObjFactory -----------------------------
(***************************************************************************)
(* objfactory (test/raft/objfactory.h): one object for each id, made when  *)
(* it is first asked for, and removed by the deleter of its last           *)
(* reference.                                                              *)
(*                                                                         *)
(* Get and RemoveObj hold the mutex.  The last reference is released       *)
(* without it: until its RemoveObj has the mutex an object is expired and  *)
(* still in the map, and Get may put another one in its place.             *)
(***************************************************************************)
EXTENDS Integers, FiniteSets

CONSTANTS
    Id,
    MaxObjects,     \* bound: the objects ever made
    MaxRefs         \* bound: the references to one object

ASSUME IdAssumption == Id # {}
ASSUME ObjectsAssumption == MaxObjects \in Nat /\ MaxRefs \in Nat \ {0}

Object == 1..MaxObjects
NoObject == 0

VARIABLES
    m_map,          \* the object of each id, expired or not; NoObject where there is no entry
    m_set,
    key,            \* the id of each object
    refs,           \* how many references there are to it
    life            \* "unmade", "made" or "deleted"

factoryVars == <<m_map, m_set, key, refs, life>>

FactoryInit ==
    /\ m_map = [id \in Id |-> NoObject]
    /\ m_set = {}
    /\ key = [o \in Object |-> CHOOSE id \in Id : TRUE]
    /\ refs = [o \in Object |-> 0]
    /\ life = [o \in Object |-> "unmade"]

Alive == {o \in Object : refs[o] > 0}
expired(o) == o \notin Alive

\* Get finds the object of the id alive.
GetThere(id) ==
    /\ ~expired(m_map[id]) /\ refs[m_map[id]] < MaxRefs
    /\ refs' = [refs EXCEPT ![m_map[id]] = @ + 1]
    /\ UNCHANGED <<m_map, m_set, key, life>>

\* Get finds no entry, or one whose object is expired, and makes a new object.
GetNew(id) ==
    /\ expired(m_map[id])
    /\ \E o \in Object :
           /\ life[o] = "unmade"
           /\ life' = [life EXCEPT ![o] = "made"]
           /\ key' = [key EXCEPT ![o] = id]
           /\ refs' = [refs EXCEPT ![o] = 1]
           /\ m_map' = [m_map EXCEPT ![id] = o]
    /\ m_set' = m_set \cup {id}

\* A holder lets go of its reference.  Nobody has the mutex.
Release(o) ==
    /\ refs[o] > 0
    /\ refs' = [refs EXCEPT ![o] = @ - 1]
    /\ UNCHANGED <<m_map, m_set, key, life>>

\* A slip: the entry is not looked at again.
RemoveObjUnchecked(o) ==
    /\ life[o] = "made" /\ refs[o] = 0
    /\ m_map' = [m_map EXCEPT ![key[o]] = NoObject]
    /\ m_set' = m_set \ {key[o]}
    /\ life' = [life EXCEPT ![o] = "deleted"]
    /\ UNCHANGED <<key, refs>>

\* A slip: the id stays in the set.
RemoveObjKeepsKey(o) ==
    /\ life[o] = "made" /\ refs[o] = 0
    /\ m_map' = IF expired(m_map[key[o]]) THEN [m_map EXCEPT ![key[o]] = NoObject] ELSE m_map
    /\ life' = [life EXCEPT ![o] = "deleted"]
    /\ UNCHANGED <<m_set, key, refs>>

\* The deleter of the last reference: whoever replaced the object keeps its entry.
RemoveObj(o) ==
    /\ life[o] = "made" /\ refs[o] = 0
    /\ IF m_map[key[o]] # NoObject /\ expired(m_map[key[o]])
       THEN /\ m_map' = [m_map EXCEPT ![key[o]] = NoObject]
            /\ m_set' = m_set \ {key[o]}
       ELSE UNCHANGED <<m_map, m_set>>
    /\ life' = [life EXCEPT ![o] = "deleted"]
    /\ UNCHANGED <<key, refs>>

FactoryNext ==
    \/ \E id \in Id : GetThere(id) \/ GetNew(id)
    \/ \E o \in Object : Release(o) \/ RemoveObj(o)

FactorySpec == FactoryInit /\ [][FactoryNext]_factoryVars

-----------------------------------------------------------------------------
FactoryTypeOK ==
    /\ m_map \in [Id -> Object \cup {NoObject}]
    /\ m_set \subseteq Id
    /\ key \in [Object -> Id]
    /\ refs \in [Object -> Nat]
    /\ life \in [Object -> {"unmade", "made", "deleted"}]

Dying == {o \in Object : life[o] = "made" /\ refs[o] = 0}

\* Whoever asks for an id gets the same object: no two of one id are alive, though an object is
\* replaced before its deleter has removed it.
OneAlive == \A o, p \in Alive : key[o] = key[p] => o = p

\* The ids handed out by GetAllObjKey, whose number the servers use (raft.cc:277, 425), are
\* those of the objects alive, and of expired ones whose deleter is still to come.
KeysAreTheirs ==
    /\ {key[o] : o \in Alive} \subseteq m_set
    /\ m_set \subseteq {key[o] : o \in Alive \cup Dying}
    /\ m_set = {id \in Id : m_map[id] # NoObject}
=============================================================================
