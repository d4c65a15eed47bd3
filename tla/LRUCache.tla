------------------------------ MODULE LRUCache ------------------------------
(***************************************************************************)
(* LRUCache of pkg/clients/embedding/client.go: a map of nodes and a doubly *)
(* linked list between two sentinels, the most recently used at the head.   *)
(* Each operation is one critical section of lru.mu.  A node is its key.     *)
(***************************************************************************)
EXTENDS Naturals, FiniteSets

CONSTANTS Keys, Capacity, HeadNode, TailNode, Nil

ASSUME CacheAssumption ==
    /\ Capacity \in Nat \ {0}
    /\ HeadNode \notin Keys /\ TailNode \notin Keys /\ Nil \notin Keys
    /\ HeadNode # TailNode

VARIABLES
    cache,      \* the keys of the map
    value,      \* the vectors of the nodes
    next, prev  \* the links

lru == <<cache, value, next, prev>>
Nodes == Keys \cup {HeadNode, TailNode}

LRUInit ==
    /\ cache = {}
    /\ value = [k \in Keys |-> Nil]
    /\ next = [n \in Nodes |-> IF n = HeadNode THEN TailNode ELSE Nil]
    /\ prev = [n \in Nodes |-> IF n = TailNode THEN HeadNode ELSE Nil]

(* The links of a list after each of its operations. *)
List == [next |-> next, prev |-> prev]

AddToHead(l, n) ==
    [next |-> [l.next EXCEPT ![n] = l.next[HeadNode], ![HeadNode] = n],
     prev |-> [l.prev EXCEPT ![n] = HeadNode, ![l.next[HeadNode]] = n]]

RemoveNode(l, n) ==
    [next |-> [l.next EXCEPT ![l.prev[n]] = l.next[n]],
     prev |-> [l.prev EXCEPT ![l.next[n]] = l.prev[n]]]

MoveToHead(l, n) == AddToHead(RemoveNode(l, n), n)

FaultyOldest(l) == l.next[l.next[HeadNode]]  \* the one that was the newest
Oldest(l) == l.prev[TailNode]

LinksAre(l) == next' = l.next /\ prev' = l.prev

Get(k) ==
    /\ IF k \in cache THEN LinksAre(MoveToHead(List, k)) ELSE UNCHANGED <<next, prev>>
    /\ UNCHANGED <<cache, value>>

Put(k, v) ==
    LET added == AddToHead(List, k)
        last == Oldest(added)
        full == Cardinality(cache \cup {k}) > Capacity
    IN  /\ value' = [value EXCEPT ![k] = v]
        /\ LinksAre(IF k \in cache THEN MoveToHead(List, k)
                    ELSE IF full THEN RemoveNode(added, last) ELSE added)
        /\ cache' = (cache \cup {k}) \ (IF full THEN {last} ELSE {})

(* The list, from the head. *)
walk[i \in 0..Cardinality(cache)] == IF i = 0 THEN HeadNode ELSE next[walk[i - 1]]

Order == [i \in 1..Cardinality(cache) |-> walk[i]]
Recent == [i \in 1..Cardinality(cache) |-> <<Order[i], value[Order[i]]>>]
=============================================================================
