---------------------------- MODULE RecencyCache ----------------------------
(***************************************************************************)
(* What the embedding client's cache promises: the values of the Capacity   *)
(* keys that were used last, each the one that was put last.  A key has at  *)
(* most one entry: only Add makes one, of a key that has none.              *)
(***************************************************************************)
EXTENDS Naturals, SequencesExt

CONSTANTS Keys, Values, Capacity

VARIABLE recent     \* entries <<key, value>>, the most recently used first

Init == recent = <<>>

Get(k) ==
    \E i \in DOMAIN recent :
       /\ recent[i][1] = k
       /\ recent' = <<recent[i]>> \o RemoveAt(recent, i)

Renew(k, v) ==
    \E i \in DOMAIN recent :
       /\ recent[i][1] = k
       /\ recent' = <<<<k, v>>>> \o RemoveAt(recent, i)

Add(k, v) ==
    LET entries == <<<<k, v>>>> \o recent
    IN  /\ \A i \in DOMAIN recent : recent[i][1] # k
        /\ recent' = IF Len(entries) > Capacity THEN SubSeq(entries, 1, Capacity) ELSE entries

Put(k, v) == Renew(k, v) \/ Add(k, v)

Next == \E k \in Keys : Get(k) \/ \E v \in Values : Put(k, v)

Spec == Init /\ [][Next]_recent
=============================================================================
