------------------------------ MODULE Embedding ------------------------------
(***************************************************************************)
(* pkg/clients/embedding/client.go: requests for vectors that share a cache *)
(* and a service.  A request looks its texts up one by one, asks the service *)
(* for the others in batches, again when a call fails, and puts the vectors  *)
(* one by one into the cache: other requests run in between.  The vector of  *)
(* a text is the text itself, Nil is the nil slice.                         *)
(*                                                                         *)
(* The service is taken to answer in the order of the texts, as the client   *)
(* does not look at the index of a vector; it may answer with fewer.         *)
(***************************************************************************)
EXTENDS LRUCache, Sequences

CONSTANTS
    Clients,        \* concurrent callers
    TextLists,      \* the lists of texts they ask for
    MaxBatchSize,
    MaxRetries,
    MaxFaults,      \* bound on failed and short answers
    MaxRequests     \* bound on the requests

ASSUME EmbeddingAssumption ==
    /\ TextLists \subseteq Seq(Keys)
    /\ MaxBatchSize \in Nat \ {0}
    /\ MaxRetries \in Nat \ {0}
    /\ MaxFaults \in Nat
    /\ MaxRequests \in Nat

VARIABLES
    pc,         \* of each client: idle, lookup, request, fill, answered, failed
    texts,      \* what it asks for
    position,   \* how many of its texts it has looked up
    result,     \* the vectors so far
    needRequest,\* positions that were not in the cache
    from,       \* how many of them are behind the current batch
    embeddings, \* the service's answer
    filled,     \* how many of its vectors are put
    attempt,    \* failed calls for the current batch
    short,      \* the service left out vectors
    queryCount, ingestCount,
    faults

local == <<pc, texts, position, result, needRequest, from, embeddings, filled, attempt, short>>
metrics == <<queryCount, ingestCount>>
vars == <<lru, local, metrics, faults>>

Init ==
    /\ LRUInit
    /\ pc = [c \in Clients |-> "idle"]
    /\ texts = [c \in Clients |-> <<>>]
    /\ position = [c \in Clients |-> 0]
    /\ result = [c \in Clients |-> <<>>]
    /\ needRequest = [c \in Clients |-> <<>>]
    /\ from = [c \in Clients |-> 0]
    /\ embeddings = [c \in Clients |-> <<>>]
    /\ filled = [c \in Clients |-> 0]
    /\ attempt = [c \in Clients |-> 0]
    /\ short = [c \in Clients |-> FALSE]
    /\ queryCount = 0
    /\ ingestCount = 0
    /\ faults = 0
-----------------------------------------------------------------------------
\* The call; an empty list is refused.  What the last one left is overwritten.
GetTextEmbeddingBatch(c, list) ==
    /\ pc[c] \in {"idle", "answered", "failed"}
    /\ queryCount < MaxRequests
    /\ list # <<>>
    /\ pc' = [pc EXCEPT ![c] = "lookup"]
    /\ texts' = [texts EXCEPT ![c] = list]
    /\ position' = [position EXCEPT ![c] = 0]
    /\ result' = [result EXCEPT ![c] = [i \in DOMAIN list |-> Nil]]
    /\ needRequest' = [needRequest EXCEPT ![c] = <<>>]
    /\ from' = [from EXCEPT ![c] = 0]
    /\ embeddings' = [embeddings EXCEPT ![c] = <<>>]
    /\ filled' = [filled EXCEPT ![c] = 0]
    /\ attempt' = [attempt EXCEPT ![c] = 0]
    /\ short' = [short EXCEPT ![c] = FALSE]
    /\ queryCount' = queryCount + 1
    /\ UNCHANGED <<lru, ingestCount, faults>>

LookUp(c) ==
    LET i == position[c] + 1
        text == texts[c][i]
    IN  /\ pc[c] = "lookup"
        /\ position[c] < Len(texts[c])
        /\ Get(text)
        /\ position' = [position EXCEPT ![c] = i]
        /\ IF text \in cache
           THEN /\ result' = [result EXCEPT ![c][i] = value[text]]
                /\ UNCHANGED needRequest
           ELSE /\ needRequest' = [needRequest EXCEPT ![c] = Append(@, i)]
                /\ UNCHANGED result
        /\ UNCHANGED <<pc, texts, from, embeddings, filled, attempt, short, metrics, faults>>

FaultyNextBatch(c) ==  \* passes over a last batch that is not full
    /\ pc[c] = "lookup"
    /\ position[c] = Len(texts[c])
    /\ IF from[c] + MaxBatchSize <= Len(needRequest[c])
       THEN pc' = [pc EXCEPT ![c] = "request"] /\ UNCHANGED ingestCount
       ELSE /\ pc' = [pc EXCEPT ![c] = "answered"]
            /\ ingestCount' = ingestCount + Len(needRequest[c])
    /\ UNCHANGED <<lru, texts, position, result, needRequest, from, embeddings, filled,
                   attempt, short, queryCount, faults>>

\* The loop over the batches, or the end of it.
NextBatch(c) ==
    /\ pc[c] = "lookup"
    /\ position[c] = Len(texts[c])
    /\ IF from[c] < Len(needRequest[c])
       THEN pc' = [pc EXCEPT ![c] = "request"] /\ UNCHANGED ingestCount
       ELSE /\ pc' = [pc EXCEPT ![c] = "answered"]
            /\ ingestCount' = ingestCount + Len(needRequest[c])
    /\ UNCHANGED <<lru, texts, position, result, needRequest, from, embeddings, filled,
                   attempt, short, queryCount, faults>>

BatchEnd(c) == IF from[c] + MaxBatchSize > Len(needRequest[c]) THEN Len(needRequest[c])
               ELSE from[c] + MaxBatchSize
Batch(c) == SubSeq(needRequest[c], from[c] + 1, BatchEnd(c))
BatchTexts(c) == [j \in DOMAIN Batch(c) |-> texts[c][Batch(c)[j]]]

Fault == faults < MaxFaults /\ faults' = faults + 1

\* getTextEmbeddingBatchOnce has its answer.
Answer(c) ==
    /\ pc[c] = "request"
    /\ \E n \in 0..Len(Batch(c)) :
       /\ embeddings' = [embeddings EXCEPT ![c] = SubSeq(BatchTexts(c), 1, n)]
       /\ IF n < Len(Batch(c))
          THEN Fault /\ short' = [short EXCEPT ![c] = TRUE]
          ELSE UNCHANGED <<short, faults>>
    /\ filled' = [filled EXCEPT ![c] = 0]
    /\ attempt' = [attempt EXCEPT ![c] = 0]
    /\ pc' = [pc EXCEPT ![c] = "fill"]
    /\ UNCHANGED <<lru, texts, position, result, needRequest, from, metrics>>

\* A call fails; after MaxRetries of them the request does.
Fail(c) ==
    /\ pc[c] = "request"
    /\ Fault
    /\ attempt' = [attempt EXCEPT ![c] = @ + 1]
    /\ pc' = [pc EXCEPT ![c] = IF attempt[c] + 1 < MaxRetries THEN "request" ELSE "failed"]
    /\ UNCHANGED <<lru, texts, position, result, needRequest, from, embeddings, filled,
                   short, metrics>>

FaultyFill(c) ==  \* puts a batch's vectors at the first positions of the request
    LET j == filled[c] + 1
        i == needRequest[c][j]
    IN  /\ pc[c] = "fill"
        /\ filled[c] < Len(embeddings[c])
        /\ result' = [result EXCEPT ![c][i] = embeddings[c][j]]
        /\ Put(texts[c][i], embeddings[c][j])
        /\ filled' = [filled EXCEPT ![c] = j]
        /\ UNCHANGED <<pc, texts, position, needRequest, from, embeddings, attempt, short,
                       metrics, faults>>

\* One vector of the answer goes to its position and into the cache.
Fill(c) ==
    LET j == filled[c] + 1
        i == Batch(c)[j]
    IN  /\ pc[c] = "fill"
        /\ filled[c] < Len(embeddings[c])
        /\ result' = [result EXCEPT ![c][i] = embeddings[c][j]]
        /\ Put(texts[c][i], embeddings[c][j])
        /\ filled' = [filled EXCEPT ![c] = j]
        /\ UNCHANGED <<pc, texts, position, needRequest, from, embeddings, attempt, short,
                       metrics, faults>>

FaultyEndBatch(c) ==  \* asks for the same batch again
    /\ pc[c] = "fill"
    /\ filled[c] = Len(embeddings[c])
    /\ pc' = [pc EXCEPT ![c] = "lookup"]
    /\ UNCHANGED <<lru, texts, position, result, needRequest, from, embeddings, filled,
                   attempt, short, metrics, faults>>

EndBatch(c) ==
    /\ pc[c] = "fill"
    /\ filled[c] = Len(embeddings[c])
    /\ from' = [from EXCEPT ![c] = @ + Len(Batch(c))]
    /\ pc' = [pc EXCEPT ![c] = "lookup"]
    /\ UNCHANGED <<lru, texts, position, result, needRequest, embeddings, filled, attempt,
                   short, metrics, faults>>

Continue(c) ==
    LookUp(c) \/ NextBatch(c) \/ Answer(c) \/ Fail(c) \/ Fill(c) \/ EndBatch(c)

Next ==
    \/ \E c \in Clients, list \in TextLists : GetTextEmbeddingBatch(c, list)
    \/ \E c \in Clients : Continue(c)

Spec == Init /\ [][Next]_vars

\* A goroutine that can go on does, and the service answers or fails in the end.
FairSpec == Spec /\ \A c \in Clients : WF_vars(Continue(c))
-----------------------------------------------------------------------------
(* Every vector of an answer is that of the text it was asked for, whatever *)
(* other requests put and evict between the look-ups and the answer; a nil  *)
(* vector is left, without an error, only where the service left one out.   *)
AnswersMatchTexts ==
    \A c \in Clients : pc[c] = "answered" =>
        \A i \in DOMAIN texts[c] :
            \/ result[c][i] = texts[c][i]
            \/ result[c][i] = Nil /\ short[c]

(* The cache never holds the vector of another text, nor a nil vector.      *)
CacheHoldsTrueVectors == \A k \in cache : value[k] = k

(* The linked list is a cache of the most recently used keys: each step of   *)
(* any request is a look-up or a put of the abstract cache, or leaves it.    *)
Abstract == INSTANCE RecencyCache WITH Values <- Keys, recent <- Recent
KeepsMostRecent == Abstract!Spec

(* Every request is answered or fails, for any interleaving and failures.    *)
RequestsEnd == \A c \in Clients : pc[c] = "lookup" ~> pc[c] \in {"answered", "failed"}
=============================================================================
