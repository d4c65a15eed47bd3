--------------------------- MODULE EmbeddingProofs ---------------------------
(***************************************************************************)
(* Proofs about Embedding, for any clients, lists of texts, capacity, batch  *)
(* size and number of failures: the cache holds true vectors, an answer the  *)
(* vectors of the texts it was asked for, and the cache keeps the texts used *)
(* last.  A request is followed position by position: what it has looked up  *)
(* is found, waits behind the vectors taken so far, or was left out by the   *)
(* service.  The linked list is followed link by link: read from its head it *)
(* is the sequence of RecencyCache.                                          *)
(***************************************************************************)
EXTENDS Embedding, SequenceTheorems, FiniteSetTheorems, WellFoundedInduction, TLAPS

States == {"idle", "lookup", "request", "fill", "answered", "failed"}

Types ==
    /\ cache \subseteq Keys
    /\ value \in [Keys -> Keys \cup {Nil}]
    /\ pc \in [Clients -> States]
    /\ texts \in [Clients -> Seq(Keys)]
    /\ position \in [Clients -> Nat]
    /\ result \in [Clients -> Seq(Keys \cup {Nil})]
    /\ needRequest \in [Clients -> Seq(Nat)]
    /\ from \in [Clients -> Nat]
    /\ embeddings \in [Clients -> Seq(Keys)]
    /\ filled \in [Clients -> Nat]
    /\ attempt \in [Clients -> Nat]
    /\ short \in [Clients -> BOOLEAN]

(* How far a request has come. *)
InRange(c) ==
    /\ Len(result[c]) = Len(texts[c])
    /\ position[c] <= Len(texts[c])
    /\ \A j \in 1..Len(needRequest[c]) : needRequest[c][j] \in 1..Len(texts[c])
    /\ from[c] <= Len(needRequest[c])
    /\ pc[c] = "lookup" /\ position[c] < Len(texts[c]) => from[c] = 0
    /\ pc[c] \in {"request", "fill", "answered"} => position[c] = Len(texts[c])
    /\ pc[c] \in {"request", "fill"} => from[c] < Len(needRequest[c])
    /\ pc[c] = "answered" => from[c] = Len(needRequest[c])

TrueResult(c) == \A i \in 1..Len(texts[c]) : result[c][i] \in {texts[c][i], Nil}

(* The vectors of the answer that is being put are those of the batch. *)
TrueAnswer(c) ==
    pc[c] = "fill" =>
        /\ from[c] + Len(embeddings[c]) <= BatchEnd(c)
        /\ short[c] \/ from[c] + Len(embeddings[c]) = BatchEnd(c)
        /\ filled[c] <= Len(embeddings[c])
        /\ \A j \in 1..Len(embeddings[c]) :
              embeddings[c][j] = texts[c][needRequest[c][from[c] + j]]

Behind(c) == IF pc[c] = "fill" THEN from[c] + filled[c] ELSE from[c]

Accounted(c) ==
    \A i \in 1..position[c] :
        \/ result[c][i] = texts[c][i]
        \/ short[c]
        \/ \E j \in (Behind(c) + 1)..Len(needRequest[c]) : needRequest[c][j] = i

Request(c) == InRange(c) /\ TrueResult(c) /\ TrueAnswer(c) /\ Accounted(c)

IInv ==
    /\ Types
    /\ CacheHoldsTrueVectors
    /\ \A c \in Clients : Request(c)
-----------------------------------------------------------------------------
(* A client moves and the others keep what they have. *)
Kept(d) ==
    /\ pc'[d] = pc[d]
    /\ texts'[d] = texts[d]
    /\ position'[d] = position[d]
    /\ result'[d] = result[d]
    /\ needRequest'[d] = needRequest[d]
    /\ from'[d] = from[d]
    /\ embeddings'[d] = embeddings[d]
    /\ filled'[d] = filled[d]
    /\ short'[d] = short[d]

LEMMA OneMoves ==
    ASSUME IInv, NEW c \in Clients, Types', CacheHoldsTrueVectors', Request(c)',
           \A d \in Clients \ {c} : Kept(d)
    PROVE  IInv'
  <1>1. ASSUME NEW d \in Clients, Kept(d), Request(d)
        PROVE  Request(d)'
    <2>1. InRange(d)' /\ TrueResult(d)'
      BY <1>1 DEF Kept, Request, InRange, TrueResult
    <2>2. TrueAnswer(d)'
      BY <1>1 DEF Kept, Request, TrueAnswer, BatchEnd
    <2>3. Accounted(d)'
      BY <1>1 DEF Kept, Request, Accounted, Behind
    <2> QED BY <2>1, <2>2, <2>3 DEF Request
  <1>2. \A d \in Clients : Request(d)'
    BY <1>1 DEF IInv
  <1> QED BY <1>2 DEF IInv

ClientTyped(c) ==
    /\ pc[c] \in States /\ texts[c] \in Seq(Keys) /\ position[c] \in Nat
    /\ result[c] \in Seq(Keys \cup {Nil}) /\ needRequest[c] \in Seq(Nat)
    /\ from[c] \in Nat /\ embeddings[c] \in Seq(Keys) /\ filled[c] \in Nat
    /\ attempt[c] \in Nat /\ short[c] \in BOOLEAN
    /\ Len(texts[c]) \in Nat /\ Len(needRequest[c]) \in Nat
    /\ Len(embeddings[c]) \in Nat /\ Len(result[c]) \in Nat

LEMMA ClientTypes ==
    ASSUME Types, NEW c \in Clients
    PROVE  ClientTyped(c)
  BY DEF Types, ClientTyped

(* The batch that is asked for is the next part of what was not in the cache. *)
LEMMA BatchIs ==
    ASSUME Types, NEW c \in Clients, from[c] < Len(needRequest[c])
    PROVE  /\ BatchEnd(c) \in (from[c] + 1)..Len(needRequest[c])
           /\ Len(Batch(c)) = BatchEnd(c) - from[c]
           /\ DOMAIN Batch(c) = 1..(BatchEnd(c) - from[c])
           /\ \A j \in 1..(BatchEnd(c) - from[c]) : Batch(c)[j] = needRequest[c][from[c] + j]
  <1>0. ClientTyped(c)
    BY ClientTypes
  <1>1. from[c] \in Nat /\ needRequest[c] \in Seq(Nat) /\ Len(needRequest[c]) \in Nat
    BY <1>0 DEF ClientTyped
  <1>2. BatchEnd(c) \in (from[c] + 1)..Len(needRequest[c])
    BY <1>1, EmbeddingAssumption DEF BatchEnd
  <1>3. \A i \in (from[c] + 1)..BatchEnd(c) : needRequest[c][i] \in Nat
    BY <1>1, <1>2
  <1>4. /\ Batch(c) \in Seq(Nat)
        /\ Len(Batch(c)) = BatchEnd(c) - from[c]
        /\ \A j \in 1..(BatchEnd(c) - from[c]) : Batch(c)[j] = needRequest[c][from[c] + j]
    <2> DEFINE m == from[c] + 1
               n == BatchEnd(c)
               s == needRequest[c]
    <2>1. m \in Int /\ n \in Int /\ \A i \in m..n : s[i] \in Nat
      BY <1>1, <1>2, <1>3
    <2>3. Batch(c) = SubSeq(s, m, n) /\ n - m + 1 = n - from[c] /\ m <= n
      BY <1>1, <1>2 DEF Batch
    <2>4. \A i \in 1..(n - from[c]) : m + i - 1 = from[c] + i
      BY <1>1, <1>2
    <2> HIDE DEF m, n, s
    <2>2. /\ SubSeq(s, m, n) \in Seq(Nat)
          /\ Len(SubSeq(s, m, n)) = IF m <= n THEN n - m + 1 ELSE 0
          /\ \A i \in 1..(n - m + 1) : SubSeq(s, m, n)[i] = s[m + i - 1]
      BY <2>1, SubSeqProperties
    <2> QED BY <2>2, <2>3, <2>4 DEF n, s
  <1> QED BY <1>2, <1>4
-----------------------------------------------------------------------------
(* The steps. *)
LEMMA CallStep ==
    ASSUME IInv, NEW c \in Clients, NEW list \in TextLists, GetTextEmbeddingBatch(c, list)
    PROVE  IInv'
  <1> USE DEF IInv
  <1>0. ClientTyped(c)
    BY ClientTypes
  <1>1. list \in Seq(Keys) /\ Len(list) \in Nat /\ DOMAIN list = 1..Len(list)
    BY EmbeddingAssumption
  <1>2. /\ [i \in DOMAIN list |-> Nil] \in Seq(Keys \cup {Nil})
        /\ Len([i \in DOMAIN list |-> Nil]) = Len(list)
        /\ <<>> \in Seq(Nat) /\ <<>> \in Seq(Keys) /\ Len(<<>>) = 0
    BY <1>1
  <1>3. Types'
    BY <1>1, <1>2 DEF Types, GetTextEmbeddingBatch, lru, States
  <1>4. \A d \in Clients \ {c} : Kept(d)
    BY DEF Types, GetTextEmbeddingBatch, Kept
  <1>5. /\ pc'[c] = "lookup" /\ texts'[c] = list /\ position'[c] = 0
        /\ result'[c] = [i \in DOMAIN list |-> Nil] /\ needRequest'[c] = <<>>
        /\ from'[c] = 0
    BY DEF Types, GetTextEmbeddingBatch
  <1>6. Request(c)'
    BY <1>1, <1>2, <1>5 DEF Request, InRange, TrueResult, TrueAnswer, Accounted
  <1>7. CacheHoldsTrueVectors'
    BY DEF CacheHoldsTrueVectors, GetTextEmbeddingBatch, lru
  <1> QED BY <1>3, <1>4, <1>6, <1>7, OneMoves

LEMMA LookUpStep ==
    ASSUME IInv, NEW c \in Clients, LookUp(c)
    PROVE  IInv'
  <1> USE DEF IInv
  <1>0. ClientTyped(c)
    BY ClientTypes
  <1> DEFINE i == position[c] + 1
             text == texts[c][i]
  <1>1. /\ pc[c] = "lookup" /\ position[c] < Len(texts[c]) /\ Get(text)
        /\ position' = [position EXCEPT ![c] = i]
        /\ UNCHANGED <<pc, texts, from, embeddings, filled, attempt, short>>
    BY DEF LookUp
  <1>2. i \in 1..Len(texts[c]) /\ i \in Nat /\ text \in Keys /\ from[c] = 0
    BY <1>1, <1>0 DEF ClientTyped, Request, InRange
  <1>3. cache' = cache /\ value' = value
    BY <1>1 DEF Get
  <1>4. CacheHoldsTrueVectors'
    BY <1>3 DEF CacheHoldsTrueVectors
  <1>5. position'[c] = i /\ \A d \in Clients \ {c} : position'[d] = position[d]
    BY <1>1 DEF Types
  <1> HIDE DEF i
  <1>6. CASE text \in cache
    <2>1. result' = [result EXCEPT ![c][i] = text] /\ needRequest' = needRequest
      BY <1>6 DEF LookUp, CacheHoldsTrueVectors, i
    <2>2. /\ result[c] \in Seq(Keys \cup {Nil})
          /\ Len(result[c]) = Len(texts[c])
      BY <1>0 DEF ClientTyped, Request, InRange
    <2> DEFINE r == [result[c] EXCEPT ![i] = text]
    <2>3. r \in Seq(Keys \cup {Nil}) /\ Len(r) = Len(result[c])
      BY <1>2, <2>2
    <2>4. \A k \in 1..Len(texts[c]) : r[k] = IF k = i THEN text ELSE result[c][k]
      BY <1>2, <2>2
    <2>5. result' = [result EXCEPT ![c] = r]
      BY <2>1 DEF Types
    <2> HIDE DEF r
    <2>6. result'[c] = r /\ \A d \in Clients \ {c} : result'[d] = result[d]
      BY <2>5 DEF Types
    <2>7. Types'
      BY <1>1, <1>2, <1>3, <2>1, <2>3, <2>5 DEF Types
    <2>8. InRange(c)'
      BY <1>1, <1>2, <1>5, <2>1, <2>3, <2>6, <1>0 DEF ClientTyped, Request, InRange
    <2>9. TrueResult(c)'
      BY <1>1, <1>2, <2>4, <2>6 DEF Request, TrueResult
    <2>10. Accounted(c)'
      <3> SUFFICES ASSUME NEW k \in 1..i
                   PROVE  \/ r[k] = texts[c][k]
                          \/ short[c]
                          \/ \E j \in (from[c] + 1)..Len(needRequest[c]) :
                                needRequest[c][j] = k
        <4>1. Behind(c)' = from[c]
          BY <1>1 DEF Behind
        <4>2. /\ position'[c] = i /\ result'[c] = r /\ needRequest'[c] = needRequest[c]
              /\ texts'[c] = texts[c] /\ short'[c] = short[c]
          BY <1>1, <1>5, <2>1, <2>6
        <4> HIDE DEF IInv
        <4> QED BY <4>1, <4>2 DEF Accounted
      <3>1. k = i \/ k \in 1..position[c]
        BY <1>2, <1>0 DEF ClientTyped, i
      <3> QED BY <1>1, <1>2, <2>4, <3>1 DEF Request, Accounted, Behind
    <2>11. TrueAnswer(c)'
      BY <1>1 DEF TrueAnswer
    <2>12. \A d \in Clients \ {c} : Kept(d)
      BY <1>1, <1>5, <2>1, <2>6 DEF Kept
    <2> QED BY <1>4, <2>7, <2>8, <2>9, <2>10, <2>11, <2>12, OneMoves DEF Request
  <1>7. CASE text \notin cache
    <2> DEFINE need == Append(needRequest[c], i)
    <2>1. needRequest' = [needRequest EXCEPT ![c] = need] /\ result' = result
      BY <1>7 DEF LookUp, i
    <2>2. /\ need \in Seq(Nat) /\ Len(need) = Len(needRequest[c]) + 1
          /\ \A j \in 1..Len(needRequest[c]) : need[j] = needRequest[c][j]
          /\ need[Len(needRequest[c]) + 1] = i
      BY <1>2, <1>0, AppendProperties DEF ClientTyped
    <2> HIDE DEF need
    <2>3. needRequest'[c] = need /\ \A d \in Clients \ {c} : needRequest'[d] = needRequest[d]
      BY <2>1 DEF Types
    <2>4. Types'
      BY <1>1, <1>2, <1>3, <2>1, <2>2 DEF Types
    <2>5. InRange(c)'
      <3>1. \A j \in 1..Len(need) : need[j] \in 1..Len(texts[c])
        <4>1. \A j \in 1..Len(needRequest[c]) : needRequest[c][j] \in 1..Len(texts[c])
          BY DEF Request, InRange
        <4> HIDE DEF IInv
        <4>2. \A j \in 1..Len(need) :
                 j \in 1..Len(needRequest[c]) \/ j = Len(needRequest[c]) + 1
          BY <1>0, <2>2 DEF ClientTyped
        <4> QED BY <1>2, <2>2, <4>1, <4>2
      <3> QED BY <1>1, <1>2, <1>5, <2>1, <2>2, <2>3, <3>1, <1>0 DEF ClientTyped,
                 Request, InRange
    <2>6. TrueResult(c)'
      BY <1>1, <2>1 DEF Request, TrueResult
    <2>7. Accounted(c)'
      <3> SUFFICES ASSUME NEW k \in 1..i
                   PROVE  \/ result[c][k] = texts[c][k]
                          \/ short[c]
                          \/ \E j \in (from[c] + 1)..Len(need) : need[j] = k
        BY <1>1, <1>5, <2>1, <2>3 DEF Accounted, Behind
      <3>1. CASE k = i
        BY <1>2, <2>2, <3>1, <1>0 DEF ClientTyped
      <3>2. CASE k \in 1..position[c]
        <4>1. \/ result[c][k] = texts[c][k]
              \/ short[c]
              \/ \E j \in (from[c] + 1)..Len(needRequest[c]) : needRequest[c][j] = k
          BY <1>1, <3>2 DEF Request, Accounted, Behind
        <4> HIDE DEF IInv
        <4>2. \A j \in (from[c] + 1)..Len(needRequest[c]) :
                 j \in (from[c] + 1)..Len(need) /\ need[j] = needRequest[c][j]
          <5>1. from[c] \in Nat /\ Len(needRequest[c]) \in Nat
            BY <1>0 DEF ClientTyped
          <5> QED BY <2>2, <5>1
        <4> QED BY <4>1, <4>2
      <3>3. k = i \/ k \in 1..position[c]
        BY <1>2, <1>0 DEF ClientTyped, i
      <3> QED BY <3>1, <3>2, <3>3
    <2>8. TrueAnswer(c)'
      BY <1>1 DEF TrueAnswer
    <2>9. \A d \in Clients \ {c} : Kept(d)
      BY <1>1, <1>5, <2>1, <2>3 DEF Kept
    <2> QED BY <1>4, <2>4, <2>5, <2>6, <2>7, <2>8, <2>9, OneMoves DEF Request
  <1> QED BY <1>6, <1>7

LEMMA NextBatchStep ==
    ASSUME IInv, NEW c \in Clients, NextBatch(c)
    PROVE  IInv'
  <1> USE DEF IInv
  <1>0. ClientTyped(c)
    BY ClientTypes
  <1>1. /\ pc[c] = "lookup" /\ position[c] = Len(texts[c])
        /\ UNCHANGED <<cache, value, texts, position, result, needRequest, from,
                       embeddings, filled, attempt, short>>
    BY DEF NextBatch, lru
  <1>2. PICK x \in {"request", "answered"} :
           /\ pc' = [pc EXCEPT ![c] = x]
           /\ x = "request" <=> from[c] < Len(needRequest[c])
    BY DEF NextBatch
  <1>3. pc'[c] = x /\ \A d \in Clients \ {c} : pc'[d] = pc[d]
    BY <1>2 DEF Types
  <1>4. Types'
    BY <1>1, <1>2 DEF Types, States
  <1>5. InRange(c)'
    BY <1>1, <1>2, <1>3, <1>0 DEF ClientTyped, Request, InRange
  <1>6. TrueResult(c)' /\ TrueAnswer(c)'
    BY <1>1, <1>3 DEF Request, TrueResult, TrueAnswer
  <1>7. Accounted(c)'
    BY <1>1, <1>3 DEF Request, Accounted, Behind
  <1>8. CacheHoldsTrueVectors' /\ \A d \in Clients \ {c} : Kept(d)
    BY <1>1, <1>3 DEF CacheHoldsTrueVectors, Kept
  <1> QED BY <1>4, <1>5, <1>6, <1>7, <1>8, OneMoves DEF Request

LEMMA AnswerStep ==
    ASSUME IInv, NEW c \in Clients, Answer(c)
    PROVE  IInv'
  <1> USE DEF IInv
  <1>0. ClientTyped(c)
    BY ClientTypes
  <1>1. /\ pc[c] = "request" /\ pc' = [pc EXCEPT ![c] = "fill"]
        /\ filled' = [filled EXCEPT ![c] = 0] /\ attempt' = [attempt EXCEPT ![c] = 0]
        /\ UNCHANGED <<cache, value, texts, position, result, needRequest, from>>
    BY DEF Answer, lru
  <1> DEFINE size == BatchEnd(c) - from[c]
  <1>2. from[c] < Len(needRequest[c]) /\ position[c] = Len(texts[c])
    BY <1>1 DEF Request, InRange
  <1>3. /\ BatchEnd(c) \in (from[c] + 1)..Len(needRequest[c]) /\ size \in Nat
        /\ Len(Batch(c)) = size /\ DOMAIN Batch(c) = 1..size
        /\ \A j \in 1..size : Batch(c)[j] = needRequest[c][from[c] + j]
    <2>1. /\ BatchEnd(c) \in (from[c] + 1)..Len(needRequest[c])
          /\ Len(Batch(c)) = size /\ DOMAIN Batch(c) = 1..size
          /\ \A j \in 1..size : Batch(c)[j] = needRequest[c][from[c] + j]
      BY <1>2, BatchIs
    <2>2. size \in Nat
      BY <1>0, <2>1 DEF ClientTyped
    <2> QED BY <2>1, <2>2
  <1> HIDE DEF size
  <1>4. PICK n \in 0..size :
           /\ embeddings' = [embeddings EXCEPT ![c] = SubSeq(BatchTexts(c), 1, n)]
           /\ IF n < size THEN short' = [short EXCEPT ![c] = TRUE] ELSE short' = short
    BY <1>3 DEF Answer
  <1>5. \A j \in 1..size : /\ needRequest[c][from[c] + j] \in 1..Len(texts[c])
                           /\ BatchTexts(c)[j] = texts[c][needRequest[c][from[c] + j]]
    <2>1. \A j \in 1..size : from[c] + j \in 1..Len(needRequest[c])
      <3> HIDE DEF IInv
      <3>1. /\ from[c] \in Nat /\ Len(needRequest[c]) \in Nat /\ BatchEnd(c) \in Nat
            /\ BatchEnd(c) <= Len(needRequest[c]) /\ size = BatchEnd(c) - from[c]
        BY <1>0, <1>3 DEF ClientTyped, size
      <3> QED BY <3>1
    <2>2. \A j \in 1..size : BatchTexts(c)[j] = texts[c][needRequest[c][from[c] + j]]
      BY <1>3 DEF BatchTexts
    <2> QED BY <2>1, <2>2 DEF Request, InRange
  <1> DEFINE e == SubSeq(BatchTexts(c), 1, n)
  <1>6. /\ e \in Seq(Keys) /\ Len(e) = n
        /\ \A j \in 1..n : e[j] = texts[c][needRequest[c][from[c] + j]]
    <2>1. \A j \in 1..n : BatchTexts(c)[j] \in Keys
      <3>1. \A j \in 1..n : j \in 1..size
        BY <1>3
      <3>2. \A k \in 1..Len(texts[c]) : texts[c][k] \in Keys
        BY <1>0 DEF ClientTyped
      <3> HIDE DEF IInv
      <3> QED BY <1>5, <3>1, <3>2
    <2>2. /\ e \in Seq(Keys) /\ Len(e) = (IF 1 <= n THEN n - 1 + 1 ELSE 0)
          /\ \A j \in 1..(n - 1 + 1) : e[j] = BatchTexts(c)[1 + j - 1]
      BY <2>1, SubSeqProperties
    <2> HIDE DEF e
    <2>3. n - 1 + 1 = n /\ \A j \in 1..n : 1 + j - 1 = j
      BY <1>3
    <2> QED BY <1>3, <1>5, <2>2, <2>3
  <1> HIDE DEF e
  <1>7. embeddings' = [embeddings EXCEPT ![c] = e]
    BY <1>4 DEF e
  <1>8. /\ pc'[c] = "fill" /\ filled'[c] = 0 /\ embeddings'[c] = e
        /\ short'[c] = (short[c] \/ n < size)
        /\ \A d \in Clients \ {c} : /\ pc'[d] = pc[d] /\ filled'[d] = filled[d]
                                   /\ embeddings'[d] = embeddings[d]
                                   /\ short'[d] = short[d]
    BY <1>1, <1>4, <1>7 DEF Types
  <1>9. Types'
    <2>1. /\ filled' \in [Clients -> Nat] /\ attempt' \in [Clients -> Nat]
          /\ pc' \in [Clients -> States]
      BY <1>1 DEF Types, States
    <2>2. embeddings' \in [Clients -> Seq(Keys)]
      BY <1>6, <1>7 DEF Types
    <2>3. short' \in [Clients -> BOOLEAN]
      BY <1>4 DEF Types
    <2> QED BY <1>1, <2>1, <2>2, <2>3 DEF Types
  <1>10. InRange(c)'
    BY <1>1, <1>2, <1>8 DEF Request, InRange
  <1>11. TrueResult(c)'
    BY <1>1 DEF Request, TrueResult
  <1>12. TrueAnswer(c)'
    <2>1. BatchEnd(c)' = BatchEnd(c)
      BY <1>1 DEF BatchEnd
    <2>2. /\ from[c] + n <= BatchEnd(c)
          /\ n = size => from[c] + n = BatchEnd(c)
          /\ n = size \/ n < size
      BY <1>3, <1>0 DEF ClientTyped, size
    <2>3. short'[c] \/ from[c] + n = BatchEnd(c)
      BY <1>8, <2>2
    <2>4. from'[c] = from[c] /\ texts'[c] = texts[c] /\ needRequest'[c] = needRequest[c]
      BY <1>1
    <2>5. 0 <= n
      BY <1>3
    <2> HIDE DEF IInv
    <2> QED BY <1>6, <1>8, <2>1, <2>2, <2>3, <2>4, <2>5 DEF TrueAnswer
  <1>13. Accounted(c)'
    <2>1. Behind(c)' = from[c] /\ Behind(c) = from[c]
      BY <1>1, <1>8, <1>0 DEF ClientTyped, Behind
    <2>2. Accounted(c)
      BY DEF Request
    <2>3. /\ position'[c] = position[c] /\ result'[c] = result[c] /\ texts'[c] = texts[c]
          /\ needRequest'[c] = needRequest[c] /\ (short[c] => short'[c])
      BY <1>1, <1>8
    <2> HIDE DEF IInv
    <2> QED BY <2>1, <2>2, <2>3 DEF Accounted
  <1>14. CacheHoldsTrueVectors' /\ \A d \in Clients \ {c} : Kept(d)
    BY <1>1, <1>8 DEF CacheHoldsTrueVectors, Kept
  <1> QED BY <1>9, <1>10, <1>11, <1>12, <1>13, <1>14, OneMoves DEF Request

LEMMA FailStep ==
    ASSUME IInv, NEW c \in Clients, Fail(c)
    PROVE  IInv'
  <1> USE DEF IInv
  <1>0. ClientTyped(c)
    BY ClientTypes
  <1>1. PICK x \in {"request", "failed"} : pc' = [pc EXCEPT ![c] = x]
    BY DEF Fail
  <1>2. /\ pc[c] = "request" /\ attempt' = [attempt EXCEPT ![c] = @ + 1]
        /\ UNCHANGED <<cache, value, texts, position, result, needRequest, from,
                       embeddings, filled, short>>
    BY DEF Fail, lru
  <1>3. pc'[c] = x /\ \A d \in Clients \ {c} : pc'[d] = pc[d]
    BY <1>1 DEF Types
  <1>4. Types'
    <2>1. pc' \in [Clients -> States]
      BY <1>1 DEF Types, States
    <2>2. attempt' \in [Clients -> Nat]
      BY <1>2 DEF Types
    <2> QED BY <1>2, <2>1, <2>2 DEF Types
  <1>5. InRange(c)'
    BY <1>2, <1>3 DEF Request, InRange
  <1>6. TrueResult(c)' /\ TrueAnswer(c)'
    BY <1>2, <1>3 DEF Request, TrueResult, TrueAnswer
  <1>7. Accounted(c)'
    BY <1>2, <1>3 DEF Request, Accounted, Behind
  <1>8. CacheHoldsTrueVectors' /\ \A d \in Clients \ {c} : Kept(d)
    BY <1>2, <1>3 DEF CacheHoldsTrueVectors, Kept
  <1> QED BY <1>4, <1>5, <1>6, <1>7, <1>8, OneMoves DEF Request

LEMMA FillStep ==
    ASSUME IInv, NEW c \in Clients, Fill(c)
    PROVE  IInv'
  <1> USE DEF IInv
  <1>0. ClientTyped(c)
    BY ClientTypes
  <1> DEFINE j == filled[c] + 1
             i == needRequest[c][from[c] + j]
             text == texts[c][i]
  <1>1. /\ pc[c] = "fill" /\ filled[c] < Len(embeddings[c])
        /\ filled' = [filled EXCEPT ![c] = j]
        /\ UNCHANGED <<pc, texts, position, needRequest, from, embeddings, attempt, short>>
    BY DEF Fill
  <1>2. from[c] < Len(needRequest[c]) /\ position[c] = Len(texts[c])
    BY <1>1 DEF Request, InRange
  <1>3. /\ BatchEnd(c) \in (from[c] + 1)..Len(needRequest[c])
        /\ \A k \in 1..(BatchEnd(c) - from[c]) : Batch(c)[k] = needRequest[c][from[c] + k]
    BY <1>2, BatchIs
  <1>4. /\ j \in 1..Len(embeddings[c]) /\ j \in 1..(BatchEnd(c) - from[c])
        /\ from[c] + j \in 1..Len(needRequest[c])
    <2>1. from[c] + Len(embeddings[c]) <= BatchEnd(c)
      BY <1>1 DEF Request, TrueAnswer
    <2> HIDE DEF IInv
    <2>2. /\ filled[c] \in Nat /\ from[c] \in Nat /\ Len(embeddings[c]) \in Nat
          /\ Len(needRequest[c]) \in Nat /\ BatchEnd(c) \in Nat
          /\ BatchEnd(c) <= Len(needRequest[c])
      BY <1>0, <1>3 DEF ClientTyped
    <2> QED BY <1>1, <2>1, <2>2
  <1>5. i \in 1..Len(texts[c]) /\ text \in Keys
    <2>1. i \in 1..Len(texts[c])
      BY <1>4 DEF Request, InRange
    <2> HIDE DEF IInv, i
    <2> QED BY <1>0, <2>1 DEF ClientTyped
  <1>6. Batch(c)[j] = i /\ embeddings[c][j] = text
    BY <1>1, <1>3, <1>4 DEF Request, TrueAnswer
  <1>7. result' = [result EXCEPT ![c][i] = text] /\ Put(text, text)
    BY <1>6 DEF Fill
  <1>8. /\ cache' \subseteq cache \cup {text} /\ value' = [value EXCEPT ![text] = text]
    BY <1>7 DEF Put
  <1> HIDE DEF text
  <1>9. CacheHoldsTrueVectors'
    BY <1>5, <1>8 DEF CacheHoldsTrueVectors, Types
  <1> HIDE DEF i, j
  <1>10. /\ result[c] \in Seq(Keys \cup {Nil})
         /\ Len(result[c]) = Len(texts[c])
    BY <1>0 DEF ClientTyped, Request, InRange
  <1> DEFINE r == [result[c] EXCEPT ![i] = text]
  <1>11. r \in Seq(Keys \cup {Nil}) /\ Len(r) = Len(result[c])
    BY <1>5, <1>10
  <1>12. \A k \in 1..Len(texts[c]) : r[k] = IF k = i THEN text ELSE result[c][k]
    BY <1>5, <1>10
  <1>13. result' = [result EXCEPT ![c] = r]
    BY <1>7 DEF Types
  <1> HIDE DEF r
  <1>14. /\ result'[c] = r /\ filled'[c] = j
         /\ \A d \in Clients \ {c} : result'[d] = result[d] /\ filled'[d] = filled[d]
    BY <1>1, <1>13 DEF Types
  <1>15. Types'
    <2>1. filled' \in [Clients -> Nat]
      BY <1>1, <1>4 DEF Types
    <2>2. result' \in [Clients -> Seq(Keys \cup {Nil})]
      BY <1>11, <1>13 DEF Types
    <2>3. cache' \subseteq Keys /\ value' \in [Keys -> Keys \cup {Nil}]
      BY <1>5, <1>8 DEF Types
    <2> QED BY <1>1, <2>1, <2>2, <2>3 DEF Types
  <1>16. InRange(c)'
    BY <1>1, <1>11, <1>14 DEF Request, InRange
  <1>17. TrueResult(c)'
    BY <1>1, <1>12, <1>14 DEF Request, TrueResult, text
  <1>18. TrueAnswer(c)'
    BY <1>1, <1>4, <1>14 DEF Request, TrueAnswer, BatchEnd
  <1>19. Accounted(c)'
    <2> SUFFICES ASSUME NEW k \in 1..position[c]
                 PROVE  \/ r[k] = texts[c][k]
                        \/ short[c]
                        \/ \E m \in (from[c] + j + 1)..Len(needRequest[c]) :
                              needRequest[c][m] = k
      BY <1>1, <1>14 DEF Accounted, Behind
    <2>1. k \in 1..Len(texts[c])
      BY <1>2
    <2>2. CASE k = i
      BY <1>12, <2>1, <2>2 DEF text
    <2>3. CASE k # i
      <3>1. \/ result[c][k] = texts[c][k]
            \/ short[c]
            \/ \E m \in (from[c] + filled[c] + 1)..Len(needRequest[c]) :
                  needRequest[c][m] = k
        BY <1>1 DEF Request, Accounted, Behind
      <3>2. \A m \in (from[c] + filled[c] + 1)..Len(needRequest[c]) :
               m = from[c] + j \/ m \in (from[c] + j + 1)..Len(needRequest[c])
        <4> HIDE DEF IInv
        <4>1. from[c] \in Nat /\ filled[c] \in Nat /\ Len(needRequest[c]) \in Nat
          BY <1>0 DEF ClientTyped
        <4> QED BY <4>1 DEF j
      <3> QED BY <1>12, <2>1, <2>3, <3>1, <3>2 DEF i
    <2> QED BY <2>2, <2>3
  <1>20. \A d \in Clients \ {c} : Kept(d)
    BY <1>1, <1>14 DEF Kept
  <1> QED BY <1>9, <1>15, <1>16, <1>17, <1>18, <1>19, <1>20, OneMoves DEF Request

LEMMA EndBatchStep ==
    ASSUME IInv, NEW c \in Clients, EndBatch(c)
    PROVE  IInv'
  <1> USE DEF IInv
  <1>0. ClientTyped(c)
    BY ClientTypes
  <1>1. /\ pc[c] = "fill" /\ filled[c] = Len(embeddings[c])
        /\ pc' = [pc EXCEPT ![c] = "lookup"]
        /\ UNCHANGED <<cache, value, texts, position, result, needRequest, embeddings,
                       filled, attempt, short>>
    BY DEF EndBatch, lru
  <1>2. from[c] < Len(needRequest[c]) /\ position[c] = Len(texts[c])
    BY <1>1 DEF Request, InRange
  <1>3. /\ BatchEnd(c) \in (from[c] + 1)..Len(needRequest[c])
        /\ Len(Batch(c)) = BatchEnd(c) - from[c]
    BY <1>2, BatchIs
  <1>4. from' = [from EXCEPT ![c] = BatchEnd(c)]
    <2>1. from[c] + Len(Batch(c)) = BatchEnd(c)
      BY <1>3, <1>0 DEF ClientTyped
    <2> QED BY <2>1 DEF EndBatch
  <1>5. /\ pc'[c] = "lookup" /\ from'[c] = BatchEnd(c)
        /\ \A d \in Clients \ {c} : pc'[d] = pc[d] /\ from'[d] = from[d]
    BY <1>1, <1>4 DEF Types
  <1>6. BatchEnd(c) \in Nat /\ BatchEnd(c) <= Len(needRequest[c])
    BY <1>3, <1>0 DEF ClientTyped
  <1>7. Types'
    BY <1>1, <1>4, <1>6 DEF Types, States
  <1>8. InRange(c)'
    BY <1>1, <1>2, <1>5, <1>6, <1>0 DEF ClientTyped, Request, InRange
  <1>9. TrueResult(c)' /\ TrueAnswer(c)'
    BY <1>1, <1>5 DEF Request, TrueResult, TrueAnswer
  <1>10. Accounted(c)'
    <2>1. Behind(c)' = BatchEnd(c) /\ Behind(c) = from[c] + Len(embeddings[c])
      BY <1>1, <1>5 DEF Behind
    <2>2. short[c] \/ Behind(c) = BatchEnd(c)
      BY <1>1, <2>1 DEF Request, TrueAnswer
    <2> QED BY <1>1, <2>1, <2>2 DEF Request, Accounted
  <1>11. CacheHoldsTrueVectors' /\ \A d \in Clients \ {c} : Kept(d)
    BY <1>1, <1>5 DEF CacheHoldsTrueVectors, Kept
  <1> QED BY <1>7, <1>8, <1>9, <1>10, <1>11, OneMoves DEF Request
-----------------------------------------------------------------------------
(* The whole invariant holds of every reachable state.                      *)
THEOREM Invariance == Spec => []IInv
<1>1. Init => IInv
  <2> SUFFICES ASSUME Init
               PROVE  IInv
    OBVIOUS
  <2>1. <<>> \in Seq(Keys) /\ <<>> \in Seq(Nat) /\ <<>> \in Seq(Keys \cup {Nil}) /\ Len(<<>>) = 0
    OBVIOUS
  <2>2. Types
    BY <2>1 DEF Init, LRUInit, Types, States
  <2>3. CacheHoldsTrueVectors
    BY DEF Init, LRUInit, CacheHoldsTrueVectors
  <2>4. ASSUME NEW c \in Clients
        PROVE  Request(c)
    BY <2>1 DEF Init, Request, InRange, TrueResult, TrueAnswer, Accounted
  <2> QED BY <2>2, <2>3, <2>4 DEF IInv
<1>2. IInv /\ [Next]_vars => IInv'
  <2> SUFFICES ASSUME IInv, [Next]_vars
               PROVE  IInv'
    OBVIOUS
  <2>1. CASE Next
    BY <2>1, CallStep, LookUpStep, NextBatchStep, AnswerStep, FailStep, FillStep,
       EndBatchStep DEF Next, Continue
  <2>2. CASE UNCHANGED vars
    <3>1. UNCHANGED <<cache, value, pc, texts, position, result, needRequest, from,
                      embeddings, filled, attempt, short>>
      BY <2>2 DEF vars, lru, local
    <3>2. Types' /\ CacheHoldsTrueVectors'
      BY <3>1 DEF IInv, Types, CacheHoldsTrueVectors
    <3>3. ASSUME NEW c \in Clients
          PROVE  Request(c)'
      BY <3>1 DEF IInv, Request, InRange, TrueResult, TrueAnswer, Accounted, Behind,
             BatchEnd
    <3> QED BY <3>2, <3>3 DEF IInv
  <2> QED BY <2>1, <2>2
<1> QED BY <1>1, <1>2, PTL DEF Spec

(* client.go's cache never holds the vector of another text, whatever the    *)
(* requests put and evict.                                                  *)
THEOREM CacheTrue == Spec => []CacheHoldsTrueVectors
<1>1. IInv => CacheHoldsTrueVectors
  BY DEF IInv
<1> QED BY <1>1, Invariance, PTL

(* GetTextEmbeddingBatch (client.go:141-239) answers each text with its own   *)
(* vector, or with nil after the service left one out.                      *)
THEOREM AnswersTrue == Spec => []AnswersMatchTexts
<1>1. IInv => AnswersMatchTexts
  <2> SUFFICES ASSUME IInv, NEW c \in Clients, pc[c] = "answered",
                      NEW i \in DOMAIN texts[c]
               PROVE  \/ result[c][i] = texts[c][i]
                      \/ result[c][i] = Nil /\ short[c]
    BY DEF AnswersMatchTexts
  <2>1. Types /\ Request(c)
    BY DEF IInv
  <2>2. i \in 1..Len(texts[c])
    BY <2>1, ClientTypes DEF ClientTyped
  <2>3. i \in 1..position[c] /\ Behind(c) = Len(needRequest[c])
    BY <2>1, <2>2 DEF Request, InRange, Behind
  <2>4. (Len(needRequest[c]) + 1)..Len(needRequest[c]) = {}
    BY <2>1, ClientTypes DEF ClientTyped
  <2>5. result[c][i] = texts[c][i] \/ short[c]
    BY <2>1, <2>3, <2>4 DEF Request, Accounted
  <2>6. result[c][i] \in {texts[c][i], Nil}
    BY <2>1, <2>2 DEF Request, TrueResult
  <2> QED BY <2>5, <2>6
<1> QED BY <1>1, Invariance, PTL
-----------------------------------------------------------------------------
(* The linked list.  Place(s, i) is the i-th node of a list that holds the   *)
(* keys s between the two sentinels.                                        *)
Place(s, i) == IF i = 0 THEN HeadNode ELSE IF i = Len(s) + 1 THEN TailNode ELSE s[i]

Distinct(s) == \A i, j \in 1..Len(s) : s[i] = s[j] => i = j

(* The links of l form a chain of the keys s, each of them once. *)
IsList(l, s) ==
    /\ l.next \in [Nodes -> Nodes \cup {Nil}] /\ l.prev \in [Nodes -> Nodes \cup {Nil}]
    /\ s \in Seq(Keys) /\ Distinct(s)
    /\ \A i \in 0..Len(s) : /\ l.next[Place(s, i)] = Place(s, i + 1)
                            /\ l.prev[Place(s, i + 1)] = Place(s, i)

(* The nodes of a list are all different. *)
LEMMA PlacesDiffer ==
    ASSUME NEW s \in Seq(Keys), Distinct(s)
    PROVE  /\ Len(s) \in Nat
           /\ \A i \in 0..(Len(s) + 1) : Place(s, i) \in Nodes
           /\ \A i, j \in 0..(Len(s) + 1) : Place(s, i) = Place(s, j) => i = j
  <1>1. Len(s) \in Nat /\ \A i \in 1..Len(s) : s[i] \in Keys
    OBVIOUS
  <1>2. \A i \in 0..(Len(s) + 1) : i = 0 \/ i = Len(s) + 1 \/ i \in 1..Len(s)
    BY <1>1
  <1>3. \A i \in 0..(Len(s) + 1) : /\ i = 0 => Place(s, i) = HeadNode
                                   /\ i = Len(s) + 1 => Place(s, i) = TailNode
                                   /\ i \in 1..Len(s) => Place(s, i) = s[i]
    BY <1>1 DEF Place
  <1>4. HeadNode \notin Keys /\ TailNode \notin Keys /\ HeadNode # TailNode
    BY CacheAssumption
  <1> QED BY <1>1, <1>2, <1>3, <1>4 DEF Distinct, Nodes

(* RemoveAt, position by position: what follows the removed one moves up. *)
LEMMA RemoveAtIs ==
    ASSUME NEW S, NEW s \in Seq(S), NEW m \in 1..Len(s)
    PROVE  /\ Abstract!RemoveAt(s, m) \in Seq(S)
           /\ Len(Abstract!RemoveAt(s, m)) = Len(s) - 1
           /\ \A j \in 1..(Len(s) - 1) :
                 Abstract!RemoveAt(s, m)[j] = s[IF j < m THEN j ELSE j + 1]
  <1> DEFINE a == SubSeq(s, 1, m - 1)
             b == SubSeq(s, m + 1, Len(s))
             n == Len(s)
  <1>1. n \in Nat /\ m \in Nat /\ m >= 1 /\ m <= n /\ \A i \in 1..n : s[i] \in S
    OBVIOUS
  <1>2. a \in Seq(S) /\ Len(a) = m - 1 /\ \A i \in 1..(m - 1) : a[i] = s[i]
    <2>1. \A i \in 1..(m - 1) : s[i] \in S
      BY <1>1
    <2>2. 1 \in Int /\ m - 1 \in Int
      BY <1>1
    <2>3. /\ a \in Seq(S) /\ Len(a) = IF 1 <= m - 1 THEN m - 1 - 1 + 1 ELSE 0
          /\ \A i \in 1..(m - 1 - 1 + 1) : a[i] = s[1 + i - 1]
      BY <2>1, <2>2, SubSeqProperties
    <2> HIDE DEF a
    <2> QED BY <1>1, <2>3
  <1>3. b \in Seq(S) /\ Len(b) = n - m /\ \A i \in 1..(n - m) : b[i] = s[m + i]
    <2>1. \A i \in (m + 1)..n : s[i] \in S
      BY <1>1
    <2>2. m + 1 \in Int /\ n \in Int
      BY <1>1
    <2>3. /\ b \in Seq(S) /\ Len(b) = IF m + 1 <= n THEN n - (m + 1) + 1 ELSE 0
          /\ \A i \in 1..(n - (m + 1) + 1) : b[i] = s[m + 1 + i - 1]
      BY <2>1, <2>2, SubSeqProperties
    <2> HIDE DEF b, n
    <2> QED BY <1>1, <2>3
  <1>4. Abstract!RemoveAt(s, m) = a \o b
    BY DEF Abstract!RemoveAt
  <1> HIDE DEF a, b
  <1>5. /\ a \o b \in Seq(S) /\ Len(a \o b) = Len(a) + Len(b)
        /\ \A i \in 1..(Len(a) + Len(b)) :
              (a \o b)[i] = IF i <= Len(a) THEN a[i] ELSE b[i - Len(a)]
    BY <1>2, <1>3, ConcatProperties
  <1> DEFINE c == a \o b
  <1> HIDE DEF c
  <1>6. c \in Seq(S) /\ Len(c) = n - 1
    BY <1>1, <1>2, <1>3, <1>5 DEF c
  <1>7. ASSUME NEW j \in 1..(n - 1)
        PROVE  c[j] = s[IF j < m THEN j ELSE j + 1]
    <2>1. c[j] = IF j <= m - 1 THEN a[j] ELSE b[j - (m - 1)]
      BY <1>1, <1>2, <1>3, <1>5 DEF c
    <2> HIDE DEF n
    <2>2. CASE j < m
      BY <1>1, <1>2, <2>1, <2>2
    <2>3. CASE ~(j < m)
      <3>1. j - (m - 1) \in 1..(n - m) /\ m + (j - (m - 1)) = j + 1
        BY <1>1, <2>3
      <3> QED BY <1>1, <1>3, <2>1, <2>3, <3>1
    <2> QED BY <2>2, <2>3
  <1> QED BY <1>4, <1>6, <1>7 DEF c

(* A sequence with one more element in front of it, position by position. *)
LEMMA InFront ==
    ASSUME NEW S, NEW s \in Seq(S), NEW x \in S
    PROVE  /\ <<x>> \o s \in Seq(S) /\ Len(<<x>> \o s) = Len(s) + 1 /\ Len(s) \in Nat
           /\ (<<x>> \o s)[1] = x
           /\ \A j \in 1..Len(s) : (<<x>> \o s)[j + 1] = s[j]
  <1>1. <<x>> \in Seq(S) /\ Len(<<x>>) = 1 /\ <<x>>[1] = x /\ Len(s) \in Nat
    OBVIOUS
  <1> DEFINE f == <<x>>
  <1> HIDE DEF f
  <1>2. /\ f \o s \in Seq(S) /\ Len(f \o s) = Len(f) + Len(s)
        /\ \A i \in 1..(Len(f) + Len(s)) :
              (f \o s)[i] = IF i <= Len(f) THEN f[i] ELSE s[i - Len(f)]
    BY <1>1, ConcatProperties DEF f
  <1>3. Len(f) = 1 /\ f[1] = x
    BY <1>1 DEF f
  <1>4. \A j \in 1..Len(s) : (f \o s)[j + 1] = s[j]
    BY <1>1, <1>2, <1>3
  <1> QED BY <1>1, <1>2, <1>3, <1>4 DEF f

(* addToHead puts a node that is not in the list in front of it.            *)
LEMMA AddToHeadKeeps ==
    ASSUME NEW l, NEW s, IsList(l, s), NEW k \in Keys, \A i \in 1..Len(s) : s[i] # k
    PROVE  IsList(AddToHead(l, k), <<k>> \o s)
  <1> DEFINE t == <<k>> \o s
             n == Len(s)
             nx == AddToHead(l, k).next
             pv == AddToHead(l, k).prev
  <1>1. /\ s \in Seq(Keys) /\ Distinct(s) /\ n \in Nat
        /\ l.next \in [Nodes -> Nodes \cup {Nil}] /\ l.prev \in [Nodes -> Nodes \cup {Nil}]
        /\ \A i \in 0..n : /\ l.next[Place(s, i)] = Place(s, i + 1)
                           /\ l.prev[Place(s, i + 1)] = Place(s, i)
    BY DEF IsList
  <1>2. /\ \A i \in 0..(n + 1) : Place(s, i) \in Nodes
        /\ \A i, j \in 0..(n + 1) : Place(s, i) = Place(s, j) => i = j
    BY <1>1, PlacesDiffer
  <1>3. /\ t \in Seq(Keys) /\ Len(t) = n + 1 /\ t[1] = k
        /\ \A j \in 1..n : t[j + 1] = s[j]
    BY <1>1, InFront
  <1>4. Place(s, 0) = HeadNode /\ Place(s, n + 1) = TailNode
    BY <1>1 DEF Place
  <1>5. k \in Nodes /\ \A i \in 0..(n + 1) : Place(s, i) # k
    <2>1. k # HeadNode /\ k # TailNode /\ k \in Nodes
      BY CacheAssumption DEF Nodes
    <2> QED BY <1>1, <2>1 DEF Place
  <1>6. /\ nx = [l.next EXCEPT ![k] = Place(s, 1), ![HeadNode] = k]
        /\ pv = [l.prev EXCEPT ![k] = HeadNode, ![Place(s, 1)] = k]
    <2>1. l.next[HeadNode] = Place(s, 1)
      BY <1>1, <1>4
    <2> QED BY <2>1 DEF AddToHead
  <1>7. /\ Place(t, 0) = HeadNode /\ Place(t, 1) = k
        /\ \A i \in 1..(n + 1) : Place(t, i + 1) = Place(s, i)
    <2> HIDE DEF t
    <2> QED BY <1>1, <1>3 DEF Place
  <1>8. Distinct(t)
    <2> SUFFICES ASSUME NEW i \in 1..(n + 1), NEW j \in 1..(n + 1), t[i] = t[j]
                 PROVE  i = j
      BY <1>3 DEF Distinct
    <2>1. \A h \in 1..(n + 1) : h = 1 \/ (h - 1 \in 1..n /\ t[h] = s[h - 1])
      <3> SUFFICES ASSUME NEW h \in 1..(n + 1), h # 1
                   PROVE  h - 1 \in 1..n /\ t[h] = s[h - 1]
        OBVIOUS
      <3>1. h - 1 \in 1..n /\ (h - 1) + 1 = h
        BY <1>1
      <3> HIDE DEF t, n
      <3> QED BY <1>3, <3>1
    <2>2. \A g, h \in 1..n : s[g] # k /\ (s[g] = s[h] => g = h)
      BY <1>1 DEF Distinct
    <2> HIDE DEF t, n
    <2>3. CASE i = 1
      BY <1>3, <2>1, <2>2, <2>3
    <2>4. CASE j = 1
      BY <1>3, <2>1, <2>2, <2>4
    <2>5. CASE i # 1 /\ j # 1
      <3>1. i - 1 = j - 1
        BY <2>1, <2>2, <2>5
      <3> QED BY <1>1, <3>1
    <2> QED BY <2>3, <2>4, <2>5
  <1>9. nx \in [Nodes -> Nodes \cup {Nil}] /\ pv \in [Nodes -> Nodes \cup {Nil}]
    <2>1. HeadNode \in Nodes /\ Place(s, 1) \in Nodes
      BY <1>1, <1>2 DEF Nodes
    <2> HIDE DEF nx, pv
    <2> QED BY <1>1, <1>5, <1>6, <2>1
  <1>10. ASSUME NEW i \in 0..(n + 1)
         PROVE  nx[Place(t, i)] = Place(t, i + 1) /\ pv[Place(t, i + 1)] = Place(t, i)
    <2> HIDE DEF nx, pv, t, n
    <2>1. HeadNode \in Nodes /\ HeadNode # k /\ Place(s, 1) # k /\ Place(s, 1) \in Nodes
      BY <1>1, <1>2, <1>4, <1>5
    <2>2. CASE i = 0
      <3>1. nx[HeadNode] = k /\ pv[k] = HeadNode
        BY <1>1, <1>5, <1>6, <2>1
      <3> QED BY <1>7, <2>2, <3>1
    <2>3. CASE i = 1
      <3>1. nx[k] = Place(s, 1) /\ pv[Place(s, 1)] = k
        BY <1>1, <1>5, <1>6, <2>1
      <3> QED BY <1>1, <1>7, <2>3, <3>1
    <2>4. CASE i > 1
      <3> DEFINE j == i - 1
      <3>1. j \in 1..n /\ j + 1 \in 1..(n + 1) /\ j \in 1..(n + 1) /\ i = j + 1 /\ j \in 0..n
            /\ j + 1 # 1 /\ j # 0 /\ j \in 0..(n + 1) /\ 0 \in 0..(n + 1) /\ 1 \in 0..(n + 1)
            /\ j + 1 \in 0..(n + 1)
        BY <1>1, <2>4
      <3>2. Place(t, i) = Place(s, j) /\ Place(t, i + 1) = Place(s, j + 1)
        BY <1>7, <3>1
      <3> HIDE DEF j
      <3>3. /\ Place(s, j) # HeadNode /\ Place(s, j) # k /\ Place(s, j) \in Nodes
            /\ Place(s, j + 1) # Place(s, 1) /\ Place(s, j + 1) # k /\ Place(s, j + 1) \in Nodes
        BY <1>2, <1>4, <1>5, <3>1
      <3>4. nx[Place(s, j)] = l.next[Place(s, j)] /\ pv[Place(s, j + 1)] = l.prev[Place(s, j + 1)]
        BY <1>1, <1>6, <3>3
      <3> QED BY <1>1, <3>1, <3>2, <3>4
    <2> QED BY <1>1, <2>2, <2>3, <2>4
  <1> HIDE DEF t, nx, pv
  <1> QED BY <1>3, <1>8, <1>9, <1>10 DEF IsList, nx, pv, t

(* removeNode takes the m-th node out.                                      *)
LEMMA RemoveNodeKeeps ==
    ASSUME NEW l, NEW s, IsList(l, s), NEW m \in 1..Len(s)
    PROVE  /\ IsList(RemoveNode(l, s[m]), Abstract!RemoveAt(s, m))
           /\ \A i \in 1..(Len(s) - 1) : Abstract!RemoveAt(s, m)[i] # s[m]
  <1> DEFINE t == Abstract!RemoveAt(s, m)
             n == Len(s)
             nx == RemoveNode(l, s[m]).next
             pv == RemoveNode(l, s[m]).prev
             At(i) == IF i < m THEN i ELSE i + 1
  <1>1. /\ s \in Seq(Keys) /\ Distinct(s) /\ n \in Nat /\ m \in 1..n
        /\ l.next \in [Nodes -> Nodes \cup {Nil}] /\ l.prev \in [Nodes -> Nodes \cup {Nil}]
        /\ \A i \in 0..n : /\ l.next[Place(s, i)] = Place(s, i + 1)
                           /\ l.prev[Place(s, i + 1)] = Place(s, i)
    BY DEF IsList
  <1>2. /\ \A i \in 0..(n + 1) : Place(s, i) \in Nodes
        /\ \A i, j \in 0..(n + 1) : Place(s, i) = Place(s, j) => i = j
    BY <1>1, PlacesDiffer
  <1>3. /\ t \in Seq(Keys) /\ Len(t) = n - 1
        /\ \A j \in 1..(n - 1) : t[j] = s[At(j)]
    BY <1>1, RemoveAtIs
  <1>4. Place(s, m) = s[m]
    BY <1>1 DEF Place
  <1>5. l.prev[s[m]] = Place(s, m - 1) /\ l.next[s[m]] = Place(s, m + 1)
    <2>1. m - 1 \in 0..n /\ m \in 0..n /\ (m - 1) + 1 = m
      BY <1>1
    <2> HIDE DEF n
    <2> QED BY <1>1, <1>4, <2>1
  <1>6. /\ nx = [l.next EXCEPT ![Place(s, m - 1)] = Place(s, m + 1)]
        /\ pv = [l.prev EXCEPT ![Place(s, m + 1)] = Place(s, m - 1)]
    BY <1>5 DEF RemoveNode
  <1> HIDE DEF t, n
  <1>7. \A i \in 0..n : Place(t, i) = Place(s, At(i))
    <2> SUFFICES ASSUME NEW i \in 0..n
                 PROVE  Place(t, i) = Place(s, At(i))
      OBVIOUS
    <2>1. CASE i = 0
      BY <1>1, <2>1 DEF Place
    <2>2. CASE i = n
      BY <1>1, <1>3, <2>2 DEF Place, n
    <2>3. CASE i \in 1..(n - 1)
      <3>1. t[i] = s[At(i)] /\ At(i) \in 1..n
        BY <1>1, <1>3, <2>3
      <3>2. Place(t, i) = t[i]
        BY <1>1, <1>3, <2>3 DEF Place
      <3>3. \A j \in 1..n : Place(s, j) = s[j]
        BY <1>1 DEF Place, n
      <3> QED BY <3>1, <3>2, <3>3
    <2> QED BY <1>1, <2>1, <2>2, <2>3
  <1>8. Distinct(t) /\ \A i \in 1..(n - 1) : t[i] # s[m]
    <2>1. /\ \A i \in 1..(n - 1) : At(i) \in 1..n /\ At(i) # m
          /\ \A i, j \in 1..(n - 1) : At(i) = At(j) => i = j
      BY <1>1
    <2>2. \A i, j \in 1..n : s[i] = s[j] => i = j
      BY <1>1 DEF Distinct, n
    <2> HIDE DEF At
    <2>3. \A i, j \in 1..(n - 1) : t[i] = t[j] => i = j
      <3> SUFFICES ASSUME NEW i \in 1..(n - 1), NEW j \in 1..(n - 1), t[i] = t[j]
                   PROVE  i = j
        OBVIOUS
      <3>1. s[At(i)] = s[At(j)]
        BY <1>3
      <3> QED BY <2>1, <2>2, <3>1
    <2>4. \A i \in 1..(n - 1) : t[i] # s[m]
      <3> SUFFICES ASSUME NEW i \in 1..(n - 1), t[i] = s[m]
                   PROVE  FALSE
        OBVIOUS
      <3>1. s[At(i)] = s[m]
        BY <1>3
      <3> QED BY <1>1, <2>1, <2>2, <3>1
    <2> QED BY <1>3, <2>3, <2>4 DEF Distinct
  <1>9. nx \in [Nodes -> Nodes \cup {Nil}] /\ pv \in [Nodes -> Nodes \cup {Nil}]
    <2>1. Place(s, m - 1) \in Nodes /\ Place(s, m + 1) \in Nodes
      BY <1>1, <1>2
    <2> HIDE DEF nx, pv
    <2> QED BY <1>1, <1>6, <2>1
  <1>10. ASSUME NEW i \in 0..(n - 1)
         PROVE  nx[Place(t, i)] = Place(t, i + 1) /\ pv[Place(t, i + 1)] = Place(t, i)
    <2> HIDE DEF nx, pv
    <2>1. Place(t, i) = Place(s, At(i)) /\ Place(t, i + 1) = Place(s, At(i + 1))
      BY <1>1, <1>7
    <2>2. /\ At(i) \in 0..n /\ At(i + 1) \in 1..(n + 1)
          /\ \/ i = m - 1 /\ At(i) = m - 1 /\ At(i + 1) = m + 1
             \/ At(i) # m - 1 /\ At(i + 1) = At(i) + 1 /\ At(i + 1) # m + 1
      BY <1>1
    <2> HIDE DEF At
    <2>3. CASE At(i) = m - 1 /\ At(i + 1) = m + 1
      <3>1. Place(s, m - 1) \in Nodes /\ Place(s, m + 1) \in Nodes
        BY <1>1, <1>2
      <3>2. nx[Place(s, m - 1)] = Place(s, m + 1) /\ pv[Place(s, m + 1)] = Place(s, m - 1)
        BY <1>1, <1>6, <3>1
      <3> QED BY <2>1, <2>3, <3>2
    <2>4. CASE At(i) # m - 1 /\ At(i + 1) = At(i) + 1 /\ At(i + 1) # m + 1
      <3>1. /\ At(i) \in 0..(n + 1) /\ At(i) + 1 \in 0..(n + 1)
            /\ m - 1 \in 0..(n + 1) /\ m + 1 \in 0..(n + 1)
        BY <1>1, <2>2
      <3>2. /\ Place(s, At(i)) # Place(s, m - 1) /\ Place(s, At(i)) \in Nodes
            /\ Place(s, At(i) + 1) # Place(s, m + 1) /\ Place(s, At(i) + 1) \in Nodes
        BY <1>2, <2>4, <3>1
      <3>3. /\ nx[Place(s, At(i))] = l.next[Place(s, At(i))]
            /\ pv[Place(s, At(i) + 1)] = l.prev[Place(s, At(i) + 1)]
        BY <1>1, <1>6, <3>2
      <3> QED BY <1>1, <2>1, <2>2, <2>4, <3>3
    <2> QED BY <2>2, <2>3, <2>4
  <1> HIDE DEF nx, pv
  <1>11. \A i \in 0..Len(t) : nx[Place(t, i)] = Place(t, i + 1) /\ pv[Place(t, i + 1)] = Place(t, i)
    BY <1>3, <1>10
  <1> QED BY <1>3, <1>8, <1>9, <1>11 DEF IsList, nx, pv, t, n

(* moveToHead does both.                                                    *)
LEMMA MoveToHeadKeeps ==
    ASSUME NEW l, NEW s, IsList(l, s), NEW m \in 1..Len(s)
    PROVE  IsList(MoveToHead(l, s[m]), <<s[m]>> \o Abstract!RemoveAt(s, m))
  <1>1. s[m] \in Keys /\ s \in Seq(Keys)
    BY DEF IsList
  <1>2. Len(Abstract!RemoveAt(s, m)) = Len(s) - 1
    BY <1>1, RemoveAtIs
  <1> QED BY <1>1, <1>2, RemoveNodeKeeps, AddToHeadKeeps DEF MoveToHead

(* The oldest is the last one.                                              *)
LEMMA OldestIsLast ==
    ASSUME NEW l, NEW s, IsList(l, s)
    PROVE  Oldest(l) = Place(s, Len(s))
  <1>1. Len(s) \in 0..Len(s) /\ Place(s, Len(s) + 1) = TailNode
    BY DEF IsList, Place
  <1> QED BY <1>1 DEF IsList, Oldest
-----------------------------------------------------------------------------
(* The list holds the keys of the map, no more than it may.                 *)
KeysOf(s) == {s[i] : i \in 1..Len(s)}

(* The cache is in order with the keys s: listed, in the map, within capacity. *)
Held(s) == IsList(List, s) /\ cache = KeysOf(s) /\ Len(s) <= Capacity

ListInv == \E s \in Seq(Keys) : Held(s)

(* The keys s with their vectors, as RecencyCache has them. *)
Entries(s, val) == [i \in 1..Len(s) |-> <<s[i], val[s[i]]>>]

RecentKnown == \A s \in Seq(Keys) : Held(s) => Recent = Entries(s, value)

(* A list of distinct keys has as many as its set of keys. *)
LEMMA KeysCounted ==
    ASSUME NEW s \in Seq(Keys), Distinct(s)
    PROVE  IsFiniteSet(KeysOf(s)) /\ Cardinality(KeysOf(s)) = Len(s)
  <1> DEFINE n == Len(s)
             T == KeysOf(s)
  <1>1. n \in Nat /\ s \in [1..n -> T] /\ \A x \in T : \E i \in 1..n : s[i] = x
    BY DEF KeysOf
  <1>2. \A i, j \in 1..n : s[i] = s[j] => i = j
    BY DEF Distinct
  <1> HIDE DEF n, T
  <1>3. s \in Surjection(1..n, T) /\ s \in Injection(1..n, T)
    BY <1>1, <1>2 DEF Surjection, Injection, IsInjective
  <1>4. IsFiniteSet(1..n) /\ Cardinality(1..n) = n
    BY <1>1, FS_Interval
  <1> QED BY <1>3, <1>4, FS_Surjection DEF n, T

(* The walk along the links from the head meets the keys in their order.     *)
LEMMA WalkMeets ==
    ASSUME NEW s, IsList(List, s), Cardinality(cache) = Len(s)
    PROVE  \A i \in 0..Len(s) : walk[i] = Place(s, i)
  <1> DEFINE n == Len(s)
             w == [i \in 0..n |-> Place(s, i)]
             Bad == {i \in 0..n : walk[i] # Place(s, i)}
             Less == OpToRel(<, Nat)
  <1>1. n \in Nat /\ \A i \in 0..n : next[Place(s, i)] = Place(s, i + 1)
    BY DEF IsList, List
  <1>2. Place(s, 0) = HeadNode
    BY DEF Place
  <1>3. w = [i \in 0..n |-> IF i = 0 THEN HeadNode ELSE next[w[i - 1]]]
    <2> SUFFICES ASSUME NEW i \in 0..n
                 PROVE  Place(s, i) = IF i = 0 THEN HeadNode ELSE next[w[i - 1]]
      OBVIOUS
    <2>1. CASE i # 0
      <3>1. i - 1 \in 0..n /\ (i - 1) + 1 = i
        BY <1>1, <2>1
      <3> HIDE DEF n
      <3> QED BY <1>1, <2>1, <3>1
    <2> QED BY <1>2, <2>1
  <1> HIDE DEF w
  <1>4. walk = [i \in 0..n |-> IF i = 0 THEN HeadNode ELSE next[walk[i - 1]]]
    <2>1. walk = CHOOSE v : v = [i \in 0..n |-> IF i = 0 THEN HeadNode ELSE next[v[i - 1]]]
      BY DEF walk
    <2> HIDE DEF n
    <2> QED BY <1>3, <2>1, Zenon
  <1> HIDE DEF n
  <1> SUFFICES ASSUME Bad # {}
               PROVE  FALSE
    BY DEF n
  <1>5. PICK m \in Bad : \A k \in Bad : <<k, m>> \notin Less
    <2>1. Bad \subseteq Nat
      BY <1>1
    <2> HIDE DEF Bad
    <2>2. IsWellFoundedOn(Less, Nat)
      BY NatLessThanWellFounded
    <2> HIDE DEF Less
    <2> QED BY <2>1, <2>2, WFMin
  <1>6. m \in 0..n /\ walk[m] # Place(s, m)
    OBVIOUS
  <1>7. m # 0
    BY <1>2, <1>4, <1>6
  <1>8. m - 1 \in 0..n /\ m - 1 \notin Bad
    <2>1. m - 1 \in Nat /\ m \in Nat /\ m - 1 < m
      BY <1>1, <1>6, <1>7
    <2>2. <<m - 1, m>> \in Less
      BY <2>1 DEF OpToRel
    <2> HIDE DEF Less, Bad
    <2> QED BY <1>1, <1>5, <1>6, <2>1, <2>2
  <1>9. walk[m - 1] = Place(s, m - 1)
    BY <1>8
  <1>10. walk[m] = next[walk[m - 1]]
    BY <1>4, <1>6, <1>7
  <1>11. next[Place(s, m - 1)] = Place(s, m)
    <2>1. (m - 1) + 1 = m
      BY <1>1, <1>6
    <2> QED BY <1>1, <1>8, <2>1
  <1> QED BY <1>6, <1>9, <1>10, <1>11

(* The refinement mapping is the list of the keys that are held. *)
LEMMA RecentAlways == RecentKnown
  <1> SUFFICES ASSUME NEW s \in Seq(Keys), Held(s)
               PROVE  Recent = Entries(s, value)
    BY DEF RecentKnown
  <1>1. IsList(List, s) /\ Cardinality(cache) = Len(s)
    BY KeysCounted DEF Held, IsList
  <1>2. \A i \in 1..Len(s) : walk[i] = s[i]
    <2>1. \A i \in 1..Len(s) : i \in 0..Len(s) /\ Place(s, i) = s[i]
      BY DEF Place
    <2> QED BY <1>1, <2>1, WalkMeets
  <1>3. \A i \in 1..Len(s) : Order[i] = s[i]
    BY <1>1, <1>2 DEF Order
  <1> QED BY <1>1, <1>3 DEF Recent, Entries

(* What the operations of the cache make of the keys and of the vectors.    *)
Moved(s, m) == <<s[m]>> \o Abstract!RemoveAt(s, m)
Added(s, k) == <<k>> \o s
Last(s) == Abstract!RemoveAt(s, Len(s))

(* What a use may do to the list: move a key to the front, or put a new one
   there and drop the last one if there are now too many. *)
Renewal(s, t, k) == \E m \in 1..Len(s) : s[m] = k /\ t = Moved(s, m)
Addition(s, t, k) ==
    /\ \A i \in 1..Len(s) : s[i] # k
    /\ t = IF Len(s) + 1 > Capacity THEN Last(Added(s, k)) ELSE Added(s, k)

(* The list after a move, position by position. *)
LEMMA MovedIs ==
    ASSUME NEW S, NEW s \in Seq(S), NEW m \in 1..Len(s)
    PROVE  /\ Moved(s, m) \in Seq(S) /\ Len(Moved(s, m)) = Len(s) /\ Len(s) \in Nat
           /\ Moved(s, m)[1] = s[m]
           /\ \A j \in 1..(Len(s) - 1) : Moved(s, m)[j + 1] = s[IF j < m THEN j ELSE j + 1]
  <1> DEFINE r == Abstract!RemoveAt(s, m)
  <1>1. /\ r \in Seq(S) /\ Len(r) = Len(s) - 1 /\ s[m] \in S /\ Len(s) \in Nat
        /\ \A j \in 1..(Len(s) - 1) : r[j] = s[IF j < m THEN j ELSE j + 1]
    BY RemoveAtIs
  <1> HIDE DEF r
  <1>2. /\ <<s[m]>> \o r \in Seq(S) /\ Len(<<s[m]>> \o r) = Len(r) + 1
        /\ (<<s[m]>> \o r)[1] = s[m]
        /\ \A j \in 1..Len(r) : (<<s[m]>> \o r)[j + 1] = r[j]
    BY <1>1, InFront
  <1>3. Moved(s, m) = <<s[m]>> \o r
    BY DEF Moved, r
  <1> QED BY <1>1, <1>2, <1>3

(* The list without its last key. *)
LEMMA LastIs ==
    ASSUME NEW S, NEW s \in Seq(S), s # <<>>
    PROVE  /\ Last(s) \in Seq(S) /\ Len(Last(s)) = Len(s) - 1 /\ Len(s) \in Nat \ {0}
           /\ \A j \in 1..(Len(s) - 1) : Last(s)[j] = s[j]
  <1>1. Len(s) \in Nat /\ Len(s) \in 1..Len(s)
    OBVIOUS
  <1>2. /\ Last(s) \in Seq(S) /\ Len(Last(s)) = Len(s) - 1
        /\ \A j \in 1..(Len(s) - 1) : Last(s)[j] = s[IF j < Len(s) THEN j ELSE j + 1]
    BY <1>1, RemoveAtIs DEF Last
  <1> QED BY <1>1, <1>2

(* A move leaves the set of keys alone, *)
LEMMA MovedKeys ==
    ASSUME NEW s \in Seq(Keys), NEW m \in 1..Len(s)
    PROVE  KeysOf(Moved(s, m)) = KeysOf(s)
  <1> DEFINE t == Moved(s, m)
             n == Len(s)
  <1>1. /\ Len(t) = n /\ n \in Nat /\ t[1] = s[m] /\ m \in 1..n
        /\ \A j \in 1..(n - 1) : t[j + 1] = s[IF j < m THEN j ELSE j + 1]
    BY MovedIs
  <1> HIDE DEF t, n
  <1>2. ASSUME NEW i \in 1..n
        PROVE  \E j \in 1..n : t[i] = s[j]
    <2>1. CASE i = 1
      BY <1>1, <2>1
    <2>2. CASE i # 1
      <3>1. i - 1 \in 1..(n - 1) /\ (i - 1) + 1 = i
        BY <1>1, <2>2
      <3>2. t[i] = s[IF i - 1 < m THEN i - 1 ELSE i - 1 + 1]
        BY <1>1, <3>1
      <3>3. (IF i - 1 < m THEN i - 1 ELSE i - 1 + 1) \in 1..n
        BY <1>1, <3>1
      <3> QED BY <3>2, <3>3
    <2> QED BY <2>1, <2>2
  <1>3. ASSUME NEW j \in 1..n
        PROVE  \E i \in 1..n : t[i] = s[j]
    <2>1. CASE j = m
      BY <1>1, <2>1
    <2>2. CASE j < m
      <3>1. j \in 1..(n - 1) /\ j + 1 \in 1..n
        BY <1>1, <2>2
      <3> QED BY <1>1, <2>2, <3>1
    <2>3. CASE j > m
      <3>1. j - 1 \in 1..(n - 1) /\ (j - 1) + 1 = j /\ ~(j - 1 < m)
        BY <1>1, <2>3
      <3> QED BY <1>1, <3>1
    <2> QED BY <1>1, <2>1, <2>2, <2>3
  <1>4. \A x : (\E i \in 1..n : x = t[i]) <=> (\E j \in 1..n : x = s[j])
    <2> TAKE x
    <2>1. ASSUME NEW i \in 1..n, x = t[i]
          PROVE  \E j \in 1..n : x = s[j]
      BY <1>2, <2>1
    <2>2. ASSUME NEW j \in 1..n, x = s[j]
          PROVE  \E i \in 1..n : x = t[i]
      BY <1>3, <2>2
    <2> QED BY <2>1, <2>2
  <1>5. \A x : x \in KeysOf(t) <=> x \in KeysOf(s)
    BY <1>1, <1>4 DEF KeysOf, n
  <1> QED BY <1>5 DEF t

(* a new key joins them, *)
LEMMA AddedKeys ==
    ASSUME NEW s \in Seq(Keys), NEW k \in Keys
    PROVE  KeysOf(Added(s, k)) = KeysOf(s) \cup {k}
  <1> DEFINE t == Added(s, k)
             n == Len(s)
  <1>1. Len(t) = n + 1 /\ n \in Nat /\ t[1] = k /\ \A j \in 1..n : t[j + 1] = s[j]
    BY InFront DEF Added
  <1> HIDE DEF t, n
  <1>2. \A i \in 1..(n + 1) : i = 1 \/ (i - 1 \in 1..n /\ (i - 1) + 1 = i)
    BY <1>1
  <1>3. \A i \in 1..(n + 1) : t[i] = k \/ \E j \in 1..n : t[i] = s[j]
    BY <1>1, <1>2
  <1>4. \A j \in 1..n : j + 1 \in 1..(n + 1) /\ t[j + 1] = s[j]
    BY <1>1
  <1>5. 1 \in 1..(n + 1) /\ t[1] = k
    BY <1>1
  <1> QED BY <1>1, <1>3, <1>4, <1>5 DEF KeysOf, t, n

(* and the last one leaves them. *)
LEMMA LastKeys ==
    ASSUME NEW s \in Seq(Keys), s # <<>>, Distinct(s)
    PROVE  KeysOf(Last(s)) = KeysOf(s) \ {s[Len(s)]}
  <1> DEFINE t == Last(s)
             n == Len(s)
  <1>1. /\ Len(t) = n - 1 /\ n \in Nat \ {0} /\ \A j \in 1..(n - 1) : t[j] = s[j]
        /\ \A i, j \in 1..n : s[i] = s[j] => i = j
    BY LastIs DEF Distinct
  <1> HIDE DEF t, n
  <1>2. \A j \in 1..n : j = n \/ j \in 1..(n - 1)
    BY <1>1
  <1>3. \A j \in 1..(n - 1) : j \in 1..n /\ j # n /\ n \in 1..n
    BY <1>1
  <1>4. \A x : x \in {t[j] : j \in 1..(n - 1)} <=> x \in {s[j] : j \in 1..n} /\ x # s[n]
    BY <1>1, <1>2, <1>3
  <1> QED BY <1>1, <1>4 DEF KeysOf, t, n

(* The operations of the cache on the list. *)
LEMMA GetMoves ==
    ASSUME NEW s \in Seq(Keys), Held(s), NEW k \in Keys, Get(k)
    PROVE  /\ value' = value
           /\ \/ Held(s)' /\ Recent' = Recent
              \/ \E t \in Seq(Keys) : Held(t)' /\ Renewal(s, t, k)
  <1>1. IsList(List, s) /\ cache = KeysOf(s) /\ Len(s) <= Capacity
    BY DEF Held
  <1>2. cache' = cache /\ value' = value
    BY DEF Get
  <1>3. CASE k \notin cache
    <2>1. next' = next /\ prev' = prev
      BY <1>3 DEF Get
    <2>2. List' = List
      BY <2>1 DEF List
    <2>3. Held(s)'
      BY <1>1, <1>2, <2>2 DEF Held
    <2>4. Recent' = Recent
      <3>1. walk' = walk
        BY <1>2, <2>1 DEF walk
      <3>2. Order' = Order
        BY <1>2, <3>1 DEF Order
      <3> QED BY <1>2, <3>2 DEF Recent
    <2> QED BY <1>2, <2>3, <2>4
  <1>4. CASE k \in cache
    <2>1. PICK m \in 1..Len(s) : s[m] = k
      BY <1>1, <1>4 DEF KeysOf
    <2>2. next' = MoveToHead(List, k).next /\ prev' = MoveToHead(List, k).prev
      BY <1>4 DEF Get, LinksAre
    <2>3. List' = MoveToHead(List, k)
      BY <2>2 DEF List, MoveToHead, AddToHead
    <2>4. IsList(List', Moved(s, m)) /\ Moved(s, m) \in Seq(Keys)
      BY <1>1, <2>1, <2>3, MoveToHeadKeeps, MovedIs DEF Moved
    <2>5. KeysOf(Moved(s, m)) = KeysOf(s) /\ Len(Moved(s, m)) = Len(s)
      BY MovedKeys, MovedIs
    <2>6. Held(Moved(s, m))'
      BY <1>1, <1>2, <2>4, <2>5 DEF Held
    <2> QED BY <1>2, <2>1, <2>4, <2>6 DEF Renewal
  <1> QED BY <1>3, <1>4

(* A put of a text that is there renews it, another is added. *)
LEMMA PutMoves ==
    ASSUME NEW s \in Seq(Keys), Held(s), NEW k \in Keys, NEW v, Put(k, v)
    PROVE  /\ value' = [value EXCEPT ![k] = v]
           /\ \E t \in Seq(Keys) : /\ Held(t)'
                                   /\ Renewal(s, t, k) \/ Addition(s, t, k)
  <1>1. /\ IsList(List, s) /\ cache = KeysOf(s) /\ Len(s) <= Capacity /\ Distinct(s)
        /\ IsFiniteSet(cache) /\ Cardinality(cache) = Len(s) /\ Len(s) \in Nat
        /\ Capacity \in Nat \ {0}
    BY KeysCounted, CacheAssumption DEF Held, IsList
  <1>2. value' = [value EXCEPT ![k] = v]
    BY DEF Put
  <1> DEFINE added == AddToHead(List, k)
             last == Oldest(added)
             full == Cardinality(cache \cup {k}) > Capacity
  <1>3. /\ LinksAre(IF k \in cache THEN MoveToHead(List, k)
                    ELSE IF full THEN RemoveNode(added, last) ELSE added)
        /\ cache' = (cache \cup {k}) \ (IF full THEN {last} ELSE {})
    BY DEF Put
  <1>4. Cardinality(cache \cup {k}) = IF k \in cache THEN Len(s) ELSE Len(s) + 1
    BY <1>1, FS_AddElement
  <1>5. CASE k \in cache
    <2>1. PICK m \in 1..Len(s) : s[m] = k
      BY <1>1, <1>5 DEF KeysOf
    <2>2. /\ next' = MoveToHead(List, k).next /\ prev' = MoveToHead(List, k).prev
          /\ cache' = cache
      BY <1>1, <1>3, <1>4, <1>5 DEF LinksAre
    <2>3. List' = MoveToHead(List, k)
      BY <2>2 DEF List, MoveToHead, AddToHead
    <2>4. IsList(List', Moved(s, m)) /\ Moved(s, m) \in Seq(Keys)
      BY <1>1, <2>1, <2>3, MoveToHeadKeeps, MovedIs DEF Moved
    <2>5. KeysOf(Moved(s, m)) = KeysOf(s) /\ Len(Moved(s, m)) = Len(s)
      BY MovedKeys, MovedIs
    <2>6. Held(Moved(s, m))'
      BY <1>1, <2>2, <2>4, <2>5 DEF Held
    <2> QED BY <1>2, <2>1, <2>4, <2>6 DEF Renewal
  <1>6. CASE k \notin cache
    <2> DEFINE a == Added(s, k)
    <2>1. /\ \A i \in 1..Len(s) : s[i] # k
      BY <1>1, <1>6 DEF KeysOf
    <2>2. IsList(added, a) /\ a \in Seq(Keys) /\ Distinct(a)
      <3>1. IsList(added, a)
        BY <1>1, <2>1, AddToHeadKeeps DEF Added
      <3> HIDE DEF added, a
      <3> QED BY <3>1 DEF IsList
    <2>3. KeysOf(a) = cache \cup {k} /\ Len(a) = Len(s) + 1
      BY <1>1, AddedKeys, InFront DEF Added
    <2>4. CASE ~full
      <3>1. List' = added /\ cache' = cache \cup {k}
        BY <1>3, <1>6, <2>4 DEF LinksAre, List, AddToHead
      <3>2. Len(s) + 1 <= Capacity
        BY <1>1, <1>4, <1>6, <2>4
      <3> HIDE DEF a, added
      <3>3. Held(a)'
        BY <2>2, <2>3, <3>1, <3>2 DEF Held
      <3>4. Addition(s, a, k)
        BY <1>1, <2>1, <3>2 DEF Addition, a
      <3> QED BY <1>2, <2>2, <3>3, <3>4
    <2>5. CASE full
      <3>1. Len(s) + 1 > Capacity
        BY <1>1, <1>4, <1>6, <2>5
      <3>2. List' = RemoveNode(added, last) /\ cache' = (cache \cup {k}) \ {last}
        BY <1>3, <1>6, <2>5 DEF LinksAre, List, RemoveNode
      <3> HIDE DEF a, added
      <3>3. Len(a) \in 1..Len(a) /\ a # <<>>
        BY <1>1, <2>2, <2>3
      <3>4. last = a[Len(a)]
        <4>1. last = Place(a, Len(a))
          BY <2>2, OldestIsLast
        <4> HIDE DEF last
        <4> QED BY <3>3, <4>1 DEF Place
      <3> HIDE DEF last
      <3>5. IsList(List', Last(a))
        BY <2>2, <3>2, <3>3, <3>4, RemoveNodeKeeps DEF Last
      <3>6. KeysOf(Last(a)) = cache' /\ Len(Last(a)) = Len(s) /\ Last(a) \in Seq(Keys)
        <4>1. KeysOf(Last(a)) = KeysOf(a) \ {a[Len(a)]}
          BY <2>2, <3>3, LastKeys
        <4>2. Len(Last(a)) = Len(a) - 1 /\ Last(a) \in Seq(Keys)
          BY <2>2, <3>3, LastIs
        <4> QED BY <1>1, <2>3, <3>2, <3>4, <4>1, <4>2
      <3>7. Held(Last(a))'
        BY <1>1, <3>5, <3>6 DEF Held
      <3>8. Addition(s, Last(a), k)
        BY <1>1, <2>1, <3>1 DEF Addition, a
      <3> QED BY <1>2, <3>6, <3>7, <3>8
    <2> QED BY <2>4, <2>5
  <1> QED BY <1>5, <1>6

Pairs == Keys \X (Keys \cup {Nil})

(* Entries are pairs of a key and its vector. *)
LEMMA EntriesType ==
    ASSUME NEW s \in Seq(Keys), NEW val \in [Keys -> Keys \cup {Nil}]
    PROVE  /\ Entries(s, val) \in Seq(Pairs) /\ Len(Entries(s, val)) = Len(s)
           /\ DOMAIN Entries(s, val) = 1..Len(s) /\ Len(s) \in Nat
           /\ \A i \in 1..Len(s) : Entries(s, val)[i] = <<s[i], val[s[i]]>>
  <1>1. Len(s) \in Nat /\ \A i \in 1..Len(s) : s[i] \in Keys
    OBVIOUS
  <1>2. \A i \in 1..Len(s) : <<s[i], val[s[i]]>> \in Pairs
    BY <1>1 DEF Pairs
  <1>3. Entries(s, val) \in [1..Len(s) -> Pairs]
    BY <1>2 DEF Entries
  <1>4. Entries(s, val) \in Seq(Pairs)
    BY <1>1, <1>3, SeqDef
  <1> QED BY <1>1, <1>3, <1>4 DEF Entries

(* A key that is moved to the front takes its entry with it.                *)
LEMMA EntriesRenewed ==
    ASSUME NEW s \in Seq(Keys), Distinct(s), NEW m \in 1..Len(s),
           NEW a \in [Keys -> Keys \cup {Nil}], NEW b \in [Keys -> Keys \cup {Nil}],
           \A x \in Keys : x # s[m] => b[x] = a[x]
    PROVE  Entries(Moved(s, m), b) = <<<<s[m], b[s[m]]>>>> \o Abstract!RemoveAt(Entries(s, a), m)
  <1> DEFINE n == Len(s)
             k == s[m]
             t == Moved(s, m)
             e == <<k, b[k]>>
             es == Entries(s, a)
             r == Abstract!RemoveAt(es, m)
             f == <<e>> \o r
  <1>1. /\ n \in Nat /\ m \in 1..n /\ \A i \in 1..n : s[i] \in Keys
        /\ \A i, j \in 1..n : s[i] = s[j] => i = j
    BY DEF Distinct
  <1>2. /\ t \in Seq(Keys) /\ Len(t) = n /\ t[1] = k
        /\ \A j \in 1..(n - 1) : t[j + 1] = s[IF j < m THEN j ELSE j + 1]
    BY MovedIs
  <1>3. /\ es \in Seq(Pairs) /\ Len(es) = n
        /\ \A i \in 1..n : es[i] = <<s[i], a[s[i]]>>
    BY EntriesType
  <1>4. e \in Pairs
    BY <1>1 DEF Pairs
  <1> HIDE DEF es
  <1>5. /\ r \in Seq(Pairs) /\ Len(r) = n - 1
        /\ \A j \in 1..(n - 1) : r[j] = es[IF j < m THEN j ELSE j + 1]
    BY <1>1, <1>3, RemoveAtIs
  <1> HIDE DEF r, e
  <1>6. /\ f \in Seq(Pairs) /\ Len(f) = n /\ f[1] = e
        /\ \A j \in 1..(n - 1) : f[j + 1] = r[j]
    BY <1>1, <1>4, <1>5, InFront
  <1> HIDE DEF f, t
  <1>7. /\ Entries(t, b) \in Seq(Pairs) /\ Len(Entries(t, b)) = n
        /\ \A i \in 1..n : Entries(t, b)[i] = <<t[i], b[t[i]]>>
    BY <1>2, EntriesType
  <1>8. ASSUME NEW i \in 1..n
        PROVE  Entries(t, b)[i] = f[i]
    <2>1. CASE i = 1
      BY <1>1, <1>2, <1>6, <1>7, <2>1 DEF e
    <2>2. CASE i # 1
      <3> DEFINE j == i - 1
                 h == IF j < m THEN j ELSE j + 1
      <3>1. j \in 1..(n - 1) /\ j + 1 = i /\ h \in 1..n /\ h # m
        BY <1>1, <2>2
      <3> HIDE DEF j
      <3>2. t[i] = s[h] /\ f[i] = es[h]
        BY <1>2, <1>5, <1>6, <3>1
      <3> HIDE DEF h
      <3>3. s[h] # k /\ s[h] \in Keys
        BY <1>1, <3>1
      <3>4. b[s[h]] = a[s[h]]
        BY <3>3
      <3>5. es[h] = <<s[h], a[s[h]]>>
        BY <1>3, <3>1
      <3>6. Entries(t, b)[i] = <<t[i], b[t[i]]>>
        BY <1>7
      <3> QED BY <3>2, <3>4, <3>5, <3>6
    <2> QED BY <2>1, <2>2
  <1>9. Entries(t, b) = f
    BY <1>6, <1>7, <1>8, SeqEqual
  <1> QED BY <1>9 DEF t, f, e, r, es

(* A new key gets an entry in front of the others, *)
LEMMA EntriesAdded ==
    ASSUME NEW s \in Seq(Keys), NEW k \in Keys, \A i \in 1..Len(s) : s[i] # k,
           NEW a \in [Keys -> Keys \cup {Nil}], NEW b \in [Keys -> Keys \cup {Nil}],
           \A x \in Keys : x # k => b[x] = a[x]
    PROVE  Entries(Added(s, k), b) = <<<<k, b[k]>>>> \o Entries(s, a)
  <1> DEFINE n == Len(s)
             t == Added(s, k)
             e == <<k, b[k]>>
             es == Entries(s, a)
             f == <<e>> \o es
  <1>1. n \in Nat /\ \A i \in 1..n : s[i] \in Keys /\ s[i] # k
    OBVIOUS
  <1>2. /\ t \in Seq(Keys) /\ Len(t) = n + 1 /\ t[1] = k
        /\ \A j \in 1..n : t[j + 1] = s[j]
    BY InFront DEF Added
  <1>3. /\ es \in Seq(Pairs) /\ Len(es) = n
        /\ \A i \in 1..n : es[i] = <<s[i], a[s[i]]>>
    BY EntriesType
  <1>4. e \in Pairs
    BY DEF Pairs
  <1> HIDE DEF es, e
  <1>5. /\ f \in Seq(Pairs) /\ Len(f) = n + 1 /\ f[1] = e
        /\ \A j \in 1..n : f[j + 1] = es[j]
    BY <1>3, <1>4, InFront
  <1> HIDE DEF f, t
  <1>6. /\ Entries(t, b) \in Seq(Pairs) /\ Len(Entries(t, b)) = n + 1
        /\ \A i \in 1..(n + 1) : Entries(t, b)[i] = <<t[i], b[t[i]]>>
    BY <1>2, EntriesType
  <1>7. ASSUME NEW i \in 1..(n + 1)
        PROVE  Entries(t, b)[i] = f[i]
    <2>1. CASE i = 1
      BY <1>1, <1>2, <1>5, <1>6, <2>1 DEF e
    <2>2. CASE i # 1
      <3> DEFINE j == i - 1
      <3>1. j \in 1..n /\ j + 1 = i
        BY <1>1, <2>2
      <3> HIDE DEF j
      <3>2. t[i] = s[j] /\ f[i] = es[j] /\ b[s[j]] = a[s[j]]
        BY <1>1, <1>2, <1>5, <3>1
      <3>3. es[j] = <<s[j], a[s[j]]>>
        BY <1>3, <3>1
      <3>4. Entries(t, b)[i] = <<t[i], b[t[i]]>>
        BY <1>6
      <3> QED BY <3>2, <3>3, <3>4
    <2> QED BY <2>1, <2>2
  <1>8. Entries(t, b) = f
    BY <1>5, <1>6, <1>7, SeqEqual
  <1> QED BY <1>8 DEF t, f, e, es

(* and the last one loses its own.                                          *)
LEMMA EntriesCut ==
    ASSUME NEW t \in Seq(Keys), t # <<>>, NEW b \in [Keys -> Keys \cup {Nil}]
    PROVE  Entries(Last(t), b) = SubSeq(Entries(t, b), 1, Len(t) - 1)
  <1> DEFINE n == Len(t)
             es == Entries(t, b)
             l == Last(t)
             c == SubSeq(es, 1, n - 1)
  <1>1. l \in Seq(Keys) /\ Len(l) = n - 1 /\ n \in Nat \ {0} /\ \A j \in 1..(n - 1) : l[j] = t[j]
    BY LastIs
  <1>2. es \in Seq(Pairs) /\ Len(es) = n /\ \A i \in 1..n : es[i] = <<t[i], b[t[i]]>>
    BY EntriesType
  <1> HIDE DEF es, l
  <1>3. c \in Seq(Pairs) /\ Len(c) = n - 1 /\ \A i \in 1..(n - 1) : c[i] = es[i]
    <2>1. 1 \in Int /\ n - 1 \in Int /\ \A i \in 1..(n - 1) : es[i] \in Pairs
      BY <1>1, <1>2
    <2>2. /\ c \in Seq(Pairs) /\ Len(c) = IF 1 <= n - 1 THEN n - 1 - 1 + 1 ELSE 0
          /\ \A i \in 1..(n - 1 - 1 + 1) : c[i] = es[1 + i - 1]
      BY <2>1, SubSeqProperties
    <2> HIDE DEF c, n
    <2> QED BY <1>1, <2>2
  <1>4. /\ Entries(l, b) \in Seq(Pairs) /\ Len(Entries(l, b)) = n - 1
        /\ \A i \in 1..(n - 1) : Entries(l, b)[i] = <<l[i], b[l[i]]>>
    BY <1>1, EntriesType
  <1> HIDE DEF c, n
  <1>5. ASSUME NEW i \in 1..(n - 1)
        PROVE  Entries(l, b)[i] = c[i]
    <2>1. i \in 1..n
      BY <1>1
    <2>2. c[i] = <<t[i], b[t[i]]>>
      BY <1>2, <1>3, <2>1
    <2>3. Entries(l, b)[i] = <<l[i], b[l[i]]>> /\ l[i] = t[i]
      BY <1>1, <1>4
    <2> QED BY <2>2, <2>3
  <1>6. Entries(l, b) = c
    BY <1>3, <1>4, <1>5, SeqEqual
  <1> QED BY <1>6 DEF l, c, n, es

(* The list grows by no more than it may, whoever uses the cache.           *)
LEMMA CacheUses ==
    ASSUME IInv, Next
    PROVE  \/ UNCHANGED lru
           \/ \E k \in Keys : Get(k)
           \/ \E k, v \in Keys : Put(k, v)
  <1>1. CASE \E c \in Clients, list \in TextLists : GetTextEmbeddingBatch(c, list)
    BY <1>1 DEF GetTextEmbeddingBatch
  <1>2. ASSUME NEW c \in Clients, Continue(c)
        PROVE  \/ UNCHANGED lru
               \/ \E k \in Keys : Get(k)
               \/ \E k, v \in Keys : Put(k, v)
    <2>0. ClientTyped(c) /\ Request(c)
      BY ClientTypes DEF IInv
    <2>1. CASE NextBatch(c) \/ Answer(c) \/ Fail(c) \/ EndBatch(c)
      BY <2>1 DEF NextBatch, Answer, Fail, EndBatch
    <2>2. CASE LookUp(c)
      <3>1. position[c] + 1 \in 1..Len(texts[c]) /\ Get(texts[c][position[c] + 1])
        BY <2>0, <2>2 DEF LookUp, ClientTyped
      <3>2. texts[c][position[c] + 1] \in Keys
        BY <2>0, <3>1 DEF ClientTyped
      <3> QED BY <3>1, <3>2
    <2>3. CASE Fill(c)
      <3> DEFINE j == filled[c] + 1
                 i == Batch(c)[j]
      <3>1. pc[c] = "fill" /\ filled[c] < Len(embeddings[c]) /\ Put(texts[c][i], embeddings[c][j])
        BY <2>3 DEF Fill
      <3>2. from[c] < Len(needRequest[c]) /\ from[c] + Len(embeddings[c]) <= BatchEnd(c)
        BY <2>0, <3>1 DEF Request, InRange, TrueAnswer
      <3>3. /\ BatchEnd(c) \in (from[c] + 1)..Len(needRequest[c])
            /\ \A h \in 1..(BatchEnd(c) - from[c]) : Batch(c)[h] = needRequest[c][from[c] + h]
        BY <3>2, BatchIs DEF IInv
      <3>4. /\ j \in 1..Len(embeddings[c]) /\ j \in 1..(BatchEnd(c) - from[c])
            /\ from[c] + j \in 1..Len(needRequest[c])
        <4>1. /\ filled[c] \in Nat /\ from[c] \in Nat /\ Len(embeddings[c]) \in Nat
              /\ Len(needRequest[c]) \in Nat
          BY <2>0 DEF ClientTyped
        <4>2. j \in 1..Len(embeddings[c])
          BY <3>1, <4>1
        <4> HIDE DEF j
        <4> QED BY <3>2, <3>3, <4>1, <4>2
      <3>5. i = needRequest[c][from[c] + j]
        BY <3>3, <3>4
      <3>6. i \in 1..Len(texts[c])
        BY <2>0, <3>4, <3>5 DEF Request, InRange
      <3>7. texts[c][i] \in Keys /\ embeddings[c][j] \in Keys
        <4>1. texts[c] \in Seq(Keys) /\ embeddings[c] \in Seq(Keys)
          BY <2>0 DEF ClientTyped
        <4> HIDE DEF i, j
        <4> QED BY <3>4, <3>6, <4>1
      <3> HIDE DEF i, j
      <3> QED BY <3>1, <3>7
    <2> QED BY <1>2, <2>1, <2>2, <2>3 DEF Continue
  <1> QED BY <1>1, <1>2 DEF Next

(* Each use of the linked list is one of the sequence it stands for.        *)
LEMMA UseImplements ==
    ASSUME Types, Types', RecentKnown, RecentKnown', ListInv,
           \/ \E k \in Keys : Get(k)
           \/ \E k, v \in Keys : Put(k, v)
    PROVE  ListInv' /\ (Abstract!Next \/ Recent' = Recent)
  <1>1. PICK s \in Seq(Keys) : Held(s)
    BY DEF ListInv
  <1>2. /\ Recent = Entries(s, value) /\ Distinct(s) /\ Len(s) \in Nat /\ Len(s) <= Capacity
        /\ value \in [Keys -> Keys \cup {Nil}] /\ value' \in [Keys -> Keys \cup {Nil}]
        /\ Capacity \in Nat \ {0}
    <2>1. Recent = Entries(s, value)
      BY <1>1 DEF RecentKnown
    <2>2. Distinct(s) /\ Len(s) \in Nat /\ Len(s) <= Capacity
      BY <1>1 DEF Held, IsList
    <2> QED BY <2>1, <2>2, CacheAssumption DEF Types
  <1>3. /\ DOMAIN Recent = 1..Len(s)
        /\ \A i \in 1..Len(s) : Recent[i] = <<s[i], value[s[i]]>> /\ Recent[i][1] = s[i]
        /\ Recent \in Seq(Pairs) /\ Len(Recent) = Len(s)
    BY <1>2, EntriesType
  <1>4. ASSUME NEW t \in Seq(Keys), NEW k \in Keys, Held(t)', Renewal(s, t, k),
               \A x \in Keys : x # k => value'[x] = value[x]
        PROVE  \E m \in DOMAIN Recent :
                  /\ Recent[m][1] = k /\ Recent[m] = <<k, value[k]>>
                  /\ Recent' = <<<<k, value'[k]>>>> \o Abstract!RemoveAt(Recent, m)
    <2>1. PICK m \in 1..Len(s) : s[m] = k /\ t = Moved(s, m)
      BY <1>4 DEF Renewal
    <2>2. Recent' = Entries(t, value')
      BY <1>4 DEF RecentKnown
    <2>3. Entries(Moved(s, m), value') =
             <<<<s[m], value'[s[m]]>>>> \o Abstract!RemoveAt(Entries(s, value), m)
      BY <1>2, <1>4, <2>1, EntriesRenewed
    <2>4. Recent' = <<<<k, value'[k]>>>> \o Abstract!RemoveAt(Recent, m)
      BY <1>2, <2>1, <2>2, <2>3
    <2> QED BY <1>3, <2>1, <2>4
  <1>5. ASSUME NEW k \in Keys, Get(k)
        PROVE  ListInv' /\ (Abstract!Get(k) \/ Recent' = Recent)
    <2>1. value' = value
      BY <1>1, <1>5, GetMoves
    <2>2. CASE Held(s)' /\ Recent' = Recent
      BY <2>2 DEF ListInv
    <2>3. ASSUME NEW t \in Seq(Keys), Held(t)', Renewal(s, t, k)
          PROVE  ListInv' /\ Abstract!Get(k)
      <3>1. PICK m \in DOMAIN Recent :
               /\ Recent[m][1] = k /\ Recent[m] = <<k, value[k]>>
               /\ Recent' = <<<<k, value'[k]>>>> \o Abstract!RemoveAt(Recent, m)
        BY <1>4, <2>1, <2>3
      <3>2. Recent' = <<Recent[m]>> \o Abstract!RemoveAt(Recent, m)
        BY <2>1, <3>1
      <3> QED BY <2>3, <3>1, <3>2 DEF ListInv, Abstract!Get
    <2> QED BY <1>1, <1>5, <2>2, <2>3, GetMoves
  <1>6. ASSUME NEW k \in Keys, NEW v \in Keys, Put(k, v)
        PROVE  ListInv' /\ Abstract!Put(k, v)
    <2>1. PICK t \in Seq(Keys) : Held(t)' /\ (Renewal(s, t, k) \/ Addition(s, t, k))
      BY <1>1, <1>6, PutMoves
    <2>2. value' = [value EXCEPT ![k] = v]
      BY <1>1, <1>6, PutMoves
    <2>3. value'[k] = v /\ \A x \in Keys : x # k => value'[x] = value[x]
      BY <1>2, <2>2
    <2>4. CASE Renewal(s, t, k)
      <3>1. PICK m \in DOMAIN Recent :
               /\ Recent[m][1] = k
               /\ Recent' = <<<<k, v>>>> \o Abstract!RemoveAt(Recent, m)
        BY <1>4, <2>1, <2>3, <2>4
      <3> QED BY <2>1, <3>1 DEF ListInv, Abstract!Put, Abstract!Renew
    <2>5. CASE Addition(s, t, k)
      <3> DEFINE entries == <<<<k, v>>>> \o Recent
                 a == Added(s, k)
      <3>1. /\ \A i \in 1..Len(s) : s[i] # k
            /\ t = IF Len(s) + 1 > Capacity THEN Last(a) ELSE a
        BY <2>5 DEF Addition
      <3>2. Entries(a, value') = entries
        BY <1>2, <2>3, <3>1, EntriesAdded
      <3>3. a \in Seq(Keys) /\ Len(a) = Len(s) + 1 /\ a # <<>>
        <4>1. a \in Seq(Keys) /\ Len(a) = Len(s) + 1
          BY InFront DEF Added
        <4> HIDE DEF a
        <4> QED BY <1>2, <4>1
      <3>4. Len(entries) = Len(s) + 1
        BY <1>2, <3>2, <3>3, EntriesType
      <3> HIDE DEF entries, a
      <3>5. Recent' = Entries(t, value')
        BY <2>1 DEF RecentKnown
      <3>6. Recent' = IF Len(entries) > Capacity THEN SubSeq(entries, 1, Capacity) ELSE entries
        <4>1. CASE Len(s) + 1 > Capacity
          <5>1. Len(s) = Capacity /\ Len(a) - 1 = Capacity
            BY <1>2, <3>3, <4>1
          <5>2. Entries(Last(a), value') = SubSeq(Entries(a, value'), 1, Len(a) - 1)
            BY <1>2, <3>3, EntriesCut
          <5> QED BY <3>1, <3>2, <3>4, <3>5, <4>1, <5>1, <5>2
        <4>2. CASE ~(Len(s) + 1 > Capacity)
          BY <3>1, <3>2, <3>4, <3>5, <4>2
        <4> QED BY <4>1, <4>2
      <3>7. \A i \in DOMAIN Recent : Recent[i][1] # k
        BY <1>3, <3>1
      <3>8. Abstract!Add(k, v)
        BY <3>6, <3>7 DEF Abstract!Add, entries
      <3> QED BY <2>1, <3>8 DEF ListInv, Abstract!Put
    <2> QED BY <2>1, <2>4, <2>5
  <1> QED BY <1>5, <1>6 DEF Abstract!Next

(* The new cache is the empty sequence. *)
LEMMA InitImplements ==
    ASSUME Init, RecentKnown
    PROVE  ListInv /\ Abstract!Init
  <1>1. /\ next = [n \in Nodes |-> IF n = HeadNode THEN TailNode ELSE Nil]
        /\ prev = [n \in Nodes |-> IF n = TailNode THEN HeadNode ELSE Nil]
        /\ cache = {} /\ value \in [Keys -> Keys \cup {Nil}]
    BY DEF Init, LRUInit
  <1>2. <<>> \in Seq(Keys) /\ Len(<<>>) = 0 /\ 1..0 = {} /\ 0..0 = {0}
    OBVIOUS
  <1>3. Place(<<>>, 0) = HeadNode /\ Place(<<>>, 0 + 1) = TailNode
    BY <1>2 DEF Place
  <1>4. HeadNode \in Nodes /\ TailNode \in Nodes
    BY DEF Nodes
  <1>5. List.next = next /\ List.prev = prev
    BY DEF List
  <1>6. next[HeadNode] = TailNode /\ prev[TailNode] = HeadNode
    BY <1>1, <1>4
  <1>7. /\ next \in [Nodes -> Nodes \cup {Nil}] /\ prev \in [Nodes -> Nodes \cup {Nil}]
    BY <1>1, <1>4
  <1>8. IsList(List, <<>>)
    BY <1>2, <1>3, <1>5, <1>6, <1>7 DEF IsList, Distinct
  <1>9. KeysOf(<<>>) = {}
    BY <1>2 DEF KeysOf
  <1>10. Held(<<>>)
    BY <1>1, <1>2, <1>8, <1>9, CacheAssumption DEF Held
  <1>11. Recent = Entries(<<>>, value)
    BY <1>2, <1>10 DEF RecentKnown
  <1>12. Entries(<<>>, value) = <<>>
    <2>1. Entries(<<>>, value) \in Seq(Pairs) /\ Len(Entries(<<>>, value)) = 0
      BY <1>1, <1>2, EntriesType
    <2> QED BY <2>1
  <1> QED BY <1>2, <1>10, <1>11, <1>12 DEF ListInv, Abstract!Init

(* LRUCache of client.go (the map and the doubly linked list), for any        *)
(* capacity and any requests: read from its head it is the keys that were     *)
(* used last, each with its vector, and no key more than it may hold.       *)
THEOREM MostRecentKept == Spec => KeepsMostRecent
<1>1. Spec => []RecentKnown
  BY RecentAlways, PTL
<1>2. Init /\ RecentKnown => ListInv /\ Abstract!Init
  BY InitImplements
<1>3. IInv /\ IInv' /\ RecentKnown /\ RecentKnown' /\ ListInv /\ [Next]_vars =>
         ListInv' /\ [Abstract!Next]_Recent
  <2> SUFFICES ASSUME IInv, IInv', RecentKnown, RecentKnown', ListInv, [Next]_vars
               PROVE  ListInv' /\ (Abstract!Next \/ Recent' = Recent)
    OBVIOUS
  <2>1. CASE UNCHANGED lru
    <3>1. cache' = cache /\ value' = value /\ next' = next /\ prev' = prev
      BY <2>1 DEF lru
    <3>2. ListInv'
      BY <3>1 DEF ListInv, Held, List
    <3>3. Order' = Order
      <4>1. walk' = walk
        BY <3>1 DEF walk
      <4> QED BY <3>1, <4>1 DEF Order
    <3> QED BY <3>1, <3>2, <3>3 DEF Recent
  <2>2. CASE (\E k \in Keys : Get(k)) \/ \E k, v \in Keys : Put(k, v)
    BY <2>2, UseImplements DEF IInv
  <2>3. UNCHANGED vars => UNCHANGED lru
    BY DEF vars
  <2> QED BY <2>1, <2>2, <2>3, CacheUses
<1>4. Spec => Abstract!Init /\ [][Abstract!Next]_Recent
  BY <1>1, <1>2, <1>3, Invariance, PTL DEF Spec
<1> QED BY <1>4 DEF KeepsMostRecent, Abstract!Spec
=============================================================================
