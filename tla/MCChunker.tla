------------------------------ MODULE MCChunker ------------------------------
(* The chunkers on texts of up to four tokens, one of them an odd blank at most. *)
EXTENDS Chunker

Tokens == {<<"a">>, <<"a", "a", "a">>, <<"n", "n">>, <<"_", "n">>, <<".">>, <<"w">>, <<"f">>}
OddBlanks(t) == {i \in DOMAIN t : t[i] \in {"f", "w"}}
SmallTexts == {t \in {FlattenSeq(s) : s \in UNION {[1..k -> Tokens] : k \in 0..4}} :
                 Cardinality(OddBlanks(t)) <= 1}

Config(s, m, o, min) == [strategy |-> s, maxSize |-> m, overlap |-> o, minSize |-> min]
SmallConfigs == {Config(s, 4, o, min) : s \in {"paragraph", "sentence"}, o \in {0, 2}, min \in {1, 5}}
                \cup {Config("fixed", 4, o, 1) : o \in {0, 2}}
                \cup {Config("", 3, 3, 1), Config("fixed", 0, -1, 0)}
=============================================================================
