------------------------------- MODULE Chunker -------------------------------
(***************************************************************************)
(* pkg/memory/chunker.go: a text is cut at its paragraphs; when that leaves  *)
(* one chunk that is too long, at its sentences; when that does too, at      *)
(* fixed distances.  A step is one iteration of a chunker's loop.           *)
(*                                                                         *)
(* A text is a sequence of classes of bytes: "n" a newline, "_" a space, tab *)
(* or carriage return, "f" a form feed, "w" a blank of TrimSpace alone (a     *)
(* vertical tab, the wide space), "." the end of a sentence, "a" the rest.   *)
(* Positions count from 0 and ends are exclusive, as in Go.  The text of a    *)
(* chunk is the sequence of the positions it was copied from, Inserted for a  *)
(* byte of a separator.                                                     *)
(***************************************************************************)
EXTENDS Integers, Sequences, FiniteSets, FiniteSetsExt, SequencesExt

CONSTANTS
    Texts,      \* the texts
    Configs     \* records [strategy, maxSize, overlap, minSize], as given

Inserted == -1
Classes == {"a", "n", "_", "f", "w", "."}

ASSUME ChunkerAssumption ==
    /\ Texts \subseteq Seq(Classes)
    /\ \A c \in Configs : {c.maxSize, c.overlap, c.minSize} \subseteq Int

VARIABLES
    text, config,
    chunker,        \* the one at work
    stage,          \* where its Chunk is
    pieces,         \* its paragraphs or sentences
    place,          \* how far splitParagraphs has come in the text
    next,           \* pieces it has gone through, or where the fixed one starts
    current,        \* the text of the chunk being built
    currentStart,
    chunks

chunkVars == <<text, config, chunker, stage, pieces, place, next, current, currentStart, chunks>>

\* NewChunker makes a configuration sensible.
NewChunker(c) ==
    LET maxSize == IF c.maxSize <= 0 THEN 1000 ELSE c.maxSize
        overlap == IF c.overlap < 0 THEN 100 ELSE c.overlap
    IN  [strategy |-> IF c.strategy \in {"sentence", "fixed"} THEN c.strategy ELSE "paragraph",
         maxSize |-> maxSize,
         overlap |-> IF overlap >= maxSize THEN maxSize \div 10 ELSE overlap,
         minSize |-> IF c.minSize <= 0 THEN 200 ELSE c.minSize]

ChunkInit ==
    /\ text \in Texts
    /\ config \in {NewChunker(c) : c \in Configs}
    /\ chunker = config.strategy
    /\ stage = "enter"
    /\ pieces = <<>>
    /\ place = 0
    /\ next = 0
    /\ current = <<>>
    /\ currentStart = 0
    /\ chunks = <<>>
-----------------------------------------------------------------------------
(* Spans of a text: [from |-> s, to |-> e] is text[s:e]. *)
Span(s, e) == [from |-> s, to |-> e]
Positions(t) == 0..(Len(t) - 1)
Whole(t) == Span(0, Len(t))
Within(s) == s.from..(s.to - 1)
Copy(s) == [i \in 1..(s.to - s.from) |-> s.from + i - 1]

Skipped == {"n", "_"}           \* what the search for a paragraph goes over
Spaces == Skipped \cup {"f"}    \* what \s stands for
Blank == Spaces \cup {"w"}      \* what TrimSpace knows

Of(t, classes) == {i \in Positions(t) : t[i + 1] \in classes}
Solid(t, s) == Within(s) \ Of(t, Blank)
TrimSpace(t, s) == IF Solid(t, s) = {} THEN Span(s.from, s.from)
                   ELSE Span(Min(Solid(t, s)), Max(Solid(t, s)) + 1)

InOrder(S) ==
    [i \in 1..Cardinality(S) |->
        CHOOSE s \in S : Cardinality({r \in S : r.from < s.from}) = i - 1]

Least(a, b) == IF a < b THEN a ELSE b
FirstFrom(t, i, classes) == Min({Len(t)} \cup {j \in Positions(t) : j >= i /\ t[j + 1] \notin classes})

(* splitParagraphs: the matches of \n\s*\n are the stretches of blanks that   *)
(* hold two newlines, from the first newline to the last.                   *)
Together(t, i, j) == ((i..j) \cup (j..i)) \subseteq Of(t, Spaces)

Separators(t) ==
    LET newlines == Of(t, {"n"})
    IN  {Span(p[1], p[2] + 1) : p \in
            {q \in newlines \X newlines :
                /\ q[1] < q[2]
                /\ Together(t, q[1], q[2])
                /\ \A k \in newlines : Together(t, q[1], k) => k \in q[1]..q[2]}}

Parts == [t \in Texts |->
    LET seps == InOrder(Separators(t))
        n == Len(seps)
    IN  [i \in 1..(n + 1) |-> Span(IF i = 1 THEN 0 ELSE seps[i - 1].to,
                                   IF i = n + 1 THEN Len(t) ELSE seps[i].from)]]

(* splitSentences: each ends behind its terminator and the blanks after it;   *)
(* what follows the last terminator is one more.                            *)
Sentences == [t \in Texts |->
    LET stops == {FirstFrom(t, i + 1, Spaces) : i \in Of(t, {"."})}
        ends == stops \cup {Len(t)}
        spans == {Span(Max({0} \cup {f \in ends : f < e}), e) : e \in ends}
        kept == InOrder(IF stops = {} THEN spans ELSE {s \in spans : Solid(t, s) # {}})
    IN  [i \in DOMAIN kept |->
            [words |-> TrimSpace(t, kept[i]), from |-> kept[i].from, to |-> kept[i].to]]]

Separator == IF chunker = "paragraph" THEN [i \in 1..2 |-> Inserted] ELSE [i \in 1..3 |-> Inserted]

\* getOverlapText
OverlapText(s, e) ==
    LET from == IF s < 0 THEN 0 ELSE s
        to == Least(e, Len(text))
    IN  IF from >= to THEN <<>> ELSE Copy(Span(from, to))
-----------------------------------------------------------------------------
Chunk(t, s, e) == [text |-> t, from |-> s, to |-> e]

Short ==
    /\ stage = "enter"
    /\ Len(text) <= config.maxSize
    /\ chunks' = <<Chunk(Copy(Whole(text)), 0, Len(text))>>
    /\ stage' = "done"
    /\ UNCHANGED <<text, config, chunker, pieces, place, next, current, currentStart>>

\* splitSentences is one step, splitParagraphs one for each part.
Split ==
    /\ stage = "enter"
    /\ Len(text) > config.maxSize
    /\ stage' = IF chunker = "paragraph" THEN "scan" ELSE "pack"
    /\ pieces' = IF chunker = "sentence" THEN Sentences[text] ELSE <<>>
    /\ UNCHANGED <<text, config, chunker, place, next, current, currentStart, chunks>>

Newlines(i) == {k \in 0..2 : i..(i + k - 1) \subseteq Of(text, {"n"})}

FaultyPlaced(part) == Span(place, place + TrimSpace(text, part).to - TrimSpace(text, part).from)  \* no blanks skipped

\* Where splitParagraphs takes a part to be.
Placed(part) ==
    LET trimmed == TrimSpace(text, part)
        start == FirstFrom(text, place, Skipped)
    IN  Span(start, Least(start + trimmed.to - trimmed.from, Len(text)))

ScanPart ==
    /\ stage = "scan"
    /\ next < Len(Parts[text])
    /\ LET part == Parts[text][next + 1]
           span == Placed(part)
       IN  IF Solid(text, part) = {}
           THEN /\ place' = Least(place + part.to - part.from + 2, Len(text))
                /\ UNCHANGED pieces
           ELSE /\ place' = span.to + Max(Newlines(span.to))
                /\ pieces' = Append(pieces, [words |-> TrimSpace(text, part),
                                             from |-> span.from, to |-> span.to])
    /\ next' = next + 1
    /\ UNCHANGED <<text, config, chunker, stage, current, currentStart, chunks>>

\* A blank text has no paragraphs.  There is always a sentence.
EndOfScan ==
    /\ stage = "scan"
    /\ next = Len(Parts[text])
    /\ next' = 0
    /\ \/ /\ pieces = <<>>
          /\ chunker' = "sentence"
          /\ stage' = "enter"
       \/ /\ pieces # <<>>
          /\ stage' = "pack"
          /\ UNCHANGED chunker
    /\ UNCHANGED <<text, config, pieces, place, current, currentStart, chunks>>

Packing == stage = "pack" /\ chunker # "fixed"

FaultyNewChunk(piece, words, end) ==  \* starts over only when there is an overlap
    /\ chunks' = Append(chunks, Chunk(current, currentStart, end))
    /\ current' = IF config.overlap > 0 THEN OverlapText(end - config.overlap, end) \o words
                                         ELSE current \o words
    /\ currentStart' = end - config.overlap

\* A new chunk begins with the end of the one before it.
NewChunk(piece, words, end) ==
    LET overlap == OverlapText(end - config.overlap, end)
    IN  /\ chunks' = Append(chunks, Chunk(current, currentStart, end))
        /\ IF config.overlap > 0 /\ overlap # <<>>
           THEN current' = overlap \o words /\ currentStart' = end - config.overlap
           ELSE current' = words /\ currentStart' = piece.from

FaultyTooLong(words) == Len(current) > config.maxSize  \* looks at what is there already

TooLong(words) ==
    /\ Len(current) + Len(words) + 1 > config.maxSize
    /\ Len(current) >= config.minSize

AddPiece ==
    /\ Packing
    /\ next < Len(pieces)
    /\ LET piece == pieces[next + 1]
           words == Copy(piece.words)
       IN  \/ /\ words = <<>>
              /\ UNCHANGED <<current, currentStart, chunks>>
           \/ /\ words # <<>> /\ current = <<>>
              /\ current' = words
              /\ currentStart' = piece.from
              /\ UNCHANGED chunks
           \/ /\ words # <<>> /\ current # <<>> /\ TooLong(words)
              /\ NewChunk(piece, words, pieces[next].to)
           \/ /\ words # <<>> /\ current # <<>> /\ ~TooLong(words)
              /\ current' = current \o Separator \o words
              /\ UNCHANGED <<currentStart, chunks>>
    /\ next' = next + 1
    /\ UNCHANGED <<text, config, chunker, stage, pieces, place>>

\* The last chunk; when it is the only one and too long, the next chunker.
LastChunk == IF current = <<>> THEN <<>>
             ELSE <<Chunk(current, currentStart, pieces[Len(pieces)].to)>>

FaultyEndOfPieces ==  \* drops what has not reached the smallest size
    /\ Packing
    /\ next = Len(pieces)
    /\ chunks' = IF Len(current) < config.minSize THEN chunks ELSE chunks \o LastChunk
    /\ stage' = "done"
    /\ UNCHANGED <<text, config, chunker, pieces, place, next, current, currentStart>>

EndOfPieces ==
    LET all == chunks \o LastChunk
    IN  /\ Packing
        /\ next = Len(pieces)
        /\ IF Len(all) = 1 /\ Len(all[1].text) > config.maxSize
           THEN /\ chunker' = IF chunker = "paragraph" THEN "sentence" ELSE "fixed"
                /\ stage' = "enter"
                /\ pieces' = <<>>
                /\ next' = 0
                /\ current' = <<>>
                /\ currentStart' = 0
                /\ chunks' = <<>>
           ELSE /\ chunks' = all
                /\ stage' = "done"
                /\ UNCHANGED <<chunker, pieces, place, next, current, currentStart>>
        /\ UNCHANGED <<text, config, place>>

(* The fixed chunker.  truncateAtBoundary is given no more than maxSize bytes *)
(* and gives them back.  With an overlap it never gets past the end of the    *)
(* text and cuts its last chunk again and again: the list has one of them.   *)
CutFixed ==
    LET end == Least(next + config.maxSize, Len(text))
        chunk == Chunk(Copy(Span(next, end)), next, end)
    IN  /\ stage = "pack"
        /\ chunker = "fixed"
        /\ next < Len(text)
        /\ chunks' = IF chunks # <<>> /\ chunks[Len(chunks)] = chunk THEN chunks
                     ELSE Append(chunks, chunk)
        /\ next' = end
        /\ stage' = "step back"
        /\ UNCHANGED <<text, config, chunker, pieces, place, current, currentStart>>

FaultyStepBack ==  \* a byte back even without an overlap
    /\ stage = "step back"
    /\ next' = IF next <= config.overlap THEN 0 ELSE next - config.overlap - 1
    /\ stage' = "pack"
    /\ UNCHANGED <<text, config, chunker, pieces, place, current, currentStart, chunks>>

StepBack ==
    /\ stage = "step back"
    /\ next' = IF next < config.overlap THEN 0 ELSE next - config.overlap
    /\ stage' = "pack"
    /\ UNCHANGED <<text, config, chunker, pieces, place, current, currentStart, chunks>>

EndOfFixed ==
    /\ stage = "pack"
    /\ chunker = "fixed"
    /\ next >= Len(text)
    /\ stage' = "done"
    /\ UNCHANGED <<text, config, chunker, pieces, place, next, current, currentStart, chunks>>

Step == Short \/ Split \/ ScanPart \/ EndOfScan \/ AddPiece \/ EndOfPieces \/ CutFixed \/ StepBack \/ EndOfFixed

ChunkSpec == ChunkInit /\ [][Step]_chunkVars

\* A chunker is a loop of one goroutine.
FairChunkSpec == ChunkSpec /\ WF_chunkVars(Step)
-----------------------------------------------------------------------------

Sources(t) == ToSet(t) \ {Inserted}

(* Whatever falls back to whatever: no byte that is not blank is lost.       *)
ContentKept ==
    stage = "done" =>
        Solid(text, Whole(text)) \subseteq UNION {Sources(chunks[i].text) : i \in DOMAIN chunks}

(* Without an overlap the chunks hold every byte in its order, and once.     *)
Ascending(t) == \A i, j \in DOMAIN t : i < j /\ Inserted \notin {t[i], t[j]} => t[i] < t[j]

NothingTwice ==
    stage = "done" /\ config.overlap = 0 =>
        \A i \in DOMAIN chunks :
           /\ Ascending(chunks[i].text)
           /\ i > 1 => \A a \in Sources(chunks[i - 1].text), b \in Sources(chunks[i].text) : a < b

(* StartIdx and EndIdx: the bytes of a chunk come from the span it names.  No *)
(* chunk begins behind its text, whatever the text.  None ends before it,     *)
(* unless splitParagraphs, which looks for a paragraph that TrimSpace trimmed, *)
(* meets a blank it does not go over, outside of the paragraphs: in           *)
(* "aaa\n\f\nbbb" it takes the form feed for the start of "bbb".  The start   *)
(* may lie before the text, as it is the end less the overlap.               *)
Findable ==
    \A i \in Of(text, Blank \ Skipped) :
        \E k \in DOMAIN Parts[text] : i \in Within(TrimSpace(text, Parts[text][k]))

SpansHoldTheirText ==
    \A i \in DOMAIN chunks : \A a \in Sources(chunks[i].text) :
        /\ chunks[i].from <= a
        /\ a < chunks[i].to \/ (chunker = "paragraph" /\ ~Findable)

(* The size of a chunk.  The checks count one byte for a separator of two or  *)
(* three; a piece is never cut, and a new chunk begins with the overlap.     *)
Largest(a, b) == IF a > b THEN a ELSE b
LongestPiece == Max({0} \cup {pieces[i].words.to - pieces[i].words.from : i \in DOMAIN pieces})

ChunksBounded ==
    Packing =>
        LET separator == Len(Separator)
            bound == Largest(config.maxSize + separator - 1,
                             LongestPiece + Largest(config.overlap, config.minSize - 1 + separator))
        IN  Len(current) <= bound /\ \A i \in DOMAIN chunks : Len(chunks[i].text) <= bound

(* Chunking ends, except for a text that reaches the fixed chunker with an    *)
(* overlap: after its last chunk it steps back, and never gets past the end.  *)
ChunkingEnds ==
    stage # "done" ~> (stage = "done" \/ (chunker = "fixed" /\ config.overlap > 0))
=============================================================================
