------------------------- MODULE ContextEngineering -------------------------
(***************************************************************************)
(* pkg/task/context_engineering.go behind Service.GetOptimizedContext: the *)
(* text that stands for a task and for the tool calls of a client in the   *)
(* next prompt.  Older tool results are reduced to the references in them, *)
(* a text over the threshold is replaced by a summary the model writes,    *)
(* and a map of references goes with the answer.  The task is the one in   *)
(* Manager.activeTasks: others go on changing it while the model writes.   *)
(*                                                                         *)
(* A text is a sequence of items with a width each.  An item shows one     *)
(* decision, error, finding or tool call ("of" and "number"), and the      *)
(* references that can be read in it.  A result is a sequence of lines,    *)
(* and a line of a result begins with a reference or shows none, except    *)
(* the line that compressToolCall writes, which names several and begins   *)
(* with other words.                                                       *)
(***************************************************************************)
EXTENDS Integers, Sequences, SequencesExt, FiniteSets, FiniteSetsExt, Functions

CONSTANTS
    Names,                 \* of tools
    Results,               \* what tools can answer: sequences of lines
    KeepRecentToolResults, \* ContextEngineerConfig
    SummarizeThreshold,    \* ContextEngineerConfig
    SummaryMaxTokens,      \* ContextEngineerConfig
    MaxReferences,         \* of one result, 5 in extractReferences
    MaxResult,             \* of one result in the text, 200 bytes in buildTaskContext
    Shown,                 \* decisions and errors in the text, 3 in buildTaskContext
    MaxCalls, MaxRecords   \* bounds on the client's tool calls and on all the task's records

ASSUME ContextAssumption ==
    /\ {KeepRecentToolResults, SummarizeThreshold, SummaryMaxTokens} \subseteq Nat
    /\ {MaxReferences, MaxResult, Shown} \subseteq Nat \ {0}
    /\ {MaxCalls, MaxRecords} \subseteq Nat
    /\ Results \subseteq Seq([reference : BOOLEAN, shows : Seq(STRING), width : Nat])
    /\ \A result \in Results : \A i \in DOMAIN result : result[i].reference => result[i].shows # <<>>

VARIABLES
    exists,     \* the task was found: its context has a Task
    task,       \* how many decisions, errors, findings and resources it has
    toolCalls,  \* what the client has called, and sends with each request
    request     \* the request being served, and the answer to it

vars == <<exists, task, toolCalls, request>>

Kinds == {"decision", "error", "finding", "resource"}
Idle == [at |-> "idle", calls |-> <<>>, text |-> <<>>, by |-> "nobody",
         references |-> <<>>, known |-> [k \in Kinds |-> 0]]
-----------------------------------------------------------------------------
(* Texts. *)

Item(of, number, width, shows) ==
    [of |-> of, number |-> number, width |-> width, shows |-> shows]
Width(text) ==
    LET w[n \in 0..Len(text)] == IF n = 0 THEN 0 ELSE w[n - 1] + text[n].width
    IN  w[Len(text)]

\* text[:limit] + "...": an item that is cut cannot be read any more.
Cut(text, limit) ==
    LET fits == {n \in 0..Len(text) : Width(SubSeq(text, 1, n)) <= limit}
        whole == SubSeq(text, 1, Max(fits))
    IN  Append(whole, Item("...", 0, limit - Width(whole) + 1, <<>>))

FaultyRecent(n, k) == (IF n > k THEN n - k + 2 ELSE 1)..n   \* one too few
\* The positions of the last k of n, or of all when there are no more.
Recent(n, k) == (IF n > k THEN n - k + 1 ELSE 1)..n

Listed(of, numbers, width) ==
    [i \in 1..Cardinality(numbers) |-> Item(of, Min(numbers) + i - 1, width, <<>>)]
-----------------------------------------------------------------------------
(* ContextCompressor. *)

\* Lines that begin with "/", "./", "http://" or "https://".
extractReferences(result) ==
    LET lines == {i \in DOMAIN result : result[i].reference}
        line(k) == CHOOSE i \in lines : Cardinality({j \in lines : j <= i}) = k
        count == IF Cardinality(lines) > MaxReferences THEN MaxReferences ELSE Cardinality(lines)
    IN  [k \in 1..count |-> result[line(k)].shows[1]]

FaultycompressToolCall(tc) ==    \* keeps the name only
    [tc EXCEPT !.compressed = TRUE,
               !.result = <<[reference |-> FALSE, shows |-> <<>>, width |-> 1]>>]

compressToolCall(tc) ==
    LET references == extractReferences(tc.result)
    IN  [tc EXCEPT !.compressed = TRUE,
                   !.result = <<[reference |-> FALSE, shows |-> references,
                                 width |-> 1 + Len(references)]>>]

CompressToolResults(calls) ==
    [i \in DOMAIN calls |->
        IF i <= Len(calls) - KeepRecentToolResults THEN compressToolCall(calls[i])
        ELSE calls[i]]
-----------------------------------------------------------------------------
(* ContextSummarizer and ContextEngineer. *)

TaskHead == <<Item("task", 0, 1, <<>>)>>   \* goal, status, current phase, phases

buildContextContent(t) ==
    TaskHead \o Listed("decision", 1..t["decision"], 4) \o Listed("error", 1..t["error"], 3)
             \o Listed("finding", 1..t["finding"], 2)

\* A result that the compressor has not touched is cut to MaxResult.
ShownResult(tc) ==
    LET lines == [i \in DOMAIN tc.result |->
                    Item("line", i, tc.result[i].width, tc.result[i].shows)]
    IN  IF tc.compressed \/ Width(lines) <= MaxResult THEN lines ELSE Cut(lines, MaxResult)

ToolItem(calls, i) ==
    LET lines == ShownResult(calls[i])
    IN  Item("call", i, 1 + Width(lines), FlattenSeq([j \in DOMAIN lines |-> lines[j].shows]))

buildTaskContext(t, calls) ==
    IF ~ exists THEN <<>> ELSE
    TaskHead \o Listed("decision", Recent(t["decision"], Shown), 1)
             \o Listed("error", Recent(t["error"], Shown), 1)
             \o [i \in DOMAIN calls |-> ToolItem(calls, i)]

Keys(calls, i) ==
    {[of |-> "call", name |-> calls[i].name, at |-> k] : k \in DOMAIN extractReferences(calls[i].result)}

\* refs[<name>_ref_<k>]: a later call of the same tool takes the key.
\* refs[resource_<k>] is never one of these.
extractAllReferences(t, calls) ==
    LET whole == {i \in DOMAIN calls : ~ calls[i].compressed}
        taken(key) == {i \in whole : key \in Keys(calls, i)}
        resources == {[of |-> "resource", name |-> "resource", at |-> k] : k \in 1..t["resource"]}
    IN  [key \in UNION {Keys(calls, i) : i \in whole} \cup resources |->
            IF key.of = "resource" THEN "resource"
            ELSE extractReferences(calls[Max(taken(key))].result)[key.at]]
-----------------------------------------------------------------------------
Init ==
    /\ exists \in BOOLEAN
    /\ task = [k \in Kinds |-> 0]
    /\ toolCalls = <<>>
    /\ request = Idle

\* Other callers of the manager record something with the task.
Record(kind) ==
    /\ exists
    /\ FoldFunction(+, 0, task) < MaxRecords
    /\ task' = [task EXCEPT ![kind] = @ + 1]
    /\ UNCHANGED <<exists, toolCalls, request>>

\* The client calls a tool, or has the result compressed already.
CallTool(name, result, compressed) ==
    /\ request.at = "idle"
    /\ Len(toolCalls) < MaxCalls
    /\ toolCalls' = Append(toolCalls, [name |-> name, result |-> result, compressed |-> compressed])
    /\ UNCHANGED <<exists, task, request>>

GetOptimizedContext ==
    /\ request.at = "idle"
    /\ request' = [Idle EXCEPT !.at = "build", !.known = task,
                               !.calls = CompressToolResults(toolCalls)]
    /\ UNCHANGED <<exists, task, toolCalls>>

\* The threshold is compared with the text that has the tool calls in it,
\* while the summarizer reads the task again and leaves them out.
BuildTaskContext ==
    LET text == buildTaskContext(task, request.calls)
    IN  /\ request.at = "build"
        /\ request' = IF Width(text) > SummarizeThreshold
                      THEN [request EXCEPT !.at = "summarize"]
                      ELSE [request EXCEPT !.at = "extract", !.text = text, !.by = "task"]
        /\ UNCHANGED <<exists, task, toolCalls>>

SummarizeContext ==
    LET content == buildContextContent(task)
    IN  /\ request.at = "summarize"
        /\ request' = IF Width(content) < SummarizeThreshold
                      THEN [request EXCEPT !.at = "extract", !.text = content, !.by = "content"]
                      ELSE [request EXCEPT !.at = "model", !.text = content]
        /\ UNCHANGED <<exists, task, toolCalls>>

ModelAnswers ==
    /\ request.at = "model"
    /\ request' = [request EXCEPT !.at = "extract", !.by = "model",
                                  !.text = <<Item("summary", 0, 1, <<>>)>>]
    /\ UNCHANGED <<exists, task, toolCalls>>

FaultyModelFails ==   \* falls back on the whole content
    /\ request.at = "model"
    /\ request' = [request EXCEPT !.at = "extract", !.by = "content"]
    /\ UNCHANGED <<exists, task, toolCalls>>

ModelFails ==
    /\ request.at = "model"
    /\ request' = IF Width(request.text) > SummaryMaxTokens
                  THEN [request EXCEPT !.at = "extract", !.by = "cut",
                                       !.text = Cut(@, SummaryMaxTokens)]
                  ELSE [request EXCEPT !.at = "extract", !.by = "content"]
    /\ UNCHANGED <<exists, task, toolCalls>>

ExtractReferences ==
    /\ request.at = "extract"
    /\ request' = [request EXCEPT !.at = "answered",
                                  !.references = extractAllReferences(task, request.calls)]
    /\ UNCHANGED <<exists, task, toolCalls>>

\* The client has the answer and goes on.
Answered ==
    /\ request.at = "answered"
    /\ request' = Idle
    /\ UNCHANGED <<exists, task, toolCalls>>

Next ==
    \/ \E kind \in Kinds : Record(kind)
    \/ \E name \in Names, result \in Results, c \in BOOLEAN : CallTool(name, result, c)
    \/ GetOptimizedContext \/ BuildTaskContext \/ SummarizeContext
    \/ ModelAnswers \/ ModelFails \/ ExtractReferences \/ Answered

Spec == Init /\ [][Next]_vars
-----------------------------------------------------------------------------
IsSummarized == request.by # "task"
Readable == UNION {Range(item.shows) : item \in Range(request.text)}

(* The first references in a tool's result can be found in the answer,     *)
(* "to restore the full data": those of a recent call in the reference map, *)
(* summarised or not, and those of an older call in the line that stands   *)
(* for it.  Excepted are calls that came compressed, keys that a later     *)
(* call of the same tool takes, and old calls when the text is a summary,  *)
(* which leaves the tool calls out.                                        *)
ReferencesAreKept ==
    request.at = "answered" =>
        LET recent(i) == i > Len(toolCalls) - KeepRecentToolResults
        IN  \A i \in DOMAIN toolCalls : ~ toolCalls[i].compressed =>
                \A k \in DOMAIN extractReferences(toolCalls[i].result) :
                    LET ref == extractReferences(toolCalls[i].result)[k]
                        later == {j \in DOMAIN toolCalls :
                                    /\ j > i /\ toolCalls[j].name = toolCalls[i].name
                                    /\ ~ toolCalls[j].compressed
                                    /\ k \in DOMAIN extractReferences(toolCalls[j].result)}
                    IN  IF recent(i)
                        THEN later = {} => ref \in Range(request.references)
                        ELSE ~ IsSummarized /\ exists => ref \in Readable

(* The records of a kind that are not older than the last Shown of the     *)
(* first "newest" of them can be read.                                     *)
ShowsLast(text, kind, newest) ==
    \A n \in 1..newest : n > newest - Shown =>
        \E item \in Range(text) : item.of = kind /\ item.number = n

(* Unless the model summarised the task or failed to, the answer shows     *)
(* every one of the last Shown decisions, and of the last Shown errors, as *)
(* the lists stood at one moment since the client asked: none of them is   *)
(* missing or replaced by an older one, although the lists are cut, are    *)
(* read a second time for a summary, and go on growing meanwhile.          *)
NewestRecordsAreShown ==
    request.at = "answered" /\ request.by \in {"task", "content"} /\ exists =>
        \A kind \in {"decision", "error"} :
            \E newest \in request.known[kind]..task[kind] :
                ShowsLast(request.text, kind, newest)

(* An answer that the model has not written is bounded: by the threshold,  *)
(* or by the size of a summary when the model fails.                       *)
AnswersAreBounded ==
    request.at = "answered" /\ request.by # "model" =>
        Width(request.text) <= Max({SummarizeThreshold, SummaryMaxTokens + 1})
=============================================================================
