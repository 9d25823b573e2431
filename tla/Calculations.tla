---------------------------- MODULE Calculations ----------------------------
(***************************************************************************)
(* The calculations behind the reports: the percentiles of                 *)
(* bench/metrics.py, the verdict on one request of bench/client.py, and    *)
(* the choice of rules of poc_b029/retrieval.py.  A behaviour is one call, *)
(* in the steps in which the code reads its input; a property compares     *)
(* what the call returns with a definition that does not follow the code.  *)
(***************************************************************************)
EXTENDS Integers, Sequences, FiniteSets, SequencesExt

CONSTANTS Samples,     \* inputs of summarize: non-empty sequences of numbers
          MaxEvents,   \* bound: events of a stream
          Embeddings   \* inputs of rank_rules: a query and one vector per rule

ASSUME InputAssumption ==
    /\ \A values \in Samples : values \in Seq(Nat) /\ values # <<>>
    /\ MaxEvents \in Nat
    /\ \A vectors \in Embeddings : /\ vectors \in Seq(Seq(Int)) /\ vectors # <<>>

VARIABLES
    call,     \* the call and its input so far
    work,     \* what the function has computed so far
    result    \* what it returned or raised
vars == <<call, work, result>>

Running == [verdict |-> "running"]

-----------------------------------------------------------------------------
(* metrics.py: summarize and _percentile, in hundredths.                   *)

AtMost(values, x) == {i \in DOMAIN values : values[i] <= x}
Under(values, x)  == {i \in DOMAIN values : values[i] < x}

\* sorted: at place k is the value that fewer than k lie under, and at least k
\* do not exceed.
Ordered(values) ==
    [k \in DOMAIN values |->
        CHOOSE x \in {values[i] : i \in DOMAIN values} :
            Cardinality(Under(values, x)) < k /\ k <= Cardinality(AtMost(values, x))]

\* Faulty variants, here and below: plausible mistakes that the properties
\* must notice.  Nothing uses them.
PercentileSwapped(s, p) ==
    LET position == (Len(s) - 1) * p
        lower    == position \div 100
        weight   == position % 100
    IN  IF weight = 0 THEN 100 * s[lower + 1]
        ELSE s[lower + 1] * weight + s[lower + 2] * (100 - weight)

Percentile(s, p) ==
    LET position == (Len(s) - 1) * p
        lower    == position \div 100
        weight   == position % 100
    IN  IF weight = 0 THEN 100 * s[lower + 1]
        ELSE s[lower + 1] * (100 - weight) + s[lower + 2] * weight

Percents == {50, 90, 95, 99}

Summarize(values) == [p \in Percents |-> Percentile(Ordered(values), p)]

CallSummarize ==
    \E values \in Samples :
        /\ call' = [of |-> "summarize", values |-> values]
        /\ result' = Summarize(values)
        /\ UNCHANGED work

-----------------------------------------------------------------------------
(* client.py: benchmark_chat.  An event of the stream has content or not,  *)
(* and usage: none, for many output tokens or one, or with counts that are *)
(* missing or zero; the clock may have moved when it is read.  The events  *)
(* are recorded with the moment they were read.                            *)

Event == [content : BOOLEAN, usage : {"none", "many", "one", "bad"}]
Ticks == 0..1

CallBenchmarkChat ==
    /\ call' = [of |-> "chat", events |-> <<>>, end |-> "open", at |-> 0]
    /\ work' = [now |-> 0, first |-> -1, usage |-> "none"]
    /\ result' = Running

InStream == call.of = "chat" /\ call.end = "open"

Receive(event, now) ==
    call' = [call EXCEPT !.events = Append(@, [content |-> event.content,
                                               usage |-> event.usage, at |-> now])]

ReadFirstUsage(event, now) ==
    /\ Len(call.events) < MaxEvents
    /\ Receive(event, now)
    /\ work' = [now   |-> now,
                first |-> IF work.first = -1 /\ event.content THEN now ELSE work.first,
                usage |-> IF work.usage = "none" THEN event.usage ELSE work.usage]
    /\ UNCHANGED result

\* One turn of the loop over the answer's lines.
ReadEvent(event, now) ==
    /\ Len(call.events) < MaxEvents
    /\ Receive(event, now)
    /\ work' = [now   |-> now,
                first |-> IF work.first = -1 /\ event.content THEN now ELSE work.first,
                usage |-> IF event.usage # "none" THEN event.usage ELSE work.usage]
    /\ UNCHANGED result

Failed(why, now) == [verdict |-> why, ttft |-> -1, e2e |-> now]

\* After the loop: the failures in their order, then calculate_stream_metrics,
\* which raises if several tokens, or the whole answer, took no time.
Judge(a, now) ==
    CASE a.first = -1 -> Failed("no content", now)
      [] a.first # -1 /\ a.usage \notin {"many", "one"} -> Failed("no usage", now)
      [] a.first # -1 /\ a.usage \in {"many", "one"} ->
            IF now = (IF a.usage = "many" THEN a.first ELSE 0)
            THEN Failed("raised", now)
            ELSE [verdict |-> "success", ttft |-> a.first, e2e |-> now]

\* How a request ends otherwise: an answer that is not 2xx, which is never
\* read; a line that is not JSON, or JSON but no object; a timeout; any other
\* error of the transport.
Cut == {"status", "malformed", "raised", "timeout", "broken"}

EndStream(end, now) ==
    /\ end = "status" => call.events = <<>>
    /\ call' = [call EXCEPT !.end = end, !.at = now]
    /\ result' = IF end = "done" THEN Judge(work, now) ELSE Failed(end, now)
    /\ UNCHANGED work

BenchmarkChat ==
    /\ InStream
    /\ \E tick \in Ticks :
          \/ \E event \in Event : ReadEvent(event, work.now + tick)
          \/ \E end \in Cut \cup {"done"} : EndStream(end, work.now + tick)

-----------------------------------------------------------------------------
\* benchmark_embedding: `http` is how the request ended, `body` what the answer
\* is as JSON, `vectors` the length of its data, -1 if that is no list.
Reply == [http : {"timeout", "broken", "status", "ok"},
          body : {"object", "other", "none"}, vectors : -1..2]

BenchmarkEmbedding(reply) ==
    LET None(why) == [verdict |-> why, items |-> 0]
    IN  CASE reply.http # "ok" -> None(reply.http)
          [] reply.http = "ok" ->
                CASE reply.body = "none"     -> None("malformed")
                  [] reply.body = "other"    -> None("raised")
                  [] reply.body = "object"   ->
                        IF reply.vectors \in -1..0 THEN None("no vectors")
                        ELSE [verdict |-> "success", items |-> reply.vectors]

CallBenchmarkEmbedding ==
    \E reply \in Reply :
        /\ call' = [of |-> "embedding", reply |-> reply]
        /\ result' = BenchmarkEmbedding(reply)
        /\ UNCHANGED work

-----------------------------------------------------------------------------
(* retrieval.py: rank_rules, on integer vectors and without rounding.      *)

Dot(a, b) ==
    LET sum[n \in 0..Len(a)] == IF n = 0 THEN 0 ELSE sum[n - 1] + a[n] * b[n]
    IN  sum[Len(a)]
Signed(x) == IF x < 0 THEN -(x * x) ELSE x * x

\* _cosine(q, a) > _cosine(q, b): the query's length cancels out.
Closer(q, a, b) == Signed(Dot(q, a)) * Dot(b, b) > Signed(Dot(q, b)) * Dot(a, a)

InsertBeforeEquals(q, v, order, i) ==
    LET k == Cardinality({n \in DOMAIN order : Closer(q, v[order[n]], v[i])})
    IN  InsertAt(order, k + 1, i)

\* sorted(reverse=True) is stable: a rule goes after those that are as close.
InsertRule(q, v, order, i) ==
    LET k == Cardinality({n \in DOMAIN order : ~Closer(q, v[i], v[order[n]])})
    IN  InsertAt(order, k + 1, i)

Limit == 3
ZeroMagnitude(x) == Dot(x, x) = 0

\* No rules, vectors that are empty or of different lengths, or that have no
\* direction.
Refused(vectors) ==
    \/ Len(vectors) < 2
    \/ \E i \in DOMAIN vectors : \/ vectors[i] = <<>> \/ Len(vectors[i]) # Len(vectors[1])
                                  \/ ZeroMagnitude(vectors[i])

CallRankRules ==
    \E vectors \in Embeddings :
        /\ call' = [of |-> "rank", query |-> Head(vectors), rules |-> Tail(vectors),
                    refused |-> Refused(vectors)]
        /\ work' = <<>>
        /\ result' = IF Refused(vectors) THEN [verdict |-> "refused", rules |-> <<>>] ELSE Running

\* The rules are put in order one after the other; then the first are taken.
RankRules ==
    /\ call.of = "rank" /\ result = Running
    /\ IF Len(work) < Len(call.rules)
       THEN /\ work' = InsertRule(call.query, call.rules, work, Len(work) + 1)
            /\ UNCHANGED result
       ELSE /\ result' = [verdict |-> "ranked",
                          rules |-> SubSeq(work, 1, IF Len(work) < Limit THEN Len(work) ELSE Limit)]
            /\ UNCHANGED work
    /\ UNCHANGED call

-----------------------------------------------------------------------------
Init == call = [of |-> "nothing"] /\ work = <<>> /\ result = Running

Begin ==
    /\ call.of = "nothing"
    /\ CallSummarize \/ CallBenchmarkChat \/ CallBenchmarkEmbedding \/ CallRankRules

Next == Begin \/ BenchmarkChat \/ RankRules

Spec == Init /\ [][Next]_vars

-----------------------------------------------------------------------------
(* Properties.                                                             *)

LargestOf(values) == CHOOSE x \in {values[i] : i \in DOMAIN values} :
                         \A i \in DOMAIN values : values[i] <= x
SmallestOf(values) == CHOOSE x \in {values[i] : i \in DOMAIN values} :
                         \A i \in DOMAIN values : values[i] >= x

\* Percentiles grow with the percentage and stay between the smallest and the
\* largest value.
PercentilesGrow ==
    call.of = "summarize" =>
        /\ 100 * SmallestOf(call.values) <= result[50]
        /\ result[50] <= result[90] /\ result[90] <= result[95] /\ result[95] <= result[99]
        /\ result[99] <= 100 * LargestOf(call.values)

\* A percentile cuts the sample where it says: no more values lie below it, and
\* no more above it, than its share of the gaps between them, rounded up.
PercentilesCut ==
    call.of = "summarize" =>
        \A p \in Percents :
            LET gaps  == Len(call.values) - 1
                Below == {i \in DOMAIN call.values : 100 * call.values[i] < result[p]}
                Above == {i \in DOMAIN call.values : 100 * call.values[i] > result[p]}
            IN  /\ 100 * Cardinality(Below) <= p * gaps + 99
                /\ 100 * Cardinality(Above) <= (100 - p) * gaps + 99

\* The percentiles of a report grow and stay within the sample, and each cuts it
\* where it says.
PercentilesAreRight == PercentilesGrow /\ PercentilesCut

\* A request counts as a success only if the stream ended by itself, some event
\* had content and the last usage that was sent has token counts; its time to
\* first token is that of the first content, within the end-to-end time.  An
\* answer that deserves it fails to be one only if the clock stood still.
ChatSuccessIsEarned ==
    call.of = "chat" =>
        LET E == call.events
            Contents == {k \in DOMAIN E : E[k].content}
            Usages   == {k \in DOMAIN E : E[k].usage # "none"}
            Ending(u) == \E k \in Usages : E[k].usage = u /\ \A j \in Usages : j <= k
            Sound == call.end = "done" /\ Contents # {} /\ (Ending("many") \/ Ending("one"))
            Opening == E[CHOOSE k \in Contents : \A j \in Contents : k <= j].at
            Still == call.at = IF Ending("many") THEN Opening ELSE 0
        IN  /\ result.verdict = "success" <=> Sound /\ ~Still
            /\ result.verdict = "success" =>
                   result.ttft = Opening /\ result.e2e = call.at /\ Opening <= call.at
            /\ result.verdict = "raised" <=> (Sound /\ Still) \/ call.end = "raised"

\* The same for either kind of request; one for embeddings has vectors, as many
\* as it reports.
SuccessIsEarned ==
    /\ ChatSuccessIsEarned
    /\ call.of = "embedding" /\ result.verdict = "success" =>
           /\ call.reply.http = "ok" /\ call.reply.body = "object"
           /\ result.items > 0 /\ result.items = call.reply.vectors

\* The selected rules are the closest ones, in order of closeness and, where
\* equally close, in the order of the rule file, as many as asked for; nothing
\* is selected from vectors that cannot be compared.
ClosestRulesFirst ==
    call.of = "rank" /\ result # Running =>
        LET q == call.query
            v == call.rules
            Ahead(i) == {j \in DOMAIN v : Closer(q, v[j], v[i])
                                          \/ (j < i /\ ~Closer(q, v[i], v[j]))}
        IN  IF call.refused THEN result.rules = <<>>
            ELSE /\ \A i \in DOMAIN v : Cardinality(Ahead(i)) < Limit =>
                        result.rules[Cardinality(Ahead(i)) + 1] = i
                 /\ Len(result.rules) = IF Len(v) < Limit THEN Len(v) ELSE Limit
=============================================================================
