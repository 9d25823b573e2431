----------------------------- MODULE LongContext ----------------------------
(***************************************************************************)
(* `local-ai-lab workload long-context` (bench/long_context.py, cli.py):   *)
(* for every context window and needle position, cut the source so that    *)
(* the prompt, with the marker in it, fits the window.  Cutting is done in *)
(* tokens, but the tokens of a text put together from two decoded halves   *)
(* are not the sum of its parts: the prompt is encoded again and shortened *)
(* until it fits.                                                          *)
(***************************************************************************)
EXTENDS Integers, Sequences

CONSTANTS
    Windows,    \* values of --context-windows
    Needles,    \* values of --positions
    Reserves,   \* values of --reserve-tokens
    Sources,    \* lengths of the source, in tokens
    Overhead(_, _),   \* tokens of the instructions with the marker of a window
                      \* and a position, by themselves
    MaxDrift    \* bound: tokens that encoding the whole prompt adds or saves

ASSUME ContextAssumption ==
    /\ Windows \subseteq Seq(Nat) /\ Needles \subseteq Seq({"start", "middle", "end"})
    /\ Reserves \subseteq Nat /\ Sources \subseteq Nat
    /\ MaxDrift \in Nat
    /\ \A ws \in Windows : \A i \in DOMAIN ws : \A needle \in {"start", "middle", "end"} :
            Overhead(ws[i], needle) \in Nat

VARIABLES
    windows, needles, reserve, source,   \* the arguments
    pc,         \* "source", "validate", "budget", "shrink", "returned",
                \* or how the command ended: "written" (exit 0), "refused" (exit 2)
    at,         \* how many pairs of a window and a position are done
    selected,   \* tokens of the source in the prompt
    encoded,    \* tokens of the prompt
    cases,      \* the cases so far
    output      \* how many cases are in the workload file of this call

vars == <<windows, needles, reserve, source, pc, at, selected, encoded, cases, output>>
Arguments == <<windows, needles, reserve, source>>

Pairs == Len(windows) * Len(needles)
Window(k) == windows[(k \div Len(needles)) + 1]
Needle(k) == needles[(k % Len(needles)) + 1]
PromptBudget == Window(at) - reserve
Instructions == Overhead(Window(at), Needle(at))
SourceBudget == PromptBudget - Instructions

\* The values of the call's variables; one case per pair that is done.
TypeOK ==
    /\ windows \in Windows /\ needles \in Needles /\ reserve \in Reserves /\ source \in Sources
    /\ pc \in {"source", "validate", "budget", "shrink", "returned", "written", "refused"}
    /\ at \in 0..Pairs
    /\ selected \in 0..source
    /\ encoded \in Nat
    /\ Len(cases) = at
    /\ output \in 0..Pairs

Init ==
    /\ windows \in Windows /\ needles \in Needles /\ reserve \in Reserves /\ source \in Sources
    /\ pc = "source" /\ at = 0 /\ selected = 0 /\ encoded = 0
    /\ cases = <<>> /\ output = 0

-----------------------------------------------------------------------------
\* What the tokenizer may make of a prompt with n tokens of the source.
Encodings(n) ==
    IF n = 0 THEN {Instructions}
    ELSE {t \in (Instructions + n - MaxDrift)..(Instructions + n + MaxDrift) : t > 0}

\* The code's tests on its arguments.
ArgumentsValid ==
    /\ reserve > 0
    /\ windows # <<>> /\ \A i \in DOMAIN windows : windows[i] > reserve
    /\ needles # <<>>

\* The command: the source file and the tokenizer can be read, or not.
ReadSource ==
    /\ pc = "source"
    /\ pc' \in {"validate", "refused"}
    /\ UNCHANGED <<at, selected, encoded, cases, output, Arguments>>

Validate ==
    /\ pc = "validate"
    /\ pc' = IF ArgumentsValid THEN "budget" ELSE "refused"
    /\ UNCHANGED <<at, selected, encoded, cases>> /\ UNCHANGED <<output, Arguments>>

EnoughSource == SourceBudget > 0 /\ source >= SourceBudget

\* The next pair: raise, or select the first tokens of the source and encode.
Budget ==
    /\ pc = "budget" /\ at < Pairs
    /\ IF EnoughSource
       THEN /\ pc' = "shrink"
            /\ selected' = SourceBudget
            /\ encoded' \in Encodings(SourceBudget)
       ELSE pc' = "refused" /\ UNCHANGED <<selected, encoded>>
    /\ UNCHANGED <<at, cases>> /\ UNCHANGED <<output, Arguments>>

\* Faulty variants, here and below: plausible mistakes that the properties
\* must notice.  Nothing uses them.
FitsWindowOnly == encoded <= Window(at)

Fits == encoded <= PromptBudget

ShrinkInHalves ==
    /\ pc = "shrink" /\ ~Fits /\ selected > 0
    /\ selected' = selected \div 2
    /\ encoded' \in Encodings(selected \div 2)
    /\ UNCHANGED <<pc, at, cases>> /\ UNCHANGED <<output, Arguments>>

ShrinkNothing ==
    /\ pc = "shrink" /\ ~Fits /\ selected > 0
    /\ encoded' \in Encodings(selected)
    /\ UNCHANGED <<pc, at, selected, cases>> /\ UNCHANGED <<output, Arguments>>

\* One turn of the loop.
Shrink ==
    /\ pc = "shrink" /\ ~Fits /\ selected > 0
    /\ selected' = selected - 1
    /\ encoded' \in Encodings(selected - 1)
    /\ UNCHANGED <<pc, at, cases>> /\ UNCHANGED <<output, Arguments>>

\* round() of a half goes to the even neighbour.
Half(n) == LET h == n \div 2 IN IF n % 2 = 0 \/ h % 2 = 0 THEN h ELSE h + 1

SplitAtOther(needle, n) ==
    IF needle = "end" THEN 0 ELSE IF needle = "middle" THEN Half(n) ELSE n

\* _render's split_at.
SplitAt(needle, n) ==
    IF needle = "start" THEN 0 ELSE IF needle = "middle" THEN Half(n) ELSE n

SmallerOf(a, b) == IF a < b THEN a ELSE b

\* The case is appended; max_tokens is what the answer may take.
AppendCase ==
    /\ pc = "shrink" /\ (Fits \/ selected = 0)
    /\ LET before == SplitAt(Needle(at), selected)
       IN  cases' = Append(cases,
               [window |-> Window(at), needle |-> Needle(at), prompt |-> encoded,
                before |-> before, after |-> selected - before,
                answer |-> SmallerOf(reserve, 64)])
    /\ at' = at + 1 /\ pc' = "budget"
    /\ UNCHANGED <<selected, encoded>> /\ UNCHANGED <<output, Arguments>>

Return ==
    /\ pc = "budget" /\ at = Pairs
    /\ pc' = "returned"
    /\ UNCHANGED <<at, selected, encoded, cases>> /\ UNCHANGED <<output, Arguments>>

\* write_workload: the whole file, or an error after some of its lines.
WriteWorkload ==
    /\ pc = "returned"
    /\ \/ pc' = "written" /\ output' = Len(cases)
       \/ pc' = "refused" /\ output' \in 0..(Len(cases) - 1)
    /\ UNCHANGED <<at, selected, encoded, cases, Arguments>>

Next ==
    \/ ReadSource \/ Validate \/ Budget \/ Shrink \/ AppendCase \/ Return
    \/ WriteWorkload

Spec == Init /\ [][Next]_vars
FairSpec == Spec /\ WF_vars(Next)

-----------------------------------------------------------------------------
(* Properties.                                                             *)

\* Whatever the tokenizer makes of the assembled prompt, a case leaves the
\* reserve free and prompt and answer fit the context window together.
PromptFits ==
    \A k \in DOMAIN cases :
        /\ cases[k].prompt + reserve <= cases[k].window
        /\ cases[k].prompt + cases[k].answer <= cases[k].window

\* The marker is where the case says, also after the source was shortened:
\* before it, behind it, or with as much on either side.
NeedleWhereItSays ==
    \A k \in DOMAIN cases :
        LET c == cases[k]
        IN  CASE c.needle = "start"  -> c.before = 0
              [] c.needle = "end"    -> c.after = 0
              [] c.needle = "middle" -> c.before - c.after \in -1..1

\* A case is as long as its window claims: it is shortened no further than the
\* tokenizer's drift makes necessary.
PromptUsesTheWindow ==
    \A k \in DOMAIN cases :
        cases[k].window - reserve - cases[k].prompt <= 2 * MaxDrift

\* The command ends; it succeeds only with a file that holds a case for every
\* window and position, and one that it refuses leaves no such file.
EndsWell == \/ pc = "refused" /\ (output = 0 \/ output < Pairs)
            \/ pc = "written" /\ Len(cases) = Pairs /\ output = Pairs
CallEnds == <>EndsWell
=============================================================================
