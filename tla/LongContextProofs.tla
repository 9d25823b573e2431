-------------------------- MODULE LongContextProofs ---------------------------
(***************************************************************************)
(* Theorems about LongContext for any arguments, sources and tokenizers,   *)
(* whose drift is MaxDrift tokens at most.  The argument: the source is    *)
(* cut no further than the first length at which the prompt fits, and one  *)
(* token more of it would not have fitted.                                 *)
(***************************************************************************)
EXTENDS LongContext, TLAPS

NeedlePlaces == {"start", "middle", "end"}
Rows == [window : Int, needle : NeedlePlaces, prompt : Int, before : Int, after : Int,
         answer : Int]

Types ==
    /\ windows \in Windows /\ windows \in Seq(Nat)
    /\ needles \in Seq(NeedlePlaces) /\ reserve \in Nat
    /\ at \in Nat /\ selected \in Nat /\ cases \in Seq(Rows)

\* No pair is done before the validation; past it the loop has sound bounds.
Bounded ==
    /\ pc \in {"source", "validate"} => at = 0
    /\ pc \in {"budget", "shrink"} =>
        /\ reserve > 0 /\ needles # <<>>
        /\ at <= Pairs

\* Inside the loop: the prompt is that of `selected` tokens, and with more of
\* them than the drift can account for it would not have fitted.
Shrinking ==
    pc = "shrink" =>
        /\ at < Pairs /\ SourceBudget > 0
        /\ selected <= SourceBudget /\ selected >= SourceBudget - MaxDrift
        /\ encoded \in Encodings(selected)

Good(c) ==
    /\ c.prompt + reserve <= c.window /\ c.prompt + c.answer <= c.window
    /\ c.needle = "start" => c.before = 0
    /\ c.needle = "end" => c.after = 0
    /\ c.needle = "middle" => c.before - c.after \in -1..1
    /\ c.window - reserve - c.prompt <= 2 * MaxDrift

AllGood == \A k \in DOMAIN cases : Good(cases[k])

\* The inductive invariant.
IInv == Types /\ Bounded /\ Shrinking /\ AllGood

-----------------------------------------------------------------------------
LEMMA Constants ==
    /\ Windows \subseteq Seq(Nat) /\ Needles \subseteq Seq(NeedlePlaces)
    /\ Reserves \subseteq Nat /\ Sources \subseteq Nat
    /\ MaxDrift \in Nat
BY ContextAssumption DEF NeedlePlaces

LEMMA Quotient ==
    ASSUME NEW W \in Nat, NEW N \in Nat \ {0}, NEW k \in Nat, k < W * N
    PROVE  (k \div N) \in Nat /\ (k \div N) < W /\ (k % N) \in 0..(N - 1)
<1>1. /\ (k \div N) \in Nat /\ (k % N) \in 0..(N - 1)
      /\ k = N * (k \div N) + (k % N)
  OBVIOUS
<1>2. ASSUME (k \div N) >= W PROVE FALSE
  <2>1. PICK d \in Nat : (k \div N) = W + d
    BY <1>1, <1>2
  <2>2. N * (W + d) >= N * W
    <3>1. N * (W + d) = N * W + N * d /\ N * d >= 0
      OBVIOUS
    <3>2. QED  BY <3>1
  <2>3. QED  BY <1>1, <2>1, <2>2
<1>3. QED  BY <1>1, <1>2

\* The pair that is worked at has a window and a needle.
LEMMA PairExists ==
    ASSUME Types, needles # <<>>, at < Pairs
    PROVE  /\ Window(at) \in Nat /\ Needle(at) \in NeedlePlaces
           /\ Instructions \in Nat
<1>1. Len(needles) \in Nat \ {0} /\ Len(windows) \in Nat /\ at \in Nat
  BY DEF Types
<1>2. /\ (at \div Len(needles)) \in Nat /\ (at \div Len(needles)) < Len(windows)
      /\ (at % Len(needles)) \in 0..(Len(needles) - 1)
  BY <1>1, Quotient DEF Pairs
<1>3. /\ (at \div Len(needles)) + 1 \in 1..Len(windows)
      /\ (at % Len(needles)) + 1 \in 1..Len(needles)
  BY <1>1, <1>2
<1>4. Window(at) \in Nat /\ Needle(at) \in NeedlePlaces
  BY <1>3 DEF Window, Needle, Types
<1>5. windows \in Windows /\ (at \div Len(needles)) + 1 \in DOMAIN windows
  BY <1>3 DEF Types
<1>6. Overhead(windows[(at \div Len(needles)) + 1], Needle(at)) \in Nat
  BY <1>4, <1>5, ContextAssumption DEF NeedlePlaces
<1>7. QED  BY <1>4, <1>6 DEF Instructions, Window

LEMMA HalfIsMiddle ==
    ASSUME NEW n \in Nat
    PROVE  Half(n) \in Nat /\ Half(n) - (n - Half(n)) \in -1..1
<1>1. (n \div 2) \in Nat /\ (n % 2) \in 0..1 /\ n = 2 * (n \div 2) + (n % 2)
  OBVIOUS
<1>2. CASE n % 2 = 0
  BY <1>1, <1>2 DEF Half
<1>3. CASE n % 2 = 1
  BY <1>1, <1>3 DEF Half
<1>4. QED  BY <1>1, <1>2, <1>3

\* What the tokenizer makes of a prompt is a number near the sum of its parts.
LEMMA Drift ==
    ASSUME Instructions \in Nat, NEW n \in Nat, NEW t \in Encodings(n)
    PROVE  t \in Nat /\ t >= Instructions + n - MaxDrift
           /\ t <= Instructions + n + MaxDrift /\ (n = 0 => t = Instructions)
BY Constants DEF Encodings

-----------------------------------------------------------------------------
LEMMA InitInv == Init => IInv
BY Constants DEF Init, IInv, Types, Bounded, Shrinking, AllGood

\* The case that is appended is as promised.
LEMMA CaseIsGood ==
    ASSUME IInv, AppendCase
    PROVE  cases' \in Seq(Rows) /\ AllGood'
<1> DEFINE before == SplitAt(Needle(at), selected)
           c == [window |-> Window(at), needle |-> Needle(at), prompt |-> encoded,
                 before |-> before, after |-> selected - before,
                 answer |-> SmallerOf(reserve, 64)]
<1>1. /\ Types /\ reserve > 0 /\ at < Pairs /\ SourceBudget > 0 /\ needles # <<>>
      /\ selected <= SourceBudget /\ selected >= SourceBudget - MaxDrift
      /\ encoded \in Encodings(selected) /\ (Fits \/ selected = 0)
      /\ cases' = Append(cases, c) /\ reserve' = reserve
  BY DEF IInv, AppendCase, Bounded, Shrinking, Arguments
<1>2. /\ Window(at) \in Nat /\ Needle(at) \in NeedlePlaces /\ reserve \in Nat
      /\ selected \in Nat /\ Instructions \in Nat /\ MaxDrift \in Nat
  BY <1>1, PairExists, Constants DEF Types
<1>3. /\ encoded \in Int /\ encoded >= Instructions + selected - MaxDrift
      /\ (selected = 0 => encoded = Instructions)
  BY <1>1, <1>2, Drift
<1>4. /\ before \in Nat /\ (Needle(at) = "start" => before = 0)
      /\ (Needle(at) = "end" => selected - before = 0)
      /\ (Needle(at) = "middle" => before - (selected - before) \in -1..1)
  BY <1>2, HalfIsMiddle DEF SplitAt, NeedlePlaces
<1>5. SmallerOf(reserve, 64) \in Nat /\ SmallerOf(reserve, 64) <= reserve
  BY <1>2 DEF SmallerOf
<1>6. encoded <= Window(at) - reserve
  BY <1>1, <1>2, <1>3 DEF Fits, SourceBudget, PromptBudget
<1>7. Window(at) - reserve - encoded <= 2 * MaxDrift
  BY <1>1, <1>2, <1>3 DEF SourceBudget, PromptBudget
<1> HIDE DEF before
<1>8. c \in Rows /\ Good(c)
  BY <1>2, <1>3, <1>4, <1>5, <1>6, <1>7 DEF Rows, Good
<1> HIDE DEF c
<1>9. /\ cases \in Seq(Rows) /\ Len(cases) \in Nat /\ DOMAIN cases = 1..Len(cases)
      /\ \A k \in DOMAIN cases : Good(cases[k])
  BY DEF IInv, Types, AllGood
<1>10. /\ cases' \in Seq(Rows) /\ DOMAIN cases' = 1..(Len(cases) + 1)
       /\ \A k \in 1..Len(cases) : cases'[k] = cases[k]
       /\ cases'[Len(cases) + 1] = c
  BY <1>1, <1>8, <1>9
<1>11. \A k \in DOMAIN cases' : Good(cases'[k])
  <2> SUFFICES ASSUME NEW k \in DOMAIN cases' PROVE Good(cases'[k])
    OBVIOUS
  <2>1. k \in 1..Len(cases) \/ k = Len(cases) + 1
    BY <1>9, <1>10
  <2>2. QED  BY <1>8, <1>9, <1>10, <2>1
<1>12. QED  BY <1>1, <1>10, <1>11 DEF AllGood, Good

LEMMA InvStep == IInv /\ [Next]_vars => IInv'
<1> SUFFICES ASSUME IInv, [Next]_vars PROVE IInv'
  OBVIOUS
<1> USE Constants
<1>1. Types /\ Bounded /\ Shrinking /\ AllGood
  BY DEF IInv
<1>2. Pairs \in Nat
  BY <1>1 DEF Pairs, Types
<1>3. CASE ReadSource \/ Validate
  <2>1. UNCHANGED <<at, selected, encoded, cases, Arguments>>
    BY <1>3 DEF ReadSource, Validate
  <2>2. pc' \in {"validate", "refused", "budget"} /\ pc \in {"source", "validate"}
    BY <1>3 DEF ReadSource, Validate
  <2>3. pc' = "budget" => ArgumentsValid
    BY <1>3 DEF ReadSource, Validate
  <2>4. at = 0 /\ 0 <= Pairs
    BY <1>1, <1>2, <2>2 DEF Bounded
  <2>5. Types' /\ AllGood'
    BY <1>1, <2>1 DEF Types, Arguments, AllGood, Good
  <2>6. Bounded' /\ Shrinking'
    BY <1>1, <2>1, <2>2, <2>3, <2>4
       DEF Bounded, Shrinking, ArgumentsValid, Arguments, Pairs
  <2>7. QED  BY <2>5, <2>6 DEF IInv
<1>4. CASE Budget
  <2>1. /\ pc = "budget" /\ at < Pairs /\ at' = at /\ cases' = cases
        /\ UNCHANGED Arguments /\ reserve > 0 /\ needles # <<>>
    BY <1>1, <1>4 DEF Budget, Bounded
  <2>2. SourceBudget \in Int
    <3>1. Window(at) \in Nat /\ Instructions \in Nat /\ reserve \in Nat
      BY <1>1, <2>1, PairExists DEF Types
    <3>2. QED  BY <3>1 DEF SourceBudget, PromptBudget
  <2>3. CASE EnoughSource
    <3>1. /\ SourceBudget > 0 /\ pc' = "shrink" /\ selected' = SourceBudget
          /\ encoded' \in Encodings(selected')
      BY <1>4, <2>3 DEF Budget, EnoughSource
    <3>2. SourceBudget' = SourceBudget /\ Pairs' = Pairs /\ Instructions' = Instructions
      BY <2>1 DEF SourceBudget, PromptBudget, Window, Needle, Instructions, Arguments, Pairs
    <3>3. Types'
      BY <1>1, <2>1, <2>2, <3>1 DEF Types, Arguments
    <3>4. Bounded' /\ AllGood'
      BY <1>1, <1>2, <2>1, <3>1, <3>2 DEF Bounded, AllGood, Good, Arguments, Types
    <3>5. selected' <= SourceBudget' /\ selected' >= SourceBudget' - MaxDrift
      BY <2>2, <3>1, <3>2
    <3>6. encoded' \in Encodings(selected)'
      BY <3>1, <3>2 DEF Encodings
    <3>7. Shrinking'
      BY <2>1, <3>1, <3>2, <3>5, <3>6 DEF Shrinking
    <3>8. QED  BY <3>3, <3>4, <3>7 DEF IInv
  <2>4. CASE ~EnoughSource
    BY <1>1, <1>4, <2>1, <2>4
       DEF Budget, IInv, Types, Bounded, Shrinking, Arguments, AllGood, Good
  <2>5. QED  BY <2>3, <2>4
<1>5. CASE Shrink
  <2>1. /\ pc = "shrink" /\ ~Fits /\ selected > 0 /\ selected' = selected - 1
        /\ encoded' \in Encodings(selected') /\ pc' = pc /\ at' = at /\ cases' = cases
        /\ UNCHANGED Arguments
    BY <1>5 DEF Shrink
  <2>2. /\ at < Pairs /\ SourceBudget > 0 /\ needles # <<>>
        /\ selected <= SourceBudget /\ encoded \in Encodings(selected)
    BY <1>1, <2>1 DEF Shrinking, Bounded
  <2>3. Window(at) \in Nat /\ Instructions \in Nat /\ reserve \in Nat /\ selected \in Nat
    BY <1>1, <2>2, PairExists DEF Types
  <2>4. encoded \in Int /\ encoded <= Instructions + selected + MaxDrift
    BY <2>2, <2>3, Drift
  <2>5. selected - 1 >= SourceBudget - MaxDrift /\ selected - 1 <= SourceBudget
    BY <2>1, <2>2, <2>3, <2>4 DEF Fits, SourceBudget, PromptBudget
  <2>6. SourceBudget' = SourceBudget /\ Pairs' = Pairs /\ Instructions' = Instructions
    BY <2>1 DEF SourceBudget, PromptBudget, Window, Needle, Instructions, Arguments, Pairs
  <2>7. Types'
    BY <1>1, <2>1, <2>3 DEF Types, Arguments
  <2>8. Bounded' /\ AllGood'
    BY <1>1, <2>1, <2>6 DEF Bounded, AllGood, Good, Arguments
  <2>9. encoded' \in Encodings(selected)'
    BY <2>1, <2>6 DEF Encodings
  <2>10. Shrinking'
    BY <2>1, <2>2, <2>5, <2>6, <2>9 DEF Shrinking
  <2>11. QED  BY <2>7, <2>8, <2>10 DEF IInv
<1>6. CASE AppendCase
  <2>1. /\ pc = "shrink" /\ pc' = "budget" /\ at' = at + 1 /\ selected' = selected
        /\ UNCHANGED Arguments
    BY <1>6 DEF AppendCase
  <2>2. /\ at \in Nat /\ at + 1 <= Pairs /\ reserve > 0 /\ needles # <<>>
    BY <1>1, <1>2, <2>1 DEF Shrinking, Bounded, Types
  <2>3. cases' \in Seq(Rows) /\ AllGood'
    BY <1>6, CaseIsGood
  <2>4. Types'
    BY <1>1, <2>1, <2>2, <2>3 DEF Types, Arguments
  <2>5. Bounded' /\ Shrinking'
    BY <2>1, <2>2 DEF Bounded, Shrinking, Arguments, Pairs
  <2>6. QED  BY <2>3, <2>4, <2>5 DEF IInv
<1>7. CASE Return \/ WriteWorkload \/ UNCHANGED vars
  <2>1. UNCHANGED <<at, selected, encoded, cases, Arguments>>
    BY <1>7 DEF Return, WriteWorkload, vars, Arguments
  <2>2. pc' = pc \/ pc' \in {"returned", "written", "refused"}
    BY <1>7 DEF Return, WriteWorkload, vars
  <2>3. Types' /\ AllGood'
    BY <1>1, <2>1 DEF Types, Arguments, AllGood, Good
  <2>4. Bounded' /\ Shrinking'
    BY <1>1, <2>1, <2>2 DEF Bounded, Shrinking, Arguments, Pairs, SourceBudget,
                            PromptBudget, Window, Needle, Instructions, Encodings
  <2>5. QED  BY <2>3, <2>4 DEF IInv
<1>8. QED  BY <1>3, <1>4, <1>5, <1>6, <1>7 DEF Next

LEMMA Invariance == Spec => []IInv
<1>1. QED  BY InitInv, InvStep, PTL DEF Spec

-----------------------------------------------------------------------------
(* The properties that the runs check.                                     *)

\* Whatever the tokenizer does within its drift, a prompt and its answer fit
\* the context window and the reserve stays free (bench/long_context.py).
THEOREM PromptsFit == Spec => []PromptFits
<1>1. IInv => PromptFits
  BY DEF IInv, PromptFits, AllGood, Good
<1>2. QED  BY <1>1, Invariance, PTL

\* The marker is at the position that the case names, however often the
\* source was shortened.
THEOREM NeedlesAreWhereTheySay == Spec => []NeedleWhereItSays
<1>1. IInv => NeedleWhereItSays
  <2> SUFFICES ASSUME IInv, NEW k \in DOMAIN cases
               PROVE  CASE cases[k].needle = "start"  -> cases[k].before = 0
                        [] cases[k].needle = "end"    -> cases[k].after = 0
                        [] cases[k].needle = "middle" ->
                              cases[k].before - cases[k].after \in -1..1
    BY DEF NeedleWhereItSays
  <2>1. Good(cases[k]) /\ cases[k] \in Rows
    BY DEF IInv, Types, AllGood
  <2>2. cases[k].needle \in NeedlePlaces
    BY <2>1 DEF Rows
  <2>3. QED  BY <2>1, <2>2 DEF Good, NeedlePlaces
<1>2. QED  BY <1>1, Invariance, PTL

\* A prompt is shortened no further than twice the drift below its budget.
THEOREM PromptsUseTheWindow == Spec => []PromptUsesTheWindow
<1>1. IInv => PromptUsesTheWindow
  BY DEF IInv, PromptUsesTheWindow, AllGood, Good
<1>2. QED  BY <1>1, Invariance, PTL

-----------------------------------------------------------------------------
(* The ends of a call.                                                     *)

\* There is no workload before the cases are complete.
Complete ==
    /\ pc = "returned" => at = Pairs
    /\ pc \notin {"written", "refused"} => output = 0
    /\ pc \in {"written", "refused"} => EndsWell

LEMMA PairsAreNatural == IInv => Pairs \in Nat
<1> SUFFICES ASSUME IInv PROVE Pairs \in Nat
  OBVIOUS
<1>1. Len(windows) \in Nat /\ Len(needles) \in Nat
  BY DEF IInv, Types
<1>2. QED  BY <1>1 DEF Pairs

LEMMA CompleteStep == IInv /\ TypeOK /\ Complete /\ [Next]_vars => TypeOK' /\ Complete'
<1> SUFFICES ASSUME IInv, TypeOK, Complete, [Next]_vars PROVE TypeOK' /\ Complete'
  OBVIOUS
<1> USE DEF Complete
<1>1. Pairs \in Nat /\ source \in Nat /\ cases \in Seq(Rows)
  BY PairsAreNatural, Constants DEF IInv, Types, TypeOK
<1>2. ASSUME UNCHANGED Arguments PROVE Pairs' = Pairs
  BY <1>2 DEF Arguments, Pairs
<1>3. ASSUME needles # <<>>, at < Pairs, NEW n \in Nat PROVE Encodings(n) \subseteq Nat
  <2>1. Instructions \in Nat
    BY <1>3, PairExists DEF IInv
  <2>2. QED  BY <2>1, Drift
<1>4. CASE ReadSource \/ Validate
  BY <1>1, <1>2, <1>4 DEF ReadSource, Validate, Arguments, TypeOK, EndsWell
<1>5. CASE Budget
  <2>1. EnoughSource => SourceBudget \in 0..source
    <3>1. Types /\ needles # <<>> /\ reserve \in Nat /\ at < Pairs
      BY <1>5 DEF Budget, IInv, Types, Bounded
    <3>2. Window(at) \in Nat /\ Instructions \in Nat
      BY <3>1, PairExists
    <3>3. QED  BY <1>1, <3>1, <3>2 DEF EnoughSource, SourceBudget, PromptBudget
  <2>2. EnoughSource => Encodings(SourceBudget) \subseteq Nat
    <3>1. needles # <<>> /\ at < Pairs /\ (EnoughSource => SourceBudget \in Nat)
      BY <1>1, <1>5, <2>1 DEF Budget, IInv, Bounded
    <3>2. QED  BY <1>3, <3>1
  <2>3. QED
    BY <1>1, <1>2, <1>5, <2>1, <2>2 DEF Budget, Arguments, TypeOK, EndsWell
<1>6. CASE Shrink
  <2>1. selected - 1 \in 0..source
    BY <1>1, <1>6 DEF Shrink, TypeOK
  <2>2. needles # <<>> /\ at < Pairs /\ selected - 1 \in Nat
    BY <1>1, <1>6, <2>1 DEF Shrink, IInv, Bounded, Shrinking
  <2>3. Encodings(selected - 1) \subseteq Nat
    BY <1>3, <2>2
  <2>4. QED  BY <1>2, <1>6, <2>1, <2>3 DEF Shrink, Arguments, TypeOK
<1>7. CASE AppendCase
  <2>1. at < Pairs /\ at \in Nat
    BY <1>7 DEF AppendCase, IInv, Shrinking, Types
  <2>2. at' \in 0..Pairs /\ pc' = "budget" /\ Len(cases') = at + 1
    BY <1>1, <1>7, <2>1 DEF AppendCase, TypeOK
  <2>3. QED  BY <1>2, <1>7, <2>2 DEF AppendCase, Arguments, TypeOK
<1>8. CASE Return
  BY <1>2, <1>8 DEF Return, Arguments, TypeOK
<1>9. CASE WriteWorkload
  <2>1. at = Pairs /\ Len(cases) = Pairs
    BY <1>9 DEF WriteWorkload, TypeOK
  <2>2. /\ UNCHANGED Arguments /\ UNCHANGED <<at, selected, encoded, cases>> /\ Pairs' = Pairs
        /\ \/ pc' = "written" /\ output' = Pairs
           \/ pc' = "refused" /\ output' \in 0..(Pairs - 1)
    BY <1>2, <1>9, <2>1 DEF WriteWorkload
  <2>3. EndsWell'
    BY <1>1, <2>1, <2>2 DEF EndsWell
  <2>4. QED  BY <1>1, <2>1, <2>2, <2>3 DEF Arguments, TypeOK
<1>10. CASE UNCHANGED vars
  BY <1>10 DEF vars, TypeOK, EndsWell, Pairs
<1>11. QED  BY <1>4, <1>5, <1>6, <1>7, <1>8, <1>9, <1>10 DEF Next

LEMMA CompleteInvariance == Spec => [](TypeOK /\ Complete)
<1>1. Init => TypeOK /\ Complete
  <2> SUFFICES ASSUME Init PROVE TypeOK /\ Complete
    OBVIOUS
  <2>1. Pairs \in Nat
    BY InitInv, PairsAreNatural
  <2>2. source \in Nat
    BY Constants DEF Init
  <2>3. QED  BY <2>1, <2>2 DEF Init, TypeOK, Complete
<1>2. QED  BY <1>1, CompleteStep, Invariance, PTL DEF Spec

\* The call's variables keep their types, and there is one case per pair done.
THEOREM TypeCorrect == Spec => []TypeOK
<1>1. QED  BY CompleteInvariance, PTL

\* However the command ends, it ends as CallEnds says: a success has a workload
\* with every case in it, and a refusal leaves none that is complete.
THEOREM EndingsAreTrue == Spec => [](pc \in {"written", "refused"} => EndsWell)
<1>1. Complete => (pc \in {"written", "refused"} => EndsWell)
  BY DEF Complete
<1>2. QED  BY <1>1, CompleteInvariance, PTL
=============================================================================
