-------------------------- MODULE AtomicFileProofs --------------------------
(***************************************************************************)
(* Theorems about AtomicFile for any writers and any functions, whatever   *)
(* files they write.                                                       *)
(* The argument: a file gets its name only after all of it was written and *)
(* synced, and a file that is synced survives a loss of power as it is.    *)
(***************************************************************************)
EXTENDS AtomicFile, TLAPS

Places == {"idle", "open", "written", "synced", "replaced", "done", "failed", "killed"}

\* The part of TypeOK that the other facts rest on.
Types ==
    /\ job \in Jobs
    /\ pc \in [Writers -> Places]
    /\ pos \in [Writers -> Positions]
    /\ temp \in [Writers -> FileSet]
    /\ named \in [Positions -> FileSet] /\ durable \in [Positions -> FileSet]
    /\ started \in Seq(Writers)
    /\ disturbed \in BOOLEAN

\* What is true of a temporary file at each place of its writer.
TempByPlace == \A w \in Writers :
    /\ pc[w] = "idle" => pos[w] = 1
    /\ pc[w] \in {"open", "written", "synced"} => temp[w].by = w
    /\ pc[w] \in {"written", "synced"} => temp[w].whole
    /\ pc[w] = "synced" => temp[w].synced
    /\ pc[w] \in {"replaced", "done"} => temp[w] = NoFile
    /\ pc[w] = "failed" /\ job.cleansUp => temp[w] = NoFile

Solid(file) == file.whole /\ file.synced

\* Whatever has a name, for readers or on disk, is whole and synced.
NamedSolid == \A p \in Positions : Solid(named[p]) /\ Solid(durable[p])

Newest(w) == started[Len(started)] = w

\* As long as no two calls overlapped, a call in progress is the newest one and
\* has put the files before its position in place.
Alone == ~disturbed => \A w \in Writers :
    /\ Active(w) => Newest(w) /\ \A p \in Positions : p < pos[w] => named[p].by = w
    /\ pc[w] = "replaced" => named[pos[w]].by = w
    /\ pc[w] = "done" /\ Newest(w) => \A p \in Positions : named[p].by = w

\* The inductive invariant.
IInv == Types /\ TempByPlace /\ NamedSolid /\ Alone

-----------------------------------------------------------------------------
\* The positions of the files of one call are the numbers from 1 on.
LEMMA NamesHaveOrder ==
    ASSUME job \in Jobs PROVE Len(Names) \in Nat \ {0} /\ Positions = 1..Len(Names)
BY FileAssumption DEF Positions, Names

\* Before the first call everything has its type and no file is unfinished.
LEMMA InitInv == Init => IInv
<1> SUFFICES ASSUME Init PROVE IInv
  OBVIOUS
<1>1. 1 \in Positions
  BY NamesHaveOrder DEF Init
<1>2. NoFile \in FileSet /\ Solid(NoFile)
  BY DEF NoFile, FileSet, Solid
<1>3. Types
  <2>1. named \in [Positions -> FileSet] /\ temp \in [Writers -> FileSet]
    BY <1>2 DEF Init
  <2>2. pc \in [Writers -> Places] /\ started \in Seq(Writers)
    BY DEF Init, Places
  <2>3. pos \in [Writers -> Positions]
    BY <1>1 DEF Init
  <2>4. QED  BY <2>1, <2>2, <2>3 DEF Init, Types
<1>4. TempByPlace /\ NamedSolid /\ Alone
  BY <1>2 DEF Init, TempByPlace, NamedSolid, Alone, Active
<1>5. QED  BY <1>3, <1>4 DEF IInv

-----------------------------------------------------------------------------
(* One conjunct after the other.                                           *)

\* Every step keeps the types.
LEMMA TypeStep == Types /\ [Next]_vars => Types'
<1> SUFFICES ASSUME Types, [Next]_vars PROVE Types'
  OBVIOUS
<1>0. job' = job /\ Positions' = Positions
  BY DEF Next, vars, Positions, Names
<1> USE <1>0
<1>1. ASSUME NEW w \in Writers PROVE NewFile(w) \in FileSet /\ NoFile \in FileSet
  BY DEF NewFile, NoFile, FileSet
<1>2. ASSUME NEW w \in Writers, Start(w) PROVE Types'
  <2>1. started' \in Seq(Writers)
    BY <1>2 DEF Start, Types
  <2>2. QED  BY <1>1, <1>2, <2>1 DEF Start, Go, Types, Places
<1>3. ASSUME NEW w \in Writers, Write(w) \/ Sync(w) PROVE Types'
  <2>1. \A file \in FileSet : [file EXCEPT !.whole = TRUE] \in FileSet
    BY DEF FileSet
  <2>2. \A file \in FileSet : [file EXCEPT !.synced = TRUE] \in FileSet
    BY DEF FileSet
  <2>3. temp' \in [Writers -> FileSet]
    BY <1>3, <2>1, <2>2 DEF Write, Sync, Types
  <2>4. QED  BY <1>3, <2>3 DEF Write, Sync, Go, Types, Places
<1>4. ASSUME NEW w \in Writers, Replace(w) \/ Return(w) \/ Fail(w) PROVE Types'
  BY <1>1, <1>4 DEF Replace, Return, Fail, RemoveTemporary, Go, Types, Places
<1>5. ASSUME NEW w \in Writers, Advance(w) PROVE Types'
  <2>1. pos[w] + 1 \in Positions
    BY <1>5, NamesHaveOrder DEF Advance, Types
  <2>2. QED  BY <1>1, <1>5, <2>1 DEF Advance, Go, Types, Places
<1>6. ASSUME NEW w \in Writers, Kill(w) PROVE Types'
  BY <1>6 DEF Kill, Types, Places
<1>7. ASSUME NEW p \in Positions, Settle(p) PROVE Types'
  BY <1>7 DEF Settle, Types
<1>8. CASE PowerLoss
  <2>1. PICK left \in [Positions -> UNION {Survivors(named[p]) \cup Survivors(durable[p]) :
                                              p \in Positions}] :
          named' = left /\ durable' = left
    BY <1>8 DEF PowerLoss
  <2>2. \A file \in FileSet : Survivors(file) \subseteq FileSet
    BY DEF Survivors, FileSet
  <2>3. left \in [Positions -> FileSet]
    BY <2>1, <2>2 DEF Types
  <2>4. pc' \in [Writers -> Places]
    BY <1>8 DEF PowerLoss, Types, Places
  <2>5. QED  BY <1>8, <2>1, <2>3, <2>4 DEF PowerLoss, Types
<1>9. CASE Over \/ UNCHANGED vars
  BY <1>9 DEF Over, vars, Types
<1>10. QED
  BY <1>2, <1>3, <1>4, <1>5, <1>6, <1>7, <1>8, <1>9 DEF Next, Step

\* A temporary file is filled, then synced, then renamed, and belongs to the
\* call that made it.
LEMMA TempStep == Types /\ TempByPlace /\ [Next]_vars => TempByPlace'
<1> SUFFICES ASSUME Types, TempByPlace, [Next]_vars PROVE TempByPlace'
  OBVIOUS
<1>0. job' = job /\ Positions' = Positions
  BY DEF Next, vars, Positions, Names
<1> USE <1>0
<1>1. ASSUME NEW w \in Writers, Start(w) \/ Advance(w) PROVE TempByPlace'
  <2>1. /\ pc'[w] = "open" /\ temp'[w].by = w
        /\ \A v \in Writers \ {w} : pc'[v] = pc[v] /\ temp'[v] = temp[v] /\ pos'[v] = pos[v]
    BY <1>1 DEF Start, Advance, Go, NewFile, Types
  <2>2. QED  BY <2>1 DEF TempByPlace
<1>2. ASSUME NEW w \in Writers, Write(w) PROVE TempByPlace'
  BY <1>2 DEF Write, Go, Types, TempByPlace, FileSet
<1>3. ASSUME NEW w \in Writers, Sync(w) PROVE TempByPlace'
  BY <1>3 DEF Sync, Go, Types, TempByPlace, FileSet
<1>4. ASSUME NEW w \in Writers, Replace(w) \/ Return(w) PROVE TempByPlace'
  BY <1>4 DEF Replace, Return, Go, Types, TempByPlace
<1>5. ASSUME NEW w \in Writers, Fail(w) PROVE TempByPlace'
  BY <1>5 DEF Fail, RemoveTemporary, Go, Types, TempByPlace
<1>6. ASSUME NEW w \in Writers, Kill(w) PROVE TempByPlace'
  BY <1>6 DEF Kill, Types, TempByPlace
<1>7. CASE PowerLoss
  BY <1>7 DEF PowerLoss, Types, TempByPlace
<1>8. CASE (\E p \in Positions : Settle(p)) \/ Over \/ UNCHANGED vars
  BY <1>8 DEF Settle, Over, vars, TempByPlace
<1>9. QED
  BY <1>1, <1>2, <1>3, <1>4, <1>5, <1>6, <1>7, <1>8 DEF Next, Step

\* A file gets a name when it is whole and synced, and what is synced survives.
LEMMA SolidStep == Types /\ TempByPlace /\ NamedSolid /\ [Next]_vars => NamedSolid'
<1> SUFFICES ASSUME Types, TempByPlace, NamedSolid, [Next]_vars PROVE NamedSolid'
  OBVIOUS
<1>0. job' = job /\ Positions' = Positions
  BY DEF Next, vars, Positions, Names
<1> USE <1>0
<1>1. ASSUME NEW w \in Writers, Replace(w) PROVE NamedSolid'
  <2>1. Solid(temp[w])
    BY <1>1 DEF Replace, Go, TempByPlace, Solid
  <2>2. QED  BY <1>1, <2>1 DEF Replace, Types, NamedSolid
<1>2. ASSUME NEW p \in Positions, Settle(p) PROVE NamedSolid'
  BY <1>2 DEF Settle, Types, NamedSolid
<1>3. CASE PowerLoss
  <2>1. PICK left \in [Positions -> UNION {Survivors(named[p]) \cup Survivors(durable[p]) :
                                              p \in Positions}] :
          /\ \A p \in Positions : left[p] \in Survivors(named[p]) \cup Survivors(durable[p])
          /\ named' = left /\ durable' = left
    BY <1>3 DEF PowerLoss
  <2>2. \A p \in Positions : left[p] \in {named[p], durable[p]}
    BY <2>1 DEF NamedSolid, Solid, Survivors
  <2>3. QED  BY <2>1, <2>2 DEF NamedSolid
<1>4. ASSUME NEW w \in Writers,
             Start(w) \/ Write(w) \/ Sync(w) \/ Advance(w) \/ Return(w) \/ Fail(w) \/ Kill(w)
      PROVE  NamedSolid'
  BY <1>4 DEF Start, Write, Sync, Advance, Return, Fail, Kill, NamedSolid
<1>5. CASE Over \/ UNCHANGED vars
  BY <1>5 DEF Over, vars, NamedSolid
<1>6. QED  BY <1>1, <1>2, <1>3, <1>4, <1>5 DEF Next, Step

\* A call keeps to itself until another one starts or the power goes.
LEMMA AloneStep == Types /\ TempByPlace /\ Alone /\ [Next]_vars => Alone'
<1> SUFFICES ASSUME Types, TempByPlace, Alone, [Next]_vars PROVE Alone'
  OBVIOUS
<1>0. job' = job /\ Positions' = Positions
  BY DEF Next, vars, Positions, Names
<1> USE <1>0
<1>a. Len(Names) \in Nat \ {0} /\ Positions = 1..Len(Names)
  BY NamesHaveOrder DEF Types
<1> USE <1>a
<1>1. ASSUME NEW w \in Writers, Start(w) PROVE Alone'
  <2>1. started'[Len(started')] = w
    BY <1>1 DEF Start, Types
  <2>2. /\ pc[w] = "idle" /\ pc' = [pc EXCEPT ![w] = "open"] /\ UNCHANGED <<pos, named>>
        /\ ~disturbed' => \A v \in Writers : ~Active(v)
    BY <1>1 DEF Start, Go
  <2>3. \A v \in Writers : Newest(v)' <=> v = w
    BY <2>1 DEF Newest
  <2>4. \A v \in Writers \ {w} : ~disturbed' => ~Active(v)'
    BY <2>2 DEF Active, Types
  <2>5. pc'[w] = "open"
    BY <2>2 DEF Types
  <2>6. pos[w] = 1 /\ \A p \in Positions : ~(p < 1)
    BY <2>2 DEF TempByPlace
  <2>7. QED
    BY <2>2, <2>3, <2>4, <2>5, <2>6 DEF Alone, Active, Types
<1>2. ASSUME NEW w \in Writers, Write(w) \/ Sync(w) PROVE Alone'
  BY <1>2 DEF Write, Sync, Go, Types, Alone, Active, Newest
<1>3. ASSUME NEW w \in Writers, Replace(w) PROVE Alone'
  <2>1. temp[w].by = w /\ Active(w) /\ pos[w] \in Positions
    BY <1>3 DEF Replace, Go, TempByPlace, Active, Types
  <2>2. \A v \in Writers \ {w} : ~disturbed => ~Active(v) /\ ~Newest(v)
    BY <2>1 DEF Alone, Newest
  <2>3. /\ named'[pos[w]].by = w
        /\ \A p \in Positions \ {pos[w]} : named'[p] = named[p]
    BY <1>3, <2>1 DEF Replace, Types
  <2>4. /\ pc'[w] = "replaced" /\ \A v \in Writers \ {w} : pc'[v] = pc[v]
        /\ UNCHANGED <<pos, started, disturbed>>
    BY <1>3 DEF Replace, Go, Types
  <2>5. \A v \in Writers : pos[v] \in Nat
    BY DEF Types
  <2>6. QED
    BY <2>1, <2>2, <2>3, <2>4, <2>5 DEF Alone, Active, Newest
<1>4. ASSUME NEW w \in Writers, Advance(w) PROVE Alone'
  <2>1. \A p \in Positions : p < pos[w] + 1 => p < pos[w] \/ p = pos[w]
    BY DEF Types
  <2>2. /\ pc[w] = "replaced" /\ pc'[w] = "open" /\ pos'[w] = pos[w] + 1
        /\ \A v \in Writers \ {w} : pc'[v] = pc[v] /\ pos'[v] = pos[v]
        /\ UNCHANGED <<named, started, disturbed>>
    BY <1>4 DEF Advance, Go, Types
  <2>3. ~disturbed => Newest(w)' /\ \A p \in Positions : p < pos'[w] => named'[p].by = w
    BY <2>1, <2>2 DEF Alone, Active, Newest
  <2>4. QED  BY <2>2, <2>3 DEF Alone, Active, Newest
<1>5. ASSUME NEW w \in Writers, Return(w) PROVE Alone'
  <2>1. \A p \in Positions : p < pos[w] \/ p = pos[w]
    BY <1>5 DEF Return
  <2>2. /\ pc[w] = "replaced" /\ pc'[w] = "done"
        /\ \A v \in Writers \ {w} : pc'[v] = pc[v]
        /\ UNCHANGED <<pos, named, started, disturbed>>
    BY <1>5 DEF Return, Go, Types
  <2>3. ~disturbed => \A p \in Positions : named[p].by = w
    BY <2>1, <2>2 DEF Alone, Active
  <2>4. QED  BY <2>2, <2>3 DEF Alone, Active, Newest
<1>6. ASSUME NEW w \in Writers, Fail(w) \/ Kill(w) PROVE Alone'
  BY <1>6 DEF Fail, Kill, Go, Types, Alone, Active, Newest
<1>7. CASE PowerLoss
  BY <1>7 DEF PowerLoss, Alone
<1>8. CASE (\E p \in Positions : Settle(p)) \/ Over \/ UNCHANGED vars
  BY <1>8 DEF Settle, Over, vars, Alone, Active, Newest
<1>9. QED
  BY <1>1, <1>2, <1>3, <1>4, <1>5, <1>6, <1>7, <1>8 DEF Next, Step

-----------------------------------------------------------------------------
(* The theorems.                                                           *)

\* The inductive invariant holds in every reachable state.
LEMMA Invariance == Spec => []IInv
<1>1. IInv /\ [Next]_vars => IInv'
  BY TypeStep, TempStep, SolidStep, AloneStep DEF IInv
<1>2. QED  BY <1>1, InitInv, PTL DEF Spec

\* However many calls write, fail, are killed or lose power, whatever has the
\* file's name is all there: a reader never sees a part of a report.
THEOREM FilesAreWhole == Spec => []NeverTorn
<1>1. IInv => NeverTorn
  BY DEF IInv, NamedSolid, Solid, NeverTorn
<1>2. QED  BY <1>1, Invariance, PTL

\* A call that returned has put all its files in place, and they stay until the
\* next call starts.
THEOREM ReturnedInPlace == Spec => []ReturnedMeansInPlace
<1>1. IInv => ReturnedMeansInPlace
  <2>1. ASSUME IInv, NEW w \in Writers,
               pc[w] = "done", ~disturbed, started[Len(started)] = w
        PROVE  \A p \in Positions : named[p].by = w
    BY <2>1 DEF IInv, Alone, Newest
  <2>2. QED  BY <2>1 DEF ReturnedMeansInPlace
<1>2. QED  BY <1>1, Invariance, PTL

\* Where the code has the except clause, a call that was not killed leaves no
\* temporary file.
THEOREM NothingLeftBehind == Spec => []NoLeftovers
<1>1. IInv => NoLeftovers
  BY DEF IInv, TempByPlace, NoLeftovers, OnDisk, NoFile
<1>2. QED  BY <1>1, Invariance, PTL

-----------------------------------------------------------------------------
(* The age of what is in place.                                            *)

\* Every call starts once, and only calls that started put files in place.
Starts ==
    /\ \A i, j \in DOMAIN started : started[i] = started[j] => i = j
    /\ \A w \in Writers : pc[w] # "idle" <=> \E i \in DOMAIN started : started[i] = w

Sorted == ~disturbed =>
    /\ \A p \in Positions : named[p].by # Nobody =>
          \E i \in DOMAIN started : started[i] = named[p].by
    /\ \A p, q \in Positions : p < q => Age(named[p].by) >= Age(named[q].by)

AInv == IInv /\ Starts /\ Sorted

\* The age of a call is where it stands in the order of the starts.
LEMMA AgeIsPosition ==
    ASSUME Starts, started \in Seq(Writers)
    PROVE  /\ \A i \in DOMAIN started : Age(started[i]) = i
           /\ Age(Nobody) = 0
<1>1. ASSUME NEW i \in DOMAIN started PROVE Age(started[i]) = i
  <2>1. started[i] # Nobody
    BY FileAssumption DEF Nobody
  <2>2. \A j \in DOMAIN started : started[j] = started[i] => j = i
    BY DEF Starts
  <2>3. QED  BY <2>1, <2>2 DEF Age
<1>2. QED  BY <1>1 DEF Age

LEMMA AgeInitially == Init => Starts /\ Sorted
<1> SUFFICES ASSUME Init PROVE Starts /\ Sorted
  OBVIOUS
<1>1. started = <<>> /\ \A p \in Positions : named[p].by = Nobody
  BY DEF Init, NoFile
<1>2. Starts
  BY <1>1 DEF Init, Starts
<1>3. QED  BY <1>1, <1>2, NamesHaveOrder DEF Init, Sorted, Age

LEMMA StartsStep == Types /\ Starts /\ [Next]_vars => Starts'
<1> SUFFICES ASSUME Types, Starts, [Next]_vars PROVE Starts'
  OBVIOUS
<1>1. ASSUME NEW w \in Writers, Start(w) PROVE Starts'
  <2>1. /\ started' = Append(started, w) /\ pc[w] = "idle"
        /\ pc' = [pc EXCEPT ![w] = "open"]
        /\ \A i \in DOMAIN started : started[i] # w
    BY <1>1 DEF Start, Go, Starts
  <2>2. /\ DOMAIN started' = 1..(Len(started) + 1) /\ DOMAIN started = 1..Len(started)
        /\ Len(started) \in Nat
        /\ \A i \in 1..Len(started) : started'[i] = started[i]
        /\ started'[Len(started) + 1] = w
    BY <2>1 DEF Types
  <2>3. \A i \in 1..(Len(started) + 1) : i \in 1..Len(started) \/ i = Len(started) + 1
    BY <2>2
  <2>4. \A i, j \in DOMAIN started' : started'[i] = started'[j] => i = j
    BY <2>1, <2>2, <2>3 DEF Starts
  <2>5. ASSUME NEW v \in Writers
        PROVE  pc'[v] # "idle" <=> \E i \in DOMAIN started' : started'[i] = v
    <3>1. CASE v = w
      BY <2>1, <2>2, <3>1 DEF Types
    <3>2. CASE v # w
      <4>1. (\E i \in DOMAIN started' : started'[i] = v) <=> \E i \in DOMAIN started : started[i] = v
        BY <2>2, <2>3, <3>2
      <4>2. QED  BY <2>1, <3>2, <4>1 DEF Types, Starts
    <3>3. QED  BY <3>1, <3>2
  <2>6. QED  BY <2>4, <2>5 DEF Starts
<1>2. ASSUME NEW w \in Writers, Step(w) \/ Kill(w) PROVE Starts'
  <2>1. started' = started
    BY <1>2 DEF Step, Kill, Write, Sync, Replace, Advance, Return, Fail
  <2>2. pc[w] # "idle" /\ \E to \in Places \ {"idle"} : pc' = [pc EXCEPT ![w] = to]
    BY <1>2 DEF Step, Kill, Write, Sync, Replace, Advance, Return, Fail, Go, Active, Places
  <2>3. \A v \in Writers : pc'[v] = "idle" <=> pc[v] = "idle"
    BY <2>2 DEF Types
  <2>4. QED  BY <2>1, <2>3 DEF Starts
<1>3. CASE PowerLoss
  BY <1>3 DEF PowerLoss, Active, Types, Starts
<1>4. CASE (\E p \in Positions : Settle(p)) \/ Over \/ UNCHANGED vars
  BY <1>4 DEF Settle, Over, vars, Starts
<1>5. QED  BY <1>1, <1>2, <1>3, <1>4 DEF Next

LEMMA SortedStep == AInv /\ [Next]_vars => Sorted'
<1> SUFFICES ASSUME AInv, [Next]_vars, ~disturbed' PROVE Sorted'
  BY DEF Sorted
<1>0. job' = job /\ Positions' = Positions
  BY DEF Next, vars, Positions, Names
<1>a. /\ Types /\ TempByPlace /\ Alone /\ Starts /\ Sorted
      /\ Len(started) \in Nat /\ DOMAIN started = 1..Len(started)
      /\ Len(Names) \in Nat \ {0} /\ Positions = 1..Len(Names)
  BY NamesHaveOrder DEF AInv, IInv, Types
<1>b. ~disturbed
  <2>1. ASSUME NEW w \in Writers, Start(w) PROVE ~disturbed
    BY <2>1 DEF Start
  <2>2. ASSUME NEW w \in Writers, Step(w) \/ Kill(w) PROVE disturbed' = disturbed
    BY <2>2 DEF Step, Kill, Write, Sync, Replace, Advance, Return, Fail
  <2>3. CASE (\E p \in Positions : Settle(p)) \/ Over \/ UNCHANGED vars
    BY <2>3 DEF Settle, Over, vars
  <2>4. ~PowerLoss
    BY DEF PowerLoss
  <2>5. QED  BY <2>1, <2>2, <2>3, <2>4 DEF Next
<1> USE <1>0, <1>b
<1>1. CASE UNCHANGED <<named, started>>
  BY <1>1, <1>a DEF Sorted, Age
<1>2. ASSUME NEW w \in Writers, Start(w) PROVE Sorted'
  <2>1. started' = Append(started, w) /\ named' = named /\ started' \in Seq(Writers)
    BY <1>2, <1>a, TypeStep DEF Start, Types
  <2>2. \A i \in DOMAIN started : started'[i] = started[i] /\ i \in DOMAIN started'
    BY <1>a, <2>1 DEF Types
  <2>3. Starts'
    BY <1>a, StartsStep
  <2>4. \A i \in DOMAIN started : Age(started[i]) = i
    BY <1>a, AgeIsPosition DEF Types
  <2>5. ASSUME NEW i \in DOMAIN started PROVE Age(started[i])' = i
    <3>1. \A j \in DOMAIN started' : started'[j] = started'[i] => j = i
      BY <2>2, <2>3 DEF Starts
    <3>2. started'[i] # Nobody
      BY <2>1, <2>2, FileAssumption DEF Nobody
    <3>3. QED  BY <2>2, <3>1, <3>2 DEF Age
  <2>6. Age(Nobody)' = 0 /\ Age(Nobody) = 0
    BY DEF Age, Nobody
  <2>7. ASSUME NEW p \in Positions PROVE Age(named[p].by)' = Age(named[p].by)
    <3>1. CASE named[p].by = Nobody
      BY <2>1, <3>1 DEF Age, Nobody
    <3>2. CASE named[p].by # Nobody
      <4>1. PICK i \in DOMAIN started : started[i] = named[p].by
        BY <1>a, <3>2 DEF Sorted
      <4>2. /\ named'[p].by = started'[i]
            /\ \A j \in DOMAIN started' : started'[j] = started'[i] => j = i
        BY <2>1, <2>2, <2>3, <4>1 DEF Starts
      <4>3. Age(named[p].by)' = i
        BY <2>2, <2>1, <3>2, <4>2, FileAssumption DEF Age, Nobody
      <4>4. QED  BY <2>4, <4>1, <4>3
    <3>3. QED  BY <3>1, <3>2
  <2>8. QED  BY <1>a, <2>1, <2>2, <2>7 DEF Sorted
<1>3. ASSUME NEW w \in Writers, Replace(w) PROVE Sorted'
  <2>1. /\ named' = [named EXCEPT ![pos[w]] = temp[w]] /\ started' = started
        /\ temp[w].by = w /\ Active(w) /\ pos[w] \in Positions
    BY <1>3, <1>a DEF Replace, Go, TempByPlace, Active, Types
  <2>2. Newest(w) /\ \A p \in Positions : p < pos[w] => named[p].by = w
    BY <1>a, <2>1 DEF Alone
  <2>3. Len(started) \in DOMAIN started
    <3>1. pc[w] # "idle"
      BY <2>1 DEF Active
    <3>2. PICK i \in DOMAIN started : started[i] = w
      BY <1>a, <3>1 DEF Starts
    <3>3. QED  BY <1>a, <3>2
  <2>4. Age(w) = Len(started) /\ \A b : Age(b)' = Age(b)
    BY <1>a, <2>1, <2>2, <2>3, AgeIsPosition DEF Newest, Types, Age
  <2>5. ASSUME NEW p \in Positions PROVE Age(named[p].by) \in 0..Len(started)
    BY <1>a, AgeIsPosition DEF Sorted, Types
  <2>6. \A p \in Positions : p <= pos[w] => named'[p].by = w
    BY <1>a, <2>1, <2>2 DEF Types
  <2>7. \A p \in Positions : p > pos[w] => named'[p].by = named[p].by
    BY <1>a, <2>1 DEF Types
  <2>8. \A p, q \in Positions : p < q => Age(named'[p].by) >= Age(named'[q].by)
    BY <1>a, <2>1, <2>4, <2>5, <2>6, <2>7 DEF Sorted
  <2>9. \A p \in Positions : named'[p].by # Nobody =>
           \E i \in DOMAIN started : started[i] = named'[p].by
    BY <1>a, <2>1, <2>2, <2>3, <2>6, <2>7 DEF Sorted, Newest
  <2>10. ASSUME NEW p \in Positions PROVE Age(named[p].by)' = Age(named'[p].by)
    BY <2>1 DEF Age
  <2>11. QED  BY <2>1, <2>8, <2>9, <2>10 DEF Sorted
<1>4. ASSUME NEW w \in Writers,
             Write(w) \/ Sync(w) \/ Advance(w) \/ Return(w) \/ Fail(w) \/ Kill(w)
      PROVE  UNCHANGED <<named, started>>
  BY <1>4 DEF Write, Sync, Advance, Return, Fail, Kill
<1>5. CASE (\E p \in Positions : Settle(p)) \/ Over \/ UNCHANGED vars
  BY <1>1, <1>5 DEF Settle, Over, vars
<1>6. ~PowerLoss
  BY DEF PowerLoss
<1>7. QED  BY <1>1, <1>2, <1>3, <1>4, <1>5, <1>6 DEF Next, Step

LEMMA AgeInvariance == Spec => []AInv
<1>1. AInv /\ [Next]_vars => AInv'
  BY TypeStep, TempStep, SolidStep, AloneStep, StartsStep, SortedStep DEF AInv, IInv
<1>2. Init => AInv
  BY InitInv, AgeInitially DEF AInv
<1>3. QED  BY <1>1, <1>2, PTL DEF Spec

\* Whatever was killed or failed, a file that is written earlier is never older
\* than one that is written later.
THEOREM FilesStayInOrder == Spec => []NewerFirst
<1>1. AInv => NewerFirst
  BY DEF AInv, Sorted, NewerFirst
<1>2. QED  BY <1>1, AgeInvariance, PTL

-----------------------------------------------------------------------------
\* A temporary file is its owner's for as long as it is there.
Owned == \A w \in Writers : temp[w].by \in {w, Nobody}

LEMMA OwnedStep == Types /\ Owned /\ [Next]_vars => Owned'
<1> SUFFICES ASSUME Types, Owned, [Next]_vars PROVE Owned'
  OBVIOUS
<1>1. ASSUME NEW w \in Writers, Start(w) \/ Step(w)
      PROVE  \E file \in FileSet : /\ file.by \in {w, Nobody}
                                   /\ temp' = [temp EXCEPT ![w] = file] \/ UNCHANGED temp
  <2>1. temp[w] \in FileSet /\ temp[w].by \in {w, Nobody}
    BY DEF Types, Owned
  <2>2. NewFile(w) \in FileSet /\ NoFile \in FileSet /\ NewFile(w).by = w /\ NoFile.by = Nobody
    BY DEF NewFile, NoFile, FileSet
  <2>3. CASE Write(w) \/ Sync(w)
    <3>1. PICK file \in {[temp[w] EXCEPT !.whole = TRUE], [temp[w] EXCEPT !.synced = TRUE]} :
             temp' = [temp EXCEPT ![w] = file]
      BY <2>3 DEF Write, Sync, Types
    <3>2. file \in FileSet /\ file.by = temp[w].by
      BY <2>1 DEF FileSet
    <3>3. QED  BY <2>1, <3>1, <3>2
  <2>4. CASE Start(w) \/ Advance(w) \/ Replace(w)
    BY <2>2, <2>4 DEF Start, Advance, Replace
  <2>5. CASE Return(w) \/ Fail(w)
    BY <2>2, <2>5 DEF Return, Fail, RemoveTemporary
  <2>6. QED  BY <1>1, <2>3, <2>4, <2>5 DEF Step
<1>2. ASSUME NEW w \in Writers, Start(w) \/ Step(w) PROVE Owned'
  BY <1>1, <1>2 DEF Types, Owned
<1>3. CASE (\E w \in Writers : Kill(w)) \/ (\E p \in Positions : Settle(p)) \/ PowerLoss \/ Over
           \/ UNCHANGED vars
  BY <1>3 DEF Kill, Settle, PowerLoss, Over, vars, Owned
<1>4. QED  BY <1>2, <1>3 DEF Next

\* A call starts once, and a temporary file is its own.
THEOREM TypeCorrect == Spec => []TypeOK
<1>1. Init => Owned
  BY DEF Init, NoFile, Owned
<1>2. AInv /\ Owned /\ [Next]_vars => Owned'
  BY OwnedStep DEF AInv, IInv
<1>3. ASSUME AInv, Owned PROVE TypeOK
  <2>1. Types /\ Starts
    BY <1>3 DEF AInv, IInv
  <2>2. {started[i] : i \in DOMAIN started} = {w \in Writers : pc[w] # "idle"}
    BY <2>1 DEF Types, Starts
  <2>3. QED  BY <1>3, <2>1, <2>2 DEF Types, Starts, Owned, Places, TypeOK
<1>4. QED  BY <1>1, <1>2, <1>3, AgeInvariance, PTL DEF Spec
=============================================================================
