------------------------- MODULE CorpusWriterProofs -------------------------
(***************************************************************************)
(* Proofs about CorpusWriter, for every number of builders, every set of   *)
(* counts and rng seeds, and any files that are already there.             *)
(***************************************************************************)
EXTENDS CorpusWriter, FiniteSetTheorems, TLAPS

----------------------------------------------------------------------------
(* The seeds a call selects *)

LEMMA TotalType == ASSUME NEW c \in Int PROVE Total(c) \in Nat
  BY ConstantsAssumption DEF Total

\* A file is named by a builder and a variation number.
LEMMA FileAtType ==
  ASSUME NEW i \in Nat \ {0} PROVE FileAt(i) \in (1 .. NBase) \X Nat
<1>1. CASE i <= NBase
  BY <1>1, ConstantsAssumption DEF FileAt
<1>2. CASE i > NBase
  <2>1. NBase \in Nat /\ NBase > 0 /\ i - NBase - 1 \in Nat
    BY <1>2, ConstantsAssumption
  <2>2. (i - NBase - 1) % NBase \in 0 .. NBase - 1
    BY <2>1
  <2>3. BaseOf(i - NBase) \in 1 .. NBase
    BY <2>1, <2>2 DEF BaseOf
  <2> QED
    BY <1>2, <2>1, <2>3 DEF FileAt
<1> QED
  BY <1>1, <1>2, ConstantsAssumption

\* No seed is written over an earlier one of the same call.
LEMMA FileAtInjective ==
  ASSUME NEW i \in Nat \ {0}, NEW j \in Nat \ {0}, FileAt(i) = FileAt(j)
  PROVE  i = j
<1>1. \A k \in Nat \ {0} : FileAt(k)[2] = IF k <= NBase THEN 0 ELSE k - NBase
  BY DEF FileAt
<1>2. \A k \in Nat \ {0} : k <= NBase => FileAt(k)[1] = k
  BY DEF FileAt
<1> QED
  BY <1>1, <1>2, ConstantsAssumption

LEMMA SelectedSeed ==
  ASSUME NEW call \in Calls, NEW i \in 1 .. Total(call.count)
  PROVE  FileAt(i) \in SeedFiles
<1>1. call.count \in Counts /\ call.count \in Int
  BY ConstantsAssumption DEF Calls
<1>2. i \in UNION {1 .. Total(c) : c \in Counts}
  BY <1>1
<1> QED
  BY <1>2 DEF SeedFiles

LEMMA SeedsApart == SeedFiles \cap Strays = {} /\ SeedFiles \cap Finds = {}
<1>1. ASSUME NEW f \in SeedFiles PROVE f \in (1 .. NBase) \X Nat
  <2>1. PICK i \in UNION {1 .. Total(c) : c \in Counts} : f = FileAt(i)
    BY <1>1 DEF SeedFiles
  <2>2. PICK c \in Counts : i \in 1 .. Total(c)
    BY <2>1
  <2>3. Total(c) \in Nat
    BY <2>2, TotalType, ConstantsAssumption
  <2> QED
    BY <2>1, <2>2, <2>3, FileAtType
<1> QED
  BY <1>1, NamesAssumption

----------------------------------------------------------------------------
(* The inductive invariant *)

Cells == [is : {"absent", "partial", "seed", "foreign"}, rng : RngSeeds \cup {0}]

LEMMA CellsType ==
  /\ Absent \in Cells /\ Partial \in Cells /\ Foreign \in Cells
  /\ \A f, rng : rng \in RngSeeds => Whole(f, rng) \in Cells
  /\ \A f, rng : Whole(f, rng) # Absent
  /\ Partial # Absent
  BY DEF Cells, Absent, Partial, Foreign, Whole

\* While files are removed, each .textpb file that is left is listed and no
\* seed has been written.
OnlyListedLeft == phase = "clean" => pos = 1 /\ Present \ Finds \subseteq todo

\* The seeds before pos are written, and the call is not past its last one.
Writing == phase \in {"open", "write", "done"}
WrittenSoFar ==
  Writing =>
    /\ \A i \in 1 .. pos - 1 : disk[FileAt(i)] = Whole(FileAt(i), args.rng)
    /\ pos <= Total(args.count) + 1
    /\ phase = "done" => pos = Total(args.count) + 1

\* After --clean there is no other .textpb file but the one that is open.
NothingElse ==
  Writing /\ args.clean =>
    \A f \in Present \ Finds :
      \E i \in 1 .. (IF phase = "write" THEN pos ELSE pos - 1) : f = FileAt(i)

IInv == TypeOK /\ OnlyListedLeft /\ WrittenSoFar /\ NothingElse

LEMMA InitIInv == Init => IInv
<1> SUFFICES ASSUME Init PROVE IInv
  OBVIOUS
<1>1. disk \in [Names -> Cells]
  BY CellsType DEF Init
<1>2. TypeOK
  BY <1>1, ConstantsAssumption DEF Init, TypeOK, Cells
<1> QED
  BY <1>2 DEF Init, IInv, OnlyListedLeft, WrittenSoFar, NothingElse, Writing

\* What TypeOK says of a call that is under way.
LEMMA CallType ==
  ASSUME TypeOK, phase \in {"clean", "open", "write", "done"}
  PROVE  /\ args \in Calls /\ args.rng \in RngSeeds /\ args.clean \in BOOLEAN
         /\ Total(args.count) \in Nat
  BY TotalType, ConstantsAssumption DEF TypeOK, Calls

\* The type of disk as a set of functions with a name.
LEMMA DiskType == TypeOK => disk \in [Names -> Cells]
  BY DEF TypeOK, Cells

----------------------------------------------------------------------------
(* The steps *)

LEMMA StartStep ==
  ASSUME IInv, NEW call \in Calls, Start(call) PROVE IInv'
<1> USE DEF IInv
<1>1. call.count \in Int /\ Total(call.count) \in Nat
  BY TotalType, ConstantsAssumption DEF Calls
<1>2. Present' = Present
  BY DEF Start, Present
<1>3. Present \ Finds \subseteq SeedFiles \cup Strays
  BY DEF Present, Names
<1>4. ASSUME call.clean PROVE IInv'
  <2>1. phase' = "clean" /\ todo' = Present \ Finds /\ pos' = 1 /\ args' = call
        /\ disk' = disk /\ fails' = fails
    BY <1>4 DEF Start, Listed
  <2>2. TypeOK'
    BY <1>3, <1>4, <2>1 DEF TypeOK
  <2> QED
    BY <1>2, <2>1, <2>2 DEF OnlyListedLeft, WrittenSoFar, NothingElse, Writing
<1>5. ASSUME ~call.clean PROVE IInv'
  <2>1. phase' = "open" /\ todo' = {} /\ pos' = 1 /\ args' = call
        /\ disk' = disk /\ fails' = fails
    BY <1>5 DEF Start
  <2>2. TypeOK'
    BY <2>1 DEF TypeOK
  <2> QED
    BY <1>1, <1>5, <2>1, <2>2 DEF OnlyListedLeft, WrittenSoFar, NothingElse, Writing
<1> QED
  BY <1>4, <1>5

LEMMA UnlinkStep ==
  ASSUME IInv, NEW f \in todo, Unlink(f) PROVE IInv'
<1> USE DEF IInv
<1>1. disk \in [Names -> Cells] /\ todo \subseteq SeedFiles \cup Strays
  BY DiskType DEF TypeOK
<1>2. phase' = "clean" /\ phase = "clean" /\ disk' = [disk EXCEPT ![f] = Absent]
      /\ todo' = todo \ {f} /\ UNCHANGED <<args, pos, fails>>
  BY DEF Unlink
<1>3. disk' \in [Names -> Cells]
  BY <1>1, <1>2, CellsType
<1>4. TypeOK'
  BY <1>2, <1>3 DEF TypeOK, Cells
<1>5. Present' \subseteq Present \ {f}
  BY <1>1, <1>2 DEF Present, Names
<1>6. OnlyListedLeft'
  BY <1>2, <1>5 DEF OnlyListedLeft
<1> QED
  BY <1>2, <1>4, <1>6 DEF WrittenSoFar, NothingElse, Writing

LEMMA CleanedStep ==
  ASSUME IInv, Cleaned PROVE IInv'
<1> USE DEF IInv
<1>1. phase = "clean" /\ todo = {} /\ phase' = "open"
      /\ UNCHANGED <<disk, args, todo, pos, fails>>
  BY DEF Cleaned
<1>2. TypeOK'
  BY <1>1 DEF TypeOK
<1>3. Present' = Present /\ Present \ Finds = {} /\ pos = 1
  BY <1>1 DEF Present, OnlyListedLeft
<1>4. Total(args.count) \in Nat
  BY <1>1, CallType
<1> QED
  BY <1>1, <1>2, <1>3, <1>4 DEF OnlyListedLeft, WrittenSoFar, NothingElse, Writing

\* Emptying and filling a file disturb no seed written before it.
LEMMA OpenStep ==
  ASSUME IInv, Open PROVE IInv'
<1> USE DEF IInv
<1>1. /\ phase = "open" /\ phase' = "write" /\ pos <= Total(args.count)
      /\ disk' = [disk EXCEPT ![FileAt(pos)] = Partial]
      /\ UNCHANGED <<args, todo, pos, fails>>
  BY DEF Open
<1>2. /\ disk \in [Names -> Cells] /\ args \in Calls
      /\ Total(args.count) \in Nat /\ pos \in 1 .. Total(args.count)
  BY <1>1, CallType, DiskType DEF TypeOK
<1>3. FileAt(pos) \in SeedFiles /\ FileAt(pos) \in Names
  BY <1>2, SelectedSeed DEF Names
<1>4. disk' \in [Names -> Cells]
  BY <1>1, <1>2, CellsType
<1>5. TypeOK'
  BY <1>1, <1>2, <1>4 DEF TypeOK, Cells
<1>6. WrittenSoFar'
  <2>1. ASSUME NEW i \in 1 .. pos - 1 PROVE disk'[FileAt(i)] = disk[FileAt(i)]
    <3>1. i \in 1 .. Total(args.count) /\ i # pos
      BY <1>2
    <3>2. FileAt(i) \in Names /\ FileAt(i) # FileAt(pos)
      BY <1>2, <3>1, SelectedSeed, FileAtInjective DEF Names
    <3> QED
      BY <1>1, <1>2, <3>2
  <2> QED
    BY <1>1, <1>2, <2>1 DEF WrittenSoFar, Writing
<1>7. NothingElse'
  <2>1. Present' \subseteq Present \cup {FileAt(pos)}
    BY <1>1, <1>2 DEF Present
  <2> QED
    BY <1>1, <1>2, <2>1 DEF NothingElse, Writing
<1> QED
  BY <1>1, <1>5, <1>6, <1>7 DEF OnlyListedLeft

LEMMA WriteStep ==
  ASSUME IInv, Write PROVE IInv'
<1> USE DEF IInv
<1>1. /\ phase = "write" /\ phase' = "open" /\ pos' = pos + 1
      /\ disk' = [disk EXCEPT ![FileAt(pos)] = Whole(FileAt(pos), args.rng)]
      /\ UNCHANGED <<args, todo, fails>>
  BY DEF Write
<1>2. /\ disk \in [Names -> Cells] /\ args \in Calls /\ args.rng \in RngSeeds
      /\ Total(args.count) \in Nat /\ pos \in 1 .. Total(args.count)
  BY <1>1, CallType, DiskType DEF TypeOK
<1>3. FileAt(pos) \in SeedFiles /\ FileAt(pos) \in Names
  BY <1>2, SelectedSeed DEF Names
<1>4. disk' \in [Names -> Cells]
  BY <1>1, <1>2, CellsType
<1>5. TypeOK'
  BY <1>1, <1>2, <1>4 DEF TypeOK, Cells
<1>6. WrittenSoFar'
  <2>1. ASSUME NEW i \in 1 .. pos - 1
        PROVE  disk'[FileAt(i)] = Whole(FileAt(i), args.rng)
    <3>1. i \in 1 .. Total(args.count) /\ i # pos
      BY <1>2
    <3>2. FileAt(i) \in Names /\ FileAt(i) # FileAt(pos)
      BY <1>2, <3>1, SelectedSeed, FileAtInjective DEF Names
    <3>3. disk[FileAt(i)] = Whole(FileAt(i), args.rng)
      BY <1>1, <2>1 DEF WrittenSoFar, Writing
    <3> QED
      BY <1>1, <1>2, <3>2, <3>3
  <2>2. disk'[FileAt(pos)] = Whole(FileAt(pos), args.rng)
    BY <1>1, <1>2, <1>3
  <2>3. \A i \in 1 .. pos : i \in 1 .. pos - 1 \/ i = pos
    BY <1>2
  <2>4. \A i \in 1 .. pos' - 1 : disk'[FileAt(i)] = Whole(FileAt(i), args'.rng)
    BY <1>1, <1>2, <2>1, <2>2, <2>3
  <2> QED
    BY <1>1, <1>2, <2>4 DEF WrittenSoFar, Writing
<1>7. NothingElse'
  <2>1. Present' \subseteq Present \cup {FileAt(pos)}
    BY <1>1, <1>2 DEF Present
  <2>2. pos' - 1 = pos
    BY <1>1, <1>2
  <2> QED
    BY <1>1, <1>2, <2>1, <2>2 DEF NothingElse, Writing
<1> QED
  BY <1>1, <1>5, <1>6, <1>7 DEF OnlyListedLeft

LEMMA FinishStep ==
  ASSUME IInv, Finish PROVE IInv'
<1> USE DEF IInv
<1>1. /\ phase = "open" /\ phase' = "done" /\ pos > Total(args.count)
      /\ UNCHANGED <<disk, args, todo, pos, fails>>
  BY DEF Finish
<1>2. Total(args.count) \in Nat /\ pos \in Nat
  BY <1>1, CallType DEF TypeOK
<1>3. TypeOK'
  BY <1>1 DEF TypeOK
<1>4. Present' = Present
  BY <1>1 DEF Present
<1> QED
  BY <1>1, <1>2, <1>3, <1>4 DEF OnlyListedLeft, WrittenSoFar, NothingElse, Writing

LEMMA InterruptedStep ==
  ASSUME IInv, Interrupted PROVE IInv'
<1> USE DEF IInv
<1>1. TypeOK'
  BY ConstantsAssumption DEF TypeOK, Interrupted
<1> QED
  BY <1>1 DEF Interrupted, OnlyListedLeft, WrittenSoFar, NothingElse, Writing

LEMMA FuzzerFindsStep ==
  ASSUME IInv, NEW f \in Finds, FuzzerFinds(f) PROVE IInv'
<1> USE DEF IInv
<1>1. /\ disk[f] = Absent /\ disk' = [disk EXCEPT ![f] = Foreign]
      /\ UNCHANGED <<args, phase, todo, pos, fails>>
  BY DEF FuzzerFinds
<1>2. disk \in [Names -> Cells] /\ disk' \in [Names -> Cells]
  BY <1>1, CellsType, DiskType
<1>3. TypeOK'
  BY <1>1, <1>2 DEF TypeOK, Cells
<1>4. Present' \ Finds \subseteq Present \ Finds
  BY <1>1, <1>2 DEF Present
<1>5. OnlyListedLeft'
  BY <1>1, <1>4 DEF OnlyListedLeft
<1>6. WrittenSoFar'
  <2>1. ASSUME Writing, NEW i \in 1 .. pos - 1 PROVE disk'[FileAt(i)] = disk[FileAt(i)]
    <3>1. args \in Calls /\ Total(args.count) \in Nat /\ pos \in Nat
      BY <2>1, CallType DEF Writing, TypeOK
    <3>2. i \in 1 .. Total(args.count)
      BY <2>1, <3>1 DEF WrittenSoFar
    <3>3. FileAt(i) \in SeedFiles /\ FileAt(i) # f
      BY <3>1, <3>2, SelectedSeed, SeedsApart
    <3> QED
      BY <1>1, <1>2, <3>3 DEF Names
  <2> QED
    BY <1>1, <2>1 DEF WrittenSoFar, Writing
<1>7. NothingElse'
  BY <1>1, <1>4 DEF NothingElse, Writing
<1> QED
  BY <1>3, <1>5, <1>6, <1>7

LEMMA NextIInv == IInv /\ [Next]_vars => IInv'
<1> SUFFICES ASSUME IInv, [Next]_vars PROVE IInv'
  OBVIOUS
<1>1. ASSUME NEW call \in Calls, Start(call) PROVE IInv'
  BY <1>1, StartStep
<1>2. ASSUME NEW f \in todo, Unlink(f) PROVE IInv'
  BY <1>2, UnlinkStep
<1>3. CASE Cleaned
  BY <1>3, CleanedStep
<1>4. CASE Open
  BY <1>4, OpenStep
<1>5. CASE Write
  BY <1>5, WriteStep
<1>6. CASE Finish
  BY <1>6, FinishStep
<1>7. CASE Interrupted
  BY <1>7, InterruptedStep
<1>8. ASSUME NEW f \in Finds, FuzzerFinds(f) PROVE IInv'
  BY <1>8, FuzzerFindsStep
<1>9. CASE UNCHANGED vars
  BY <1>9 DEF vars, IInv, TypeOK, OnlyListedLeft, WrittenSoFar, NothingElse,
              Writing, Present
<1> QED
  BY <1>1, <1>2, <1>3, <1>4, <1>5, <1>6, <1>7, <1>8, <1>9 DEF Next

----------------------------------------------------------------------------
(* The theorems *)

\* What the inductive invariant says when a call has ended.
LEMMA IInvCompleted == IInv => CompletedExactly
<1> SUFFICES ASSUME IInv, phase = "done" PROVE CompletedExactly
  BY DEF CompletedExactly
<1>1. args \in Calls /\ Total(args.count) \in Nat /\ pos - 1 = Total(args.count)
  BY CallType DEF IInv, TypeOK, WrittenSoFar, Writing
<1>2. \A i \in 1 .. Total(args.count) :
        /\ FileAt(i) \in SeedFiles
        /\ disk[FileAt(i)] = Whole(FileAt(i), args.rng)
  BY <1>1, SelectedSeed DEF IInv, WrittenSoFar, Writing
<1>3. Named(args) \subseteq Present \ Finds
  BY <1>2, CellsType, SeedsApart DEF Named, Present, Names
<1>4. args.clean => Present \ Finds \subseteq Named(args)
  BY <1>1 DEF IInv, NothingElse, Writing, Named
<1>5. \A f \in Named(args) : disk[f] = Whole(f, args.rng)
  BY <1>2 DEF Named
<1> QED
  BY <1>3, <1>4, <1>5 DEF CompletedExactly

\* Every file of the directory always holds what its kind can.
THEOREM CorpusTypeOK == Spec => []TypeOK
<1>1. IInv => TypeOK
  BY DEF IInv
<1> QED
  BY InitIInv, NextIInv, <1>1, PTL DEF Spec

\* A call that ends has written each of its seeds in full, whatever was
\* interrupted before it, and after --clean nothing else of that suffix is left.
THEOREM CallsComplete == Spec => []CompletedExactly
  BY InitIInv, NextIInv, IInvCompleted, PTL DEF Spec

\* A step changes a file that is there only if the call names it, or removes
\* one because it was asked to, and never one that a fuzzer found.
THEOREM FilesOfOthersKept == Spec => OnlyOwnFilesTouched
<1> DEFINE Ok == \A f \in Present : disk'[f] # disk[f] =>
                   f \in Named(args) \/ (args.clean /\ f \notin Finds)
<1>1. ASSUME IInv, [Next]_vars PROVE Ok
  <2> SUFFICES ASSUME NEW f \in Present, disk'[f] # disk[f]
               PROVE  f \in Named(args) \/ (args.clean /\ f \notin Finds)
    OBVIOUS
  <2>1. disk \in [Names -> Cells] /\ f \in Names /\ disk[f] # Absent
    BY <1>1, DiskType DEF IInv, Present
  <2>2. ASSUME NEW e \in todo, Unlink(e) PROVE args.clean /\ f \notin Finds
    <3>1. f = e /\ args.clean /\ todo \subseteq SeedFiles \cup Strays
      BY <1>1, <2>1, <2>2 DEF Unlink, IInv, TypeOK
    <3> QED
      BY <3>1, <2>2, SeedsApart, NamesAssumption
  <2>3. ASSUME Open \/ Write PROVE f \in Named(args)
    <3>1. f = FileAt(pos)
      BY <2>1, <2>3 DEF Open, Write
    <3>2. pos \in 1 .. Total(args.count)
      BY <1>1, <2>3, CallType DEF IInv, TypeOK, Open, Write
    <3> QED
      BY <3>1, <3>2 DEF Named
  <2>4. ASSUME NEW e \in Finds, FuzzerFinds(e) PROVE FALSE
    BY <2>1, <2>4 DEF FuzzerFinds
  <2>5. ASSUME \/ \E call \in Calls : Start(call)
               \/ Cleaned \/ Finish \/ Interrupted \/ UNCHANGED vars
        PROVE FALSE
    BY <2>5 DEF Start, Cleaned, Finish, Interrupted, vars
  <2> QED
    BY <1>1, <2>2, <2>3, <2>4, <2>5 DEF Next
<1>2. IInv /\ [Next]_vars => [Ok]_vars
  BY <1>1
<1> QED
  BY InitIInv, NextIInv, <1>2, PTL DEF Spec, OnlyOwnFilesTouched

----------------------------------------------------------------------------
(* Files cut short *)

Partials == {f \in Names : disk[f] = Partial}

\* How many files may be cut short after f failures, in phase p.
Bound(f, p) == f + (IF p = "write" THEN 1 ELSE 0)
Allowed == Bound(fails, phase)

LEMMA AllowedType == ASSUME NEW f \in Nat, NEW p PROVE Bound(f, p) \in Nat
  BY DEF Bound

\* The file a call has open is cut short, and what is cut short can be counted.
CutShort ==
  /\ phase = "write" => FileAt(pos) \in Partials
  /\ IsFiniteSet(Partials) /\ Cardinality(Partials) <= Allowed

LEMMA CellsApart ==
  /\ Partial # Absent /\ Partial # Foreign /\ Foreign # Absent
  /\ \A f, rng : Whole(f, rng) # Partial
  BY DEF Partial, Absent, Foreign, Whole

LEMMA CutShortInit == Init => CutShort
<1> SUFFICES ASSUME Init PROVE CutShort
  OBVIOUS
<1>1. Partials = {} /\ Allowed = 0 /\ phase # "write"
  BY CellsApart DEF Init, Partials, Allowed, Bound
<1>2. IsFiniteSet({}) /\ Cardinality({}) = 0
  BY FS_EmptySet
<1> QED
  BY <1>1, <1>2 DEF CutShort

\* A step that cuts no further file short and does not lower the bound.
LEMMA FewerCutShort ==
  ASSUME CutShort, Partials' \subseteq Partials,
         Allowed \in Nat, Allowed' \in Nat, Allowed <= Allowed',
         phase' = "write" => FileAt(pos)' \in Partials'
  PROVE  CutShort'
<1>1. /\ IsFiniteSet(Partials) /\ Cardinality(Partials) <= Allowed
      /\ Cardinality(Partials) \in Nat
  BY FS_CardinalityType DEF CutShort
<1>2. /\ IsFiniteSet(Partials') /\ Cardinality(Partials') <= Cardinality(Partials)
      /\ Cardinality(Partials') \in Nat
  BY <1>1, FS_Subset, FS_CardinalityType
<1> QED
  BY <1>1, <1>2 DEF CutShort

LEMMA CutShortStep ==
  ASSUME IInv, CutShort, [Next]_vars
  PROVE  CutShort'
<1>1. /\ disk \in [Names -> Cells] /\ fails \in Nat /\ pos \in Nat \ {0}
      /\ IInv' /\ fails' \in Nat
  BY NextIInv, DiskType, ConstantsAssumption DEF IInv, TypeOK
<1>2. Allowed \in Nat /\ Allowed' \in Nat
  BY <1>1, AllowedType DEF Allowed
<1>3. ASSUME NEW call \in Calls, Start(call) PROVE CutShort'
  <2>1. Partials' = Partials /\ phase' # "write" /\ Allowed = Allowed'
    BY <1>3 DEF Start, Partials, Allowed, Bound
  <2> QED
    BY <1>2, <2>1, FewerCutShort
<1>4. ASSUME NEW f \in todo, Unlink(f) PROVE CutShort'
  <2>1. Partials' \subseteq Partials /\ phase' # "write" /\ Allowed = Allowed'
    BY <1>1, <1>4, CellsApart DEF Unlink, Partials, Allowed, Bound
  <2> QED
    BY <1>2, <2>1, FewerCutShort
<1>5. ASSUME Cleaned \/ Finish PROVE CutShort'
  <2>1. Partials' = Partials /\ phase' # "write" /\ Allowed = Allowed'
    BY <1>5 DEF Cleaned, Finish, Partials, Allowed, Bound
  <2> QED
    BY <1>2, <2>1, FewerCutShort
<1>6. CASE Open
  <2> DEFINE f == FileAt(pos)
  <2>1. /\ phase = "open" /\ phase' = "write" /\ fails' = fails /\ pos' = pos
        /\ disk' = [disk EXCEPT ![f] = Partial]
    BY <1>6 DEF Open
  <2>2. f \in Names
    <3>1. args \in Calls /\ pos \in 1 .. Total(args.count)
      BY <1>1, <1>6, CallType DEF IInv, TypeOK, Open
    <3> QED
      BY <3>1, SelectedSeed DEF Names
  <2>3. Partials' = Partials \cup {f}
    BY <1>1, <2>1, <2>2 DEF Partials
  <2>4. Allowed' = Allowed + 1
    BY <1>1, <2>1 DEF Allowed, Bound
  <2>5. /\ IsFiniteSet(Partials) /\ Cardinality(Partials) <= Allowed
        /\ Cardinality(Partials) \in Nat
    BY FS_CardinalityType DEF CutShort
  <2>6. /\ IsFiniteSet(Partials \cup {f})
        /\ Cardinality(Partials \cup {f}) <= Cardinality(Partials) + 1
        /\ Cardinality(Partials \cup {f}) \in Nat
    BY <2>5, FS_AddElement, FS_CardinalityType
  <2>7. FileAt(pos)' = f
    BY <2>1
  <2> QED
    BY <1>2, <2>3, <2>4, <2>5, <2>6, <2>7 DEF CutShort
<1>7. CASE Write
  <2> DEFINE f == FileAt(pos)
  <2>1. /\ phase = "write" /\ phase' = "open" /\ fails' = fails
        /\ disk' = [disk EXCEPT ![f] = Whole(f, args.rng)]
    BY <1>7 DEF Write
  <2>2. f \in Partials
    BY <2>1 DEF CutShort
  <2>3. Partials' = Partials \ {f}
    BY <1>1, <2>1, <2>2, CellsApart DEF Partials
  <2>4. Allowed = Allowed' + 1
    BY <1>1, <2>1 DEF Allowed, Bound
  <2>5. /\ IsFiniteSet(Partials) /\ Cardinality(Partials) <= Allowed
        /\ Cardinality(Partials) \in Nat
    BY FS_CardinalityType DEF CutShort
  <2>6. /\ IsFiniteSet(Partials \ {f})
        /\ Cardinality(Partials \ {f}) = Cardinality(Partials) - 1
    BY <2>2, <2>5, FS_RemoveElement
  <2> QED
    BY <1>2, <2>1, <2>3, <2>4, <2>5, <2>6 DEF CutShort
<1>8. CASE Interrupted
  <2>1. Partials' = Partials /\ phase' # "write" /\ Allowed <= Allowed'
    BY <1>1, <1>8 DEF Interrupted, Partials, Allowed, Bound
  <2> QED
    BY <1>2, <2>1, FewerCutShort
<1>9. ASSUME NEW f \in Finds, FuzzerFinds(f) PROVE CutShort'
  <2>1. /\ disk[f] = Absent /\ disk' = [disk EXCEPT ![f] = Foreign]
        /\ phase' = phase /\ fails' = fails /\ pos' = pos
    BY <1>9 DEF FuzzerFinds
  <2>2. Partials' = Partials
    BY <1>1, <2>1, CellsApart DEF Partials
  <2>3. Allowed' = Allowed /\ FileAt(pos)' = FileAt(pos)
    BY <2>1 DEF Allowed
  <2> QED
    BY <2>1, <2>2, <2>3 DEF CutShort
<1>10. CASE UNCHANGED vars
  <2>1. Partials' = Partials /\ Allowed' = Allowed /\ FileAt(pos)' = FileAt(pos)
        /\ phase' = phase
    BY <1>10 DEF vars, Partials, Allowed, Bound
  <2> QED
    BY <2>1 DEF CutShort
<1> QED
  BY <1>3, <1>4, <1>5, <1>6, <1>7, <1>8, <1>9, <1>10 DEF Next

\* However often calls are interrupted, and whatever is written over, removed
\* or added in between, no more files are cut short than calls were
\* interrupted, but for the one that is open.
THEOREM CutShortCounted == Spec => []PartialsCounted
<1>1. Init => IInv /\ CutShort
  BY InitIInv, CutShortInit
<1>2. IInv /\ CutShort /\ [Next]_vars => (IInv /\ CutShort)'
  BY NextIInv, CutShortStep
<1>3. CutShort => PartialsCounted
  BY DEF CutShort, PartialsCounted, Partials, Allowed, Bound
<1> QED
  BY <1>1, <1>2, <1>3, PTL DEF Spec

============================================================================
