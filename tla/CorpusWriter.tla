---------------------------- MODULE CorpusWriter ----------------------------
(***************************************************************************)
(* main() of a corpus generator: which seeds a call writes, and what is in *)
(* the output directory while calls follow one another, are interrupted,   *)
(* and a fuzzer adds its own finds to the same directory.                  *)
(*                                                                         *)
(* A seed file is <<k, v>>: builder k's seed when v = 0, else the v-th     *)
(* variation of the call, made from builder k's seed.  Its content follows *)
(* from its name and, for a variation, from the value given to --seed.     *)
(***************************************************************************)
EXTENDS Integers, FiniteSets

CONSTANTS
  NBase,     \* seeds in SEED_BUILDERS
  Counts,    \* values of --count
  RngSeeds,  \* values of --seed
  Strays,    \* other .textpb files, left there by an older generator
  Finds,     \* files a fuzzer adds, which have no such suffix
  MaxFails   \* bound: interrupted calls

ASSUME ConstantsAssumption ==
  /\ NBase \in Nat \ {0}
  /\ Counts \subseteq Int
  /\ RngSeeds \subseteq Nat \ {0}
  /\ MaxFails \in Nat

ASSUME NamesAssumption ==
  /\ Strays \cap ((1 .. NBase) \X Nat) = {}
  /\ Finds \cap ((1 .. NBase) \X Nat) = {}
  /\ Strays \cap Finds = {}

VARIABLES
  disk,   \* what each file holds
  args,   \* the arguments of the current or last call
  phase,  \* where that call is
  todo,   \* the files it still has to remove
  pos,    \* the seed it writes next
  fails   \* interrupted calls so far

vars == <<disk, args, phase, todo, pos, fails>>

----------------------------------------------------------------------------
(* The seeds a call selects *)

\* len(base_seeds[:target]), which counts from the end if target is negative,
\* and what the loop adds to it.
Total(target) ==
  IF target >= 0 THEN target
  ELSE IF NBase + target >= 0 THEN NBase + target ELSE 0

\* The base of variation number v.
BaseOf(v) == ((v - 1) % NBase) + 1

FileAt(i) == IF i <= NBase THEN <<i, 0>> ELSE <<BaseOf(i - NBase), i - NBase>>

\* What is in a file: nothing yet, part of a seed, or a seed in full with the
\* --seed that made it (0 for a base seed); a stray or a find stays as it is.
Absent  == [is |-> "absent", rng |-> 0]
Partial == [is |-> "partial", rng |-> 0]
Foreign == [is |-> "foreign", rng |-> 0]
Whole(f, rng) == [is |-> "seed", rng |-> IF f[2] = 0 THEN 0 ELSE rng]

----------------------------------------------------------------------------
SeedFiles == {FileAt(i) : i \in UNION {1 .. Total(c) : c \in Counts}}
Names == SeedFiles \cup Strays \cup Finds

Calls == [count : Counts, rng : RngSeeds, clean : BOOLEAN]
NoCall == [count |-> 0, rng |-> 0, clean |-> FALSE]

Present == {f \in Names : disk[f] # Absent}

Named(call) == {FileAt(i) : i \in 1 .. Total(call.count)}

Init ==
  /\ \E old \in SUBSET Strays :
       disk = [f \in Names |-> IF f \in old THEN Foreign ELSE Absent]
  /\ args = NoCall
  /\ phase = "idle"
  /\ todo = {}
  /\ pos = 1
  /\ fails = 0

\* Plausible slip: every file of the directory is listed, whatever its suffix.
Listed_all == Present

\* Plausible slip: only what the builders write today is removed.
Listed_own == Present \cap SeedFiles

\* os.listdir, and the suffix the loop looks for.
Listed == Present \ Finds

Start(call) ==
  /\ phase \in {"idle", "done"}
  /\ args' = call
  /\ IF call.clean THEN phase' = "clean" /\ todo' = Listed
                   ELSE phase' = "open" /\ todo' = {}
  /\ pos' = 1
  /\ UNCHANGED <<disk, fails>>

\* The directory's order is not specified.
Unlink(f) ==
  /\ phase = "clean"
  /\ f \in todo
  /\ disk' = [disk EXCEPT ![f] = Absent]
  /\ todo' = todo \ {f}
  /\ UNCHANGED <<args, phase, pos, fails>>

Cleaned ==
  /\ phase = "clean"
  /\ todo = {}
  /\ phase' = "open"
  /\ UNCHANGED <<disk, args, todo, pos, fails>>

\* emit(): open(path, "w") empties the file, ...
Open ==
  /\ phase = "open"
  /\ pos <= Total(args.count)
  /\ disk' = [disk EXCEPT ![FileAt(pos)] = Partial]
  /\ phase' = "write"
  /\ UNCHANGED <<args, todo, pos, fails>>

\* Plausible slip: no with block, and the file is never closed.
Write_unclosed ==
  /\ phase = "write"
  /\ pos' = pos + 1
  /\ phase' = "open"
  /\ UNCHANGED <<disk, args, todo, fails>>

\* ... and leaving the with block flushes and closes it.
Write ==
  /\ phase = "write"
  /\ disk' = [disk EXCEPT ![FileAt(pos)] = Whole(FileAt(pos), args.rng)]
  /\ pos' = pos + 1
  /\ phase' = "open"
  /\ UNCHANGED <<args, todo, fails>>

Finish ==
  /\ phase = "open"
  /\ pos > Total(args.count)
  /\ phase' = "done"
  /\ UNCHANGED <<disk, args, todo, pos, fails>>

\* An exception or a signal ends the call; nothing undoes what it did.
Interrupted ==
  /\ phase \in {"clean", "open", "write"}
  /\ fails < MaxFails
  /\ fails' = fails + 1
  /\ phase' = "idle"
  /\ todo' = {}
  /\ UNCHANGED <<disk, args, pos>>

\* A fuzzer that runs on the directory adds a file at any time.
FuzzerFinds(f) ==
  /\ disk[f] = Absent
  /\ disk' = [disk EXCEPT ![f] = Foreign]
  /\ UNCHANGED <<args, phase, todo, pos, fails>>

Next ==
  \/ \E call \in Calls : Start(call)
  \/ \E f \in todo : Unlink(f)
  \/ Cleaned
  \/ Open
  \/ Write
  \/ Finish
  \/ Interrupted
  \/ \E f \in Finds : FuzzerFinds(f)

Spec == Init /\ [][Next]_vars

----------------------------------------------------------------------------
(* Properties *)

\* The shape of all state: a file of the directory holds what its kind can.
TypeOK ==
  /\ disk \in [Names -> [is : {"absent", "partial", "seed", "foreign"},
                        rng : RngSeeds \cup {0}]]
  /\ args \in Calls \cup {NoCall}
  /\ phase \in {"idle", "clean", "open", "write", "done"}
  /\ phase \in {"clean", "open", "write", "done"} => args \in Calls
  /\ todo \subseteq SeedFiles \cup Strays
  /\ todo # {} => phase = "clean" /\ args.clean
  /\ pos \in Nat \ {0}
  /\ phase = "write" => pos <= Total(args.count)
  /\ fails \in 0 .. MaxFails

\* A call that ends has written each of its seeds in full, whatever calls
\* before it left, and after --clean they are the directory's only .textpb
\* files.
CompletedExactly ==
  phase = "done" =>
    /\ \A f \in Named(args) : disk[f] = Whole(f, args.rng)
    /\ args.clean => Present \ Finds = Named(args)

\* Each file that was cut short is the one being written or was left by an
\* interrupted call.
PartialsCounted ==
  Cardinality({f \in Names : disk[f] = Partial})
    <= fails + (IF phase = "write" THEN 1 ELSE 0)

\* A file is changed or removed only if the call names it or was asked to
\* clean; what a fuzzer found is never touched.
OnlyOwnFilesTouched ==
  [][\A f \in Present : disk'[f] # disk[f] =>
       f \in Named(args) \/ (args.clean /\ f \notin Finds)]_vars

============================================================================
