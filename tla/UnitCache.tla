------------------------------ MODULE UnitCache ------------------------------
(***************************************************************************)
(* The cache of separately compiled units (src/cache/separate_unit.cxx and *)
(* checkUnitsSeparately in src/main.cxx), shared by every compiler a user  *)
(* runs: a directory per key, holding the interface of the unit, its Core, *)
(* and a manifest with the digests of both.                                *)
(*                                                                         *)
(* A program is two units, base and top; top may use base.  A unit is      *)
(* compiled against the interfaces of the units it reaches, so its key is  *)
(* made of its sources and of those interfaces (and of the toolchain).  An *)
(* entry is written to a directory of its own and renamed into place.      *)
(***************************************************************************)
EXTENDS Integers, Sequences

CONSTANTS
    Compilers,  \* the compilers that may run at one time, of one toolchain
    MaxBuilds,  \* bound: builds started
    MaxEdits,   \* bound: changes to the sources and to the surroundings
    MaxFaults   \* bound: compilers killed, writes that fail, files damaged

ASSUME UnitCacheAssumption == MaxBuilds \in Nat /\ MaxEdits \in Nat /\ MaxFaults \in Nat

Units == <<"base", "top">>
Names == {"base", "top"}

(* outside: it has a `compiled do` block, or embeds a file.                *)
BaseSources == [interface : {1, 2}, body : {1, 2}, outside : BOOLEAN]
TopSources  == [interface : {1}, uses : BOOLEAN]
Sources     == [base : BaseSources, top : TopSources]

(* What is compiled: the sources and the surroundings a compilation may    *)
(* look at, read together when the build begins.                           *)
Snapshots == [source : Sources, ambient : {1, 2}]

Reaches(snap, unit) == unit = "top" /\ snap.source.top.uses
Outside(snap, unit) == unit = "base" /\ snap.source.base.outside

(* A unit's interface, and its Core: what went into it.                    *)
Interface(snap, unit) == <<unit, snap.source[unit].interface>>
Core(snap, unit) ==
    [source    |-> snap.source[unit],
     against   |-> IF Reaches(snap, unit) THEN <<Interface(snap, "base")>> ELSE <<>>,
     ambient   |-> IF Outside(snap, unit) THEN snap.ambient ELSE 0]
Compiled(snap, unit) == [interface |-> Interface(snap, unit), core |-> Core(snap, unit)]

Interfaces == Names \X {1, 2}
Cores   == [source  : BaseSources \cup TopSources,
            against : {<<>>} \cup {<<i>> : i \in Interfaces},
            ambient : {0, 1, 2}]
Results == [interface : Interfaces, core : Cores]

\* Faulty: the units a unit reaches are not part of its key.
KeyWithoutInterfaces(snap, unit) ==
    [unit |-> unit, source |-> snap.source[unit], against |-> <<>>]
KeyFor(snap, unit) ==
    [unit    |-> unit,
     source  |-> snap.source[unit],
     against |-> IF Reaches(snap, unit) THEN <<Interface(snap, "base")>> ELSE <<>>]
\* Faulty: whatever its source does, a unit is cached.
SafeAlways(snap, unit) == TRUE
(* A unit whose source may look at its surroundings has no key.            *)
Safe(snap, unit) == ~Outside(snap, unit)

Cached  == {su \in Snapshots \X Names : Safe(su[1], su[2])}
Keys    == {KeyFor(su[1], su[2]) : su \in Cached}
StandsFor == {<<KeyFor(su[1], su[2]), Compiled(su[1], su[2])>> : su \in Cached}

---------------------------------------------------------------------------
FileNames == {"interface", "core", "manifest"}

VARIABLES
    source,   \* the source files
    ambient,  \* what a compile-time evaluation would find
    dir,      \* of each key, the files in its directory and what they hold
    staged,   \* the same of the directory each compiler is filling
    pc,       \* what each compiler does next
    snap,     \* what it compiles
    built,    \* the units it has the results of
    builds,   \* builds so far
    edits,    \* edits so far
    faults    \* faults so far

vars == <<source, ambient, dir, staged, pc, snap, built, builds, edits, faults>>

(* A directory is a function from the names of the files in it.  A file    *)
(* has a part of a result, or in the manifest the digests of both; one     *)
(* that is not whole is there and is not what was written.                 *)
Contents == [whole : BOOLEAN, of : Results]
Directory(files) == DOMAIN files \subseteq FileNames /\ \A f \in DOMAIN files : files[f] \in Contents
Empty == [f \in {} |-> TRUE]
With(files, f, content) ==
    [g \in DOMAIN files \cup {f} |-> IF g = f THEN content ELSE files[g]]

\* The files are written in this order.
NextFile(files) ==
    CASE "interface" \notin DOMAIN files -> "interface"
      [] "interface" \in DOMAIN files /\ "core" \notin DOMAIN files -> "core"
      [] "interface" \in DOMAIN files /\ "core" \in DOMAIN files -> "manifest"

Unit(c)    == Units[Len(built[c]) + 1]
Key(c)     == KeyFor(snap[c], Unit(c))
Result(c)  == Compiled(snap[c], Unit(c))
Written(c) == [whole |-> TRUE, of |-> Result(c)]

TypeOK ==
    /\ source \in Sources /\ ambient \in {1, 2}
    /\ DOMAIN dir = Keys /\ \A k \in Keys : Directory(dir[k])
    /\ DOMAIN staged = Compilers /\ \A c \in Compilers : Directory(staged[c])
    /\ pc \in [Compilers -> {"idle", "lookup", "store", "write", "rename", "done"}]
    /\ snap \in [Compilers -> Snapshots]
    /\ built \in [Compilers -> Seq(Results)]
    /\ \A c \in Compilers :
          IF pc[c] = "done" THEN Len(built[c]) = Len(Units) ELSE Len(built[c]) < Len(Units)
    /\ builds \in 0..MaxBuilds /\ edits \in 0..MaxEdits /\ faults \in 0..MaxFaults

---------------------------------------------------------------------------
Start(c) ==
    /\ pc[c] \in {"idle", "done"}
    /\ builds < MaxBuilds /\ builds' = builds + 1
    /\ snap' = [snap EXCEPT ![c] = [source |-> source, ambient |-> ambient]]
    /\ built' = [built EXCEPT ![c] = <<>>]
    /\ pc' = [pc EXCEPT ![c] = "lookup"]
    /\ staged' = [staged EXCEPT ![c] = Empty]
    /\ UNCHANGED <<source, ambient, dir, edits, faults>>

(* The unit's result is there: on to the next unit.                        *)
Has(c, result) ==
    /\ built' = [built EXCEPT ![c] = Append(@, result)]
    /\ pc' = [pc EXCEPT ![c] = IF Len(built[c]) + 1 = Len(Units) THEN "done" ELSE "lookup"]

\* Faulty: the digests of the manifest are not compared.
LoadableUnchecked(files) == DOMAIN files = FileNames
(* load: the manifest is there, and each file is what its digest says.     *)
Loadable(files) ==
    /\ DOMAIN files = FileNames
    /\ \A f \in FileNames : files[f].whole
    /\ files["interface"].of.interface = files["manifest"].of.interface
    /\ files["core"].of.core = files["manifest"].of.core

Taken(files) ==
    IF files["interface"].whole /\ files["core"].whole
    THEN [interface |-> files["interface"].of.interface, core |-> files["core"].of.core]
    ELSE [interface |-> <<>>, core |-> <<>>]

Lookup(c) ==
    /\ pc[c] = "lookup"
    /\ \/ /\ Safe(snap[c], Unit(c)) /\ Loadable(dir[Key(c)])
          /\ Has(c, Taken(dir[Key(c)]))
       \/ /\ Safe(snap[c], Unit(c)) /\ ~Loadable(dir[Key(c)])
          /\ pc' = [pc EXCEPT ![c] = "store"]
          /\ UNCHANGED built
       \/ ~Safe(snap[c], Unit(c)) /\ Has(c, Result(c))
    /\ UNCHANGED <<source, ambient, dir, staged, snap, builds, edits, faults>>

(* store, of what was just compiled: nothing is done when the key has a    *)
(* manifest already.                                                       *)
Store(c) ==
    /\ pc[c] = "store"
    /\ IF "manifest" \in DOMAIN dir[Key(c)]
       THEN Has(c, Result(c))
       ELSE pc' = [pc EXCEPT ![c] = "write"] /\ UNCHANGED built
    /\ staged' = [staged EXCEPT ![c] = Empty]
    /\ UNCHANGED <<source, ambient, dir, snap, builds, edits, faults>>

\* Faulty: the files are written where they are to be read.
WriteInPlace(c) ==
    /\ pc[c] = "write"
    /\ LET files == dir[Key(c)]
       IN  IF DOMAIN files = FileNames
           THEN Has(c, Result(c)) /\ UNCHANGED dir
           ELSE /\ dir' = [dir EXCEPT ![Key(c)] =
                             With(files, NextFile(files), Written(c))]
                /\ UNCHANGED <<pc, built>>
    /\ UNCHANGED <<source, ambient, staged, snap, builds, edits, faults>>
\* Faulty: a file that could not be written is passed over.
WritePassingOver(c) ==
    /\ pc[c] = "write"
    /\ \E f \in FileNames :
          /\ staged' = [staged EXCEPT ![c] = With(@, f, Written(c))]
          /\ pc' = [pc EXCEPT ![c] = IF f = "manifest" THEN "rename" ELSE "write"]
    /\ UNCHANGED <<source, ambient, dir, snap, built, builds, edits, faults>>
(* The files in their order, the manifest last, into a directory no other  *)
(* compiler uses.                                                          *)
Write(c) ==
    /\ pc[c] = "write"
    /\ LET f == NextFile(staged[c])
       IN  /\ staged' = [staged EXCEPT ![c] = With(@, f, Written(c))]
           /\ pc' = [pc EXCEPT ![c] = IF f = "manifest" THEN "rename" ELSE "write"]
    /\ UNCHANGED <<source, ambient, dir, snap, built, builds, edits, faults>>

(* A directory can be renamed over one that is empty only; when it cannot, *)
(* what was staged is removed and the entry stays as it is.                *)
Rename(c) ==
    /\ pc[c] = "rename"
    /\ dir' = [dir EXCEPT ![Key(c)] = IF DOMAIN @ = {} THEN staged[c] ELSE @]
    /\ staged' = [staged EXCEPT ![c] = Empty]
    /\ Has(c, Result(c))
    /\ UNCHANGED <<source, ambient, snap, builds, edits, faults>>

---------------------------------------------------------------------------
(* What goes wrong, and what changes. *)

Fault == faults < MaxFaults /\ faults' = faults + 1

\* What was staged is removed; the build has its result and goes on.
WriteFails(c) ==
    /\ Fault
    /\ pc[c] = "write"
    /\ staged' = [staged EXCEPT ![c] = Empty]
    /\ Has(c, Result(c))
    /\ UNCHANGED <<source, ambient, dir, snap, builds, edits>>

\* A compiler killed leaves its staging directory behind, where no one looks.
Killed(c) ==
    /\ Fault
    /\ pc[c] \notin {"idle", "done"}
    /\ pc' = [pc EXCEPT ![c] = "idle"]
    /\ UNCHANGED <<source, ambient, dir, staged, snap, built, builds, edits>>

Damaged(k, f) ==
    /\ Fault
    /\ f \in DOMAIN dir[k]
    /\ \/ dir' = [dir EXCEPT ![k] = With(@, f, [whole |-> FALSE, of |-> dir[k][f].of])]
       \/ dir' = [dir EXCEPT ![k] = [g \in DOMAIN dir[k] \ {f} |-> dir[k][g]]]
    /\ UNCHANGED <<source, ambient, staged, pc, snap, built, builds, edits>>

Edit ==
    /\ edits < MaxEdits /\ edits' = edits + 1
    /\ \/ source' \in Sources /\ UNCHANGED ambient
       \/ ambient' \in {1, 2} /\ UNCHANGED source
    /\ UNCHANGED <<dir, staged, pc, snap, built, builds, faults>>

Init ==
    /\ source \in [base : [interface : {1}, body : {1}, outside : BOOLEAN],
                   top  : [interface : {1}, uses : {TRUE}]]
    /\ ambient = 1
    /\ dir = [k \in Keys |-> Empty]
    /\ staged = [c \in Compilers |-> Empty]
    /\ pc = [c \in Compilers |-> "idle"]
    /\ snap = [c \in Compilers |-> [source |-> source, ambient |-> ambient]]
    /\ built = [c \in Compilers |-> <<>>]
    /\ builds = 0 /\ edits = 0 /\ faults = 0

Next ==
    \/ \E c \in Compilers :
          \/ Start(c)
          \/ Lookup(c) \/ Store(c) \/ Write(c) \/ Rename(c)
          \/ WriteFails(c) \/ Killed(c)
    \/ \E k \in Keys : \E f \in FileNames : Damaged(k, f)
    \/ Edit

Spec == Init /\ [][Next]_vars

---------------------------------------------------------------------------
(* Properties. *)

(* Whatever it takes from the cache, and whoever wrote it, a build has     *)
(* what compiling its own sources against one another would give.          *)
BuildCorrect ==
    \A c \in Compilers : \A i \in DOMAIN built[c] :
        built[c][i] = Compiled(snap[c], Units[i])

\* Only a unit with a key is stored, and what is staged is its result.
StagedRight ==
    \A c \in Compilers : pc[c] \in {"store", "write", "rename"} =>
        /\ Safe(snap[c], Unit(c))
        /\ pc[c] # "store"  => \A f \in DOMAIN staged[c] : staged[c][f] = Written(c)
        /\ pc[c] = "write"  => "manifest" \notin DOMAIN staged[c]
        /\ pc[c] = "rename" => DOMAIN staged[c] = FileNames

\* Every whole file under a key is of the one result the key stands for.
EntriesRight ==
    \A k \in Keys : \A f \in DOMAIN dir[k] :
        dir[k][f].whole => <<k, dir[k][f].of>> \in StandsFor

(* The cache is right: a build is never given another's result, and what   *)
(* makes that so, of the entries and of what is on its way to them.        *)
CacheCorrect == TypeOK /\ StagedRight /\ EntriesRight /\ BuildCorrect

(* The cache implements the write-once store: an entry is absent until all *)
(* of it is there, and what damage leaves is never taken for an entry and  *)
(* never replaced.                                                         *)
Standing(k) ==
    IF DOMAIN dir[k] = {} THEN "absent"
    ELSE IF Loadable(dir[k]) THEN "stored" ELSE "damaged"
Store0 == INSTANCE UnitStore WITH entry <- [k \in Keys |-> Standing(k)]
WriteOnce == Store0!Spec
=============================================================================
