--------------------------- MODULE UnitCacheProofs ---------------------------
(***************************************************************************)
(* Proofs about UnitCache, for any number of compilers, builds, edits and  *)
(* faults: a build is never given another's result, and the cache is the   *)
(* write-once store of UnitStore.                                          *)
(*                                                                         *)
(* Both rest on one fact about keys (KeyDetermines): units with the same   *)
(* key have the same result.  So whatever compiler staged a directory, its *)
(* whole files are of the result the key stands for.                       *)
(***************************************************************************)
EXTENDS UnitCache, TLAPS

\* Two units that are cached under one key compile to the same result: what
\* a result is made of and the key leaves out, the surroundings, a cached unit
\* does not look at.
LEMMA KeyDetermines ==
    ASSUME NEW s1 \in Snapshots, NEW s2 \in Snapshots,
           NEW u1 \in Names, NEW u2 \in Names,
           Safe(s1, u1), Safe(s2, u2), KeyFor(s1, u1) = KeyFor(s2, u2)
    PROVE  Compiled(s1, u1) = Compiled(s2, u2)
<1>1. /\ u1 = u2
      /\ s1.source[u1] = s2.source[u2]
      /\ KeyFor(s1, u1).against = KeyFor(s2, u2).against
  BY DEF KeyFor
<1>2. Interface(s1, u1) = Interface(s2, u2)
  BY <1>1 DEF Interface
<1>3. Core(s1, u1) = Core(s2, u2)
  BY <1>1 DEF Core, KeyFor, Safe
<1> QED BY <1>2, <1>3 DEF Compiled

\* What is compiled is a result.
LEMMA CompiledIsResult ==
    ASSUME NEW s \in Snapshots, NEW u \in Names PROVE Compiled(s, u) \in Results
<1>1. s.source[u] \in BaseSources \cup TopSources
  BY DEF Snapshots, Sources, Names
<1>2. Interface(s, u) \in Interfaces /\ Interface(s, "base") \in Interfaces
  BY DEF Snapshots, Sources, BaseSources, TopSources, Names, Interface, Interfaces
<1>3. s.ambient \in {0, 1, 2}
  BY DEF Snapshots
<1>4. Core(s, u) \in Cores
  BY <1>1, <1>2, <1>3 DEF Core, Cores
<1> QED BY <1>2, <1>4 DEF Compiled, Results

\* A key stands for the one result of the units that have it.
LEMMA StandsForOne ==
    ASSUME NEW s \in Snapshots, NEW u \in Names, Safe(s, u)
    PROVE  /\ KeyFor(s, u) \in Keys
           /\ <<KeyFor(s, u), Compiled(s, u)>> \in StandsFor
           /\ \A r : <<KeyFor(s, u), r>> \in StandsFor => r = Compiled(s, u)
<1>1. <<s, u>> \in Cached
  BY DEF Cached
<1>2. KeyFor(s, u) \in Keys /\ <<KeyFor(s, u), Compiled(s, u)>> \in StandsFor
  BY <1>1 DEF Keys, StandsFor
<1>3. ASSUME NEW r, <<KeyFor(s, u), r>> \in StandsFor PROVE r = Compiled(s, u)
  <2>1. PICK su \in Cached :
           <<KeyFor(s, u), r>> = <<KeyFor(su[1], su[2]), Compiled(su[1], su[2])>>
    BY <1>3 DEF StandsFor
  <2>2. su[1] \in Snapshots /\ su[2] \in Names /\ Safe(su[1], su[2])
    BY DEF Cached
  <2> QED BY <2>1, <2>2, KeyDetermines
<1> QED BY <1>2, <1>3

\* The unit a compiler is at, while it builds.
LEMMA AtUnit ==
    ASSUME TypeOK, NEW c \in Compilers, pc[c] # "done"
    PROVE  /\ Len(built[c]) \in {0, 1} /\ Unit(c) \in Names
           /\ Unit(c) = Units[Len(built[c]) + 1] /\ snap[c] \in Snapshots
           /\ Result(c) \in Results /\ Written(c) \in Contents
<1>1. built[c] \in Seq(Results) /\ snap[c] \in Snapshots /\ Len(built[c]) < 2
  BY DEF TypeOK, Units
<1>2. Len(built[c]) \in {0, 1} /\ Unit(c) \in Names
  <2> DEFINE n == Len(built[c])
  <2>0. n \in Nat /\ n < 2
    BY <1>1
  <2> HIDE DEF n
  <2>1. n = 0 \/ n = 1
    BY <2>0
  <2>2. Units[1] = "base" /\ Units[2] = "top"
    BY DEF Units
  <2>3. Unit(c) = Units[1] \/ Unit(c) = Units[2]
    <3>1. n + 1 = 1 \/ n + 1 = 2
      BY <2>1
    <3>2. Unit(c) = Units[n + 1]
      BY DEF Unit, n
    <3> QED BY <3>1, <3>2
  <2> QED BY <2>1, <2>2, <2>3 DEF Names, n
<1>3. Result(c) \in Results
  BY <1>1, <1>2, CompiledIsResult DEF Result
<1> QED BY <1>1, <1>2, <1>3 DEF Unit, Written, Contents

\* What the cache holds of a compiler's unit, when it can be loaded, is what
\* compiling the unit would give.
LEMMA LoadedIsResult ==
    ASSUME TypeOK, EntriesRight, NEW c \in Compilers, pc[c] # "done",
           Safe(snap[c], Unit(c)), Loadable(dir[Key(c)])
    PROVE  Taken(dir[Key(c)]) = Result(c)
<1>1. Unit(c) \in Names /\ snap[c] \in Snapshots
  BY AtUnit
<1>2. Key(c) \in Keys /\ \A r : <<Key(c), r>> \in StandsFor => r = Result(c)
  BY <1>1, StandsForOne DEF Key, Result
<1>3. \A f \in FileNames : dir[Key(c)][f].whole /\ dir[Key(c)][f].of = Result(c)
  BY <1>2 DEF EntriesRight, Loadable
<1>4. Taken(dir[Key(c)]) = [interface |-> Result(c).interface, core |-> Result(c).core]
  BY <1>3 DEF Taken, FileNames
<1> QED BY <1>4 DEF Result, Compiled

\* A compiler that has a unit's result goes on to the next, and nothing of
\* another compiler changes.
LEMMA Advances ==
    ASSUME CacheCorrect, NEW c \in Compilers, pc[c] \notin {"idle", "done"},
           Has(c, Result(c)), UNCHANGED snap,
           staged' = staged \/ staged' = [staged EXCEPT ![c] = Empty]
    PROVE  /\ pc' \in [Compilers -> {"idle", "lookup", "store", "write", "rename", "done"}]
           /\ built' \in [Compilers -> Seq(Results)]
           /\ \A d \in Compilers :
                 IF pc'[d] = "done" THEN Len(built'[d]) = Len(Units) ELSE Len(built'[d]) < Len(Units)
           /\ DOMAIN staged' = Compilers
           /\ \A d \in Compilers : Directory(staged'[d])
           /\ StagedRight'
           /\ BuildCorrect'
<1> USE DEF CacheCorrect
<1>1. /\ Len(built[c]) \in {0, 1} /\ Unit(c) = Units[Len(built[c]) + 1]
      /\ Result(c) \in Results /\ built[c] \in Seq(Results)
  BY AtUnit DEF TypeOK
<1>2. pc' \in [Compilers -> {"idle", "lookup", "store", "write", "rename", "done"}]
  BY DEF Has, TypeOK
<1>3. built' \in [Compilers -> Seq(Results)]
  BY <1>1 DEF Has, TypeOK
<1>4. /\ built'[c] = Append(built[c], Result(c)) /\ Len(built'[c]) = Len(built[c]) + 1
      /\ pc'[c] = IF Len(built[c]) + 1 = 2 THEN "done" ELSE "lookup"
      /\ \A d \in Compilers \ {c} : built'[d] = built[d] /\ pc'[d] = pc[d]
  BY <1>1 DEF Has, TypeOK, Units
<1>5. ASSUME NEW d \in Compilers
      PROVE  IF pc'[d] = "done" THEN Len(built'[d]) = Len(Units) ELSE Len(built'[d]) < Len(Units)
  <2>1. CASE d # c
    BY <2>1, <1>4 DEF TypeOK
  <2>2. CASE d = c
    <3>1. Len(Units) = 2
      BY DEF Units
    <3> QED BY <2>2, <3>1, <1>1, <1>4
  <2> QED BY <2>1, <2>2
<1>6. /\ DOMAIN staged' = Compilers
      /\ \A d \in Compilers : Directory(staged'[d])
      /\ \A d \in Compilers \ {c} : staged'[d] = staged[d]
  <2>1. Directory(Empty) /\ DOMAIN staged = Compilers /\ \A d \in Compilers : Directory(staged[d])
    BY DEF TypeOK, Directory, Empty
  <2>2. CASE staged' = staged
    BY <2>1, <2>2
  <2>3. CASE staged' = [staged EXCEPT ![c] = Empty]
    <3>1. \A d \in Compilers : staged'[d] = IF d = c THEN Empty ELSE staged[d]
      BY <2>1, <2>3
    <3> QED BY <2>1, <2>3, <3>1
  <2> QED BY <2>2, <2>3
<1>7. StagedRight'
  <2> SUFFICES ASSUME NEW d \in Compilers, pc'[d] \in {"store", "write", "rename"}
               PROVE  /\ Safe(snap[d], Unit(d)')
                      /\ pc'[d] # "store"  => \A f \in DOMAIN staged'[d] : staged'[d][f] = Written(d)'
                      /\ pc'[d] = "write"  => "manifest" \notin DOMAIN staged'[d]
                      /\ pc'[d] = "rename" => DOMAIN staged'[d] = FileNames
    BY DEF StagedRight
  <2>1. d # c /\ pc[d] = pc'[d] /\ built'[d] = built[d] /\ staged'[d] = staged[d]
    BY <1>4, <1>6
  <2>2. Unit(d)' = Unit(d) /\ Written(d)' = Written(d)
    BY <2>1 DEF Unit, Written, Result
  <2> QED BY <2>1, <2>2 DEF StagedRight
<1>8. BuildCorrect'
  <2> SUFFICES ASSUME NEW d \in Compilers, NEW i \in DOMAIN built'[d]
               PROVE  built'[d][i] = Compiled(snap[d], Units[i])
    BY DEF BuildCorrect
  <2>1. CASE d # c
    BY <2>1, <1>4 DEF BuildCorrect
  <2>2. CASE d = c /\ i \in DOMAIN built[c]
    BY <2>2, <1>1, <1>4 DEF BuildCorrect
  <2>3. CASE d = c /\ i \notin DOMAIN built[c]
    <3>1. i = Len(built[c]) + 1
      BY <2>3, <1>1, <1>4
    <3> QED BY <2>3, <3>1, <1>1, <1>4 DEF Result
  <2> QED BY <2>1, <2>2, <2>3
<1> QED BY <1>2, <1>3, <1>5, <1>6, <1>7, <1>8

\* What is staged for a key is a result of that key, and so may go under it.
LEMMA RenameKeepsEntries ==
    ASSUME CacheCorrect, NEW c \in Compilers, Rename(c)
    PROVE  /\ DOMAIN dir' = Keys /\ \A k \in Keys : Directory(dir'[k])
           /\ EntriesRight'
<1> USE DEF CacheCorrect
<1>1. /\ Unit(c) \in Names /\ snap[c] \in Snapshots /\ Safe(snap[c], Unit(c))
      /\ \A f \in DOMAIN staged[c] : staged[c][f] = Written(c)
  BY AtUnit DEF Rename, StagedRight
<1>2. Key(c) \in Keys /\ <<Key(c), Result(c)>> \in StandsFor
  BY <1>1, StandsForOne DEF Key, Result
<1>3. /\ DOMAIN dir' = Keys
      /\ \A k \in Keys : dir'[k] = dir[k] \/ (k = Key(c) /\ dir'[k] = staged[c])
  BY <1>2 DEF Rename, TypeOK
<1>4. \A k \in Keys : Directory(dir'[k])
  BY <1>3 DEF TypeOK
<1>5. ASSUME NEW k \in Keys, NEW f \in DOMAIN dir'[k], dir'[k][f].whole
      PROVE  <<k, dir'[k][f].of>> \in StandsFor
  <2>1. CASE dir'[k] = dir[k]
    BY <2>1, <1>5 DEF EntriesRight
  <2>2. CASE k = Key(c) /\ dir'[k] = staged[c]
    BY <2>2, <1>1, <1>2 DEF Written
  <2> QED BY <1>3, <2>1, <2>2
<1> QED BY <1>3, <1>4, <1>5 DEF EntriesRight

\* A damaged file is not taken for what it was.
LEMMA DamageKeepsEntries ==
    ASSUME CacheCorrect, NEW k \in Keys, NEW f \in FileNames, Damaged(k, f)
    PROVE  /\ DOMAIN dir' = Keys /\ \A j \in Keys : Directory(dir'[j])
           /\ EntriesRight'
<1> USE DEF CacheCorrect
<1> DEFINE bad == [whole |-> FALSE, of |-> dir[k][f].of]
           rest == [g \in DOMAIN dir[k] \ {f} |-> dir[k][g]]
<1>1. Directory(dir[k]) /\ f \in DOMAIN dir[k] /\ bad \in Contents /\ bad.whole = FALSE
      /\ f \in FileNames
  BY DEF TypeOK, Damaged, Directory, Contents
<1>2. /\ Directory(With(dir[k], f, bad))
      /\ DOMAIN With(dir[k], f, bad) = DOMAIN dir[k] \cup {f}
      /\ \A g \in DOMAIN dir[k] \cup {f} :
            With(dir[k], f, bad)[g] = IF g = f THEN bad ELSE dir[k][g]
  BY <1>1 DEF With, Directory
<1>3. Directory(rest)
  BY <1>1 DEF Directory
<1>4. /\ DOMAIN dir' = Keys
      /\ \A j \in Keys \ {k} : dir'[j] = dir[j]
      /\ dir'[k] = With(dir[k], f, bad) \/ dir'[k] = rest
  BY DEF Damaged, TypeOK
<1>5. \A j \in Keys : Directory(dir'[j])
  <2> HIDE DEF bad, rest
  <2> QED BY <1>2, <1>3, <1>4 DEF TypeOK
<1>6. ASSUME NEW j \in Keys, NEW g \in DOMAIN dir'[j], dir'[j][g].whole
      PROVE  <<j, dir'[j][g].of>> \in StandsFor
  <2>1. g \in DOMAIN dir[j] /\ dir'[j][g] = dir[j][g]
    <3>1. CASE j # k
      BY <3>1, <1>4
    <3>2. CASE j = k /\ dir'[k] = With(dir[k], f, bad)
      <4> HIDE DEF bad
      <4> QED BY <3>2, <1>1, <1>2, <1>6
    <3>3. CASE j = k /\ dir'[k] = rest
      BY <3>3
    <3> QED BY <1>4, <3>1, <3>2, <3>3
  <2> QED BY <2>1, <1>6 DEF EntriesRight
<1> QED BY <1>4, <1>5, <1>6 DEF EntriesRight

\* What a build is given is its own, whoever else uses the cache and whatever
\* is killed, fails, is damaged or is edited meanwhile.
THEOREM CacheIsRight == Spec => []CacheCorrect
<1>1. Init => CacheCorrect
  <2> SUFFICES ASSUME Init PROVE CacheCorrect
    OBVIOUS
  <2>1. source \in Sources /\ ambient \in {1, 2}
    BY DEF Init, Sources, BaseSources, TopSources
  <2>2. [source |-> source, ambient |-> ambient] \in Snapshots
    BY <2>1 DEF Snapshots
  <2>3. Directory(Empty) /\ DOMAIN Empty = {}
    BY DEF Directory, Empty
  <2>4. \A c \in Compilers : pc[c] = "idle" /\ built[c] = <<>> /\ Len(built[c]) < Len(Units)
    <3>1. Len(Units) = 2 /\ Len(<<>>) = 0
      BY DEF Units
    <3>2. \A c \in Compilers : pc[c] = "idle" /\ built[c] = <<>>
      BY DEF Init
    <3>3. 0 < Len(Units)
      BY <3>1
    <3> QED BY <3>1, <3>2, <3>3
  <2>5. TypeOK
    BY <2>1, <2>2, <2>3, <2>4, UnitCacheAssumption DEF Init, TypeOK
  <2>6. StagedRight /\ EntriesRight /\ BuildCorrect
    BY <2>3, <2>4 DEF Init, StagedRight, EntriesRight, BuildCorrect
  <2> QED BY <2>5, <2>6 DEF CacheCorrect
<1>2. CacheCorrect /\ [Next]_vars => CacheCorrect'
  <2> SUFFICES ASSUME CacheCorrect, [Next]_vars PROVE CacheCorrect'
    OBVIOUS
  <2> USE DEF CacheCorrect
  <2>1. ASSUME NEW c \in Compilers, Start(c) PROVE CacheCorrect'
    <3>1. snap' \in [Compilers -> Snapshots] /\ built' \in [Compilers -> Seq(Results)]
      BY <2>1 DEF Start, TypeOK, Snapshots
    <3>2. /\ pc' \in [Compilers -> {"idle", "lookup", "store", "write", "rename", "done"}]
          /\ pc'[c] = "lookup" /\ built'[c] = <<>> /\ Len(built'[c]) = 0
          /\ \A d \in Compilers \ {c} :
                /\ pc'[d] = pc[d] /\ built'[d] = built[d] /\ staged'[d] = staged[d]
                /\ snap'[d] = snap[d]
      BY <2>1 DEF Start, TypeOK
    <3>3. DOMAIN staged' = Compilers /\ \A d \in Compilers : Directory(staged'[d])
      BY <2>1 DEF Start, TypeOK, Directory, Empty
    <3>4. ASSUME NEW d \in Compilers
          PROVE  IF pc'[d] = "done" THEN Len(built'[d]) = Len(Units) ELSE Len(built'[d]) < Len(Units)
      BY <3>2 DEF TypeOK, Units
    <3>5. TypeOK'
      BY <2>1, <3>1, <3>2, <3>3, <3>4, UnitCacheAssumption DEF Start, TypeOK
    <3>6. StagedRight'
      BY <3>2 DEF StagedRight, Unit, Written, Result
    <3>7. EntriesRight' /\ BuildCorrect'
      BY <2>1, <3>2 DEF Start, EntriesRight, BuildCorrect
    <3> QED BY <3>5, <3>6, <3>7
  <2>2. ASSUME NEW c \in Compilers, pc[c] \notin {"idle", "done"}, Has(c, Result(c)),
               UNCHANGED <<source, ambient, dir, snap, builds, edits>>, faults' \in 0..MaxFaults,
               staged' = staged \/ staged' = [staged EXCEPT ![c] = Empty]
        PROVE  CacheCorrect'
    BY <2>2, Advances DEF TypeOK, EntriesRight
  <2>3. ASSUME NEW c \in Compilers, NEW next \in {"idle", "store", "write", "rename"},
               pc[c] # "done", pc' = [pc EXCEPT ![c] = next], next # "idle" => Safe(snap[c], Unit(c)),
               UNCHANGED <<source, ambient, dir, snap, built, builds, edits>>, faults' \in 0..MaxFaults,
               DOMAIN staged' = Compilers, \A d \in Compilers \ {c} : staged'[d] = staged[d],
               Directory(staged'[c]),
               next \in {"write", "rename"} => \A f \in DOMAIN staged'[c] : staged'[c][f] = Written(c),
               next = "write"  => "manifest" \notin DOMAIN staged'[c],
               next = "rename" => DOMAIN staged'[c] = FileNames
        PROVE  CacheCorrect'
    <3>1. /\ pc' \in [Compilers -> {"idle", "lookup", "store", "write", "rename", "done"}]
          /\ pc'[c] = next /\ \A d \in Compilers \ {c} : pc'[d] = pc[d]
      BY <2>3 DEF TypeOK
    <3>2. \A d \in Compilers : Directory(staged'[d])
      BY <2>3 DEF TypeOK
    <3>3. ASSUME NEW d \in Compilers
          PROVE  IF pc'[d] = "done" THEN Len(built'[d]) = Len(Units) ELSE Len(built'[d]) < Len(Units)
      BY <2>3, <3>1 DEF TypeOK
    <3>4. TypeOK'
      BY <2>3, <3>1, <3>2, <3>3 DEF TypeOK
    <3>5. StagedRight'
      <4>1. ASSUME NEW d \in Compilers, pc'[d] \in {"store", "write", "rename"}
            PROVE  /\ Safe(snap'[d], Unit(d)')
                   /\ pc'[d] # "store"  => \A f \in DOMAIN staged'[d] : staged'[d][f] = Written(d)'
                   /\ pc'[d] = "write"  => "manifest" \notin DOMAIN staged'[d]
                   /\ pc'[d] = "rename" => DOMAIN staged'[d] = FileNames
        <5>1. Unit(d)' = Unit(d) /\ Written(d)' = Written(d) /\ snap'[d] = snap[d]
          BY <2>3 DEF Unit, Written, Result
        <5>2. CASE d = c
          BY <2>3, <3>1, <4>1, <5>1, <5>2
        <5>3. CASE d # c
          BY <2>3, <3>1, <4>1, <5>1, <5>3 DEF StagedRight
        <5> QED BY <5>2, <5>3
      <4> QED BY <4>1 DEF StagedRight
    <3>6. EntriesRight' /\ BuildCorrect'
      BY <2>3 DEF EntriesRight, BuildCorrect
    <3> QED BY <3>4, <3>5, <3>6
  <2>4. ASSUME NEW c \in Compilers, Lookup(c) PROVE CacheCorrect'
    <3>1. CASE Safe(snap[c], Unit(c)) /\ Loadable(dir[Key(c)]) /\ Has(c, Taken(dir[Key(c)]))
      <4>1. Taken(dir[Key(c)]) = Result(c)
        BY <2>4, <3>1, LoadedIsResult DEF Lookup
      <4> QED BY <2>2, <2>4, <3>1, <4>1 DEF Lookup, TypeOK
    <3>2. CASE Safe(snap[c], Unit(c)) /\ pc' = [pc EXCEPT ![c] = "store"] /\ UNCHANGED built
      BY <2>3, <2>4, <3>2 DEF Lookup, TypeOK
    <3>3. CASE Has(c, Result(c))
      BY <2>2, <2>4, <3>3 DEF Lookup, TypeOK
    <3> QED BY <2>4, <3>1, <3>2, <3>3 DEF Lookup
  <2>5. ASSUME NEW c \in Compilers, Store(c) PROVE CacheCorrect'
    <3>1. CASE Has(c, Result(c))
      BY <2>2, <2>5, <3>1 DEF Store, TypeOK
    <3>2. CASE pc' = [pc EXCEPT ![c] = "write"] /\ UNCHANGED built
      <4>1. Safe(snap[c], Unit(c))
        BY <2>5 DEF Store, StagedRight
      <4>2. /\ DOMAIN staged' = Compilers /\ \A d \in Compilers \ {c} : staged'[d] = staged[d]
            /\ staged'[c] = Empty /\ DOMAIN staged'[c] = {} /\ Directory(staged'[c])
        BY <2>5 DEF Store, TypeOK, Empty, Directory
      <4> QED BY <2>3, <2>5, <3>2, <4>1, <4>2 DEF Store, TypeOK
    <3> QED BY <2>5, <3>1, <3>2 DEF Store
  <2>6. ASSUME NEW c \in Compilers, Write(c) PROVE CacheCorrect'
    <3> DEFINE f == NextFile(staged[c])
               next == IF f = "manifest" THEN "rename" ELSE "write"
    <3>1. Safe(snap[c], Unit(c)) /\ Directory(staged[c]) /\ Written(c) \in Contents
      BY <2>6, AtUnit DEF Write, StagedRight, TypeOK
    <3>2. /\ f \in FileNames /\ "manifest" \notin DOMAIN staged[c]
          /\ f # "manifest" => "manifest" \notin DOMAIN staged[c] \cup {f}
          /\ f = "manifest" => DOMAIN staged[c] \cup {f} = FileNames
      BY <2>6, <3>1 DEF Write, StagedRight, NextFile, FileNames, Directory
    <3>3. /\ Directory(With(staged[c], f, Written(c)))
          /\ DOMAIN With(staged[c], f, Written(c)) = DOMAIN staged[c] \cup {f}
          /\ \A g \in DOMAIN staged[c] \cup {f} :
                With(staged[c], f, Written(c))[g] = IF g = f THEN Written(c) ELSE staged[c][g]
      <4> HIDE DEF f
      <4> QED BY <3>1, <3>2 DEF With, Directory
    <3>4. /\ DOMAIN staged' = Compilers /\ \A d \in Compilers \ {c} : staged'[d] = staged[d]
          /\ staged'[c] = With(staged[c], f, Written(c))
          /\ pc' = [pc EXCEPT ![c] = next]
      BY <2>6 DEF Write, TypeOK
    <3>5. \A g \in DOMAIN staged'[c] : staged'[c][g] = Written(c)
      <4> HIDE DEF f
      <4> QED BY <2>6, <3>3, <3>4 DEF StagedRight, Write
    <3>6. /\ next \in {"write", "rename"} /\ Directory(staged'[c])
          /\ next = "write" => "manifest" \notin DOMAIN staged'[c]
          /\ next = "rename" => DOMAIN staged'[c] = FileNames
      <4> HIDE DEF f
      <4> QED BY <3>2, <3>3, <3>4
    <3>7. UNCHANGED <<source, ambient, dir, snap, built, builds, edits, faults>> /\ pc[c] # "done"
      BY <2>6 DEF Write
    <3> HIDE DEF f, next
    <3> QED BY <2>3, <3>1, <3>4, <3>5, <3>6, <3>7 DEF TypeOK
  <2>7. ASSUME NEW c \in Compilers, Rename(c) PROVE CacheCorrect'
    <3>1. pc[c] \notin {"idle", "done"} /\ Has(c, Result(c)) /\ UNCHANGED snap
          /\ staged' = [staged EXCEPT ![c] = Empty]
      BY <2>7 DEF Rename
    <3> QED BY <2>7, <3>1, Advances, RenameKeepsEntries DEF Rename, TypeOK
  <2>8. ASSUME NEW c \in Compilers, WriteFails(c) PROVE CacheCorrect'
    <3>1. faults' \in 0..MaxFaults
      BY <2>8, UnitCacheAssumption DEF WriteFails, Fault, TypeOK
    <3> QED BY <2>2, <2>8, <3>1 DEF WriteFails
  <2>9. ASSUME NEW c \in Compilers, Killed(c) PROVE CacheCorrect'
    <3>1. faults' \in 0..MaxFaults
      BY <2>9, UnitCacheAssumption DEF Killed, Fault, TypeOK
    <3>2. "idle" \in {"idle", "store", "write", "rename"}
      OBVIOUS
    <3> QED BY <2>3, <2>9, <3>1, <3>2 DEF Killed, TypeOK
  <2>10. ASSUME NEW k \in Keys, NEW f \in FileNames, Damaged(k, f) PROVE CacheCorrect'
    <3>1. faults' \in 0..MaxFaults
      BY <2>10, UnitCacheAssumption DEF Damaged, Fault, TypeOK
    <3>2. StagedRight' /\ BuildCorrect'
      BY <2>10 DEF Damaged, StagedRight, BuildCorrect, Unit, Written, Result
    <3>3. TypeOK'
      BY <2>10, <3>1, DamageKeepsEntries DEF Damaged, TypeOK
    <3> QED BY <2>10, <3>2, <3>3, DamageKeepsEntries
  <2>11. CASE Edit
    <3>1. source' \in Sources /\ ambient' \in {1, 2} /\ edits' \in 0..MaxEdits
      BY <2>11, UnitCacheAssumption DEF Edit, TypeOK
    <3>2. TypeOK'
      BY <2>11, <3>1 DEF Edit, TypeOK
    <3> QED
      BY <2>11, <3>2 DEF Edit, StagedRight, EntriesRight, BuildCorrect, Unit, Written, Result
  <2>12. CASE UNCHANGED vars
    BY <2>12 DEF vars, TypeOK, StagedRight, EntriesRight, BuildCorrect, Unit, Written, Result
  <2> QED
    BY <2>1, <2>4, <2>5, <2>6, <2>7, <2>8, <2>9, <2>10, <2>11, <2>12 DEF Next
<1> QED BY <1>1, <1>2, PTL DEF Spec

\* How an entry's standing may change: it is stored once, in one step and
\* whole, and damage is not undone.
LEMMA RenameStands ==
    ASSUME CacheCorrect, NEW c \in Compilers, Rename(c), NEW k \in Keys
    PROVE  \/ Standing(k)' = Standing(k)
           \/ Standing(k) = "absent" /\ Standing(k)' = "stored" /\ k = Key(c)
<1>1. /\ DOMAIN dir = Keys
      /\ \A j \in Keys \ {Key(c)} : dir'[j] = dir[j]
      /\ k = Key(c) => dir'[k] = IF DOMAIN dir[k] = {} THEN staged[c] ELSE dir[k]
  BY DEF Rename, CacheCorrect, TypeOK
<1>2. CASE k # Key(c) \/ DOMAIN dir[k] # {}
  <2>1. dir'[k] = dir[k]
    BY <1>1, <1>2
  <2> QED BY <2>1 DEF Standing, Loadable
<1>3. CASE k = Key(c) /\ DOMAIN dir[k] = {}
  <2>1. dir'[k] = staged[c]
    BY <1>1, <1>3
  <2>2. DOMAIN staged[c] = FileNames /\ \A f \in FileNames : staged[c][f] = Written(c)
    BY DEF CacheCorrect, StagedRight, Rename
  <2>3. Loadable(staged[c])
    BY <2>2 DEF Loadable, Written, FileNames
  <2>4. Standing(k)' = "stored"
    <3>1. DOMAIN dir'[k] # {} /\ Loadable(dir'[k])
      BY <2>1, <2>2, <2>3 DEF FileNames
    <3> QED BY <3>1 DEF Standing, Loadable
  <2> QED BY <1>3, <2>4 DEF Standing
<1> QED BY <1>2, <1>3

LEMMA DamageStands ==
    ASSUME CacheCorrect, NEW k \in Keys, NEW f \in FileNames, Damaged(k, f), NEW j \in Keys
    PROVE  \/ Standing(j)' = Standing(j)
           \/ j = k /\ Standing(j) = "stored" /\ Standing(j)' = "damaged"
           \/ j = k /\ Standing(j) = "damaged" /\ Standing(j)' = "absent"
<1> DEFINE bad == [whole |-> FALSE, of |-> dir[k][f].of]
           rest == [g \in DOMAIN dir[k] \ {f} |-> dir[k][g]]
<1>1. /\ DOMAIN dir = Keys /\ f \in DOMAIN dir[k] /\ DOMAIN dir[k] \subseteq FileNames
      /\ bad.whole = FALSE
      /\ dir' = [dir EXCEPT ![k] = With(@, f, bad)] \/ dir' = [dir EXCEPT ![k] = rest]
  BY DEF Damaged, CacheCorrect, TypeOK, Directory
<1>2. CASE j # k
  <2>1. dir'[j] = dir[j]
    <3> HIDE DEF bad, rest
    <3> QED BY <1>1, <1>2
  <2> QED BY <2>1 DEF Standing, Loadable
<1>3. CASE j = k /\ dir' = [dir EXCEPT ![k] = With(@, f, bad)]
  <2>1. /\ dir'[k] = With(dir[k], f, bad)
        /\ DOMAIN dir'[k] = DOMAIN dir[k] /\ dir'[k][f] = bad
    <3> HIDE DEF bad
    <3> QED BY <1>1, <1>3 DEF With
  <2>2. ~Loadable(dir'[k])
    <3> HIDE DEF bad
    <3> QED BY <1>1, <2>1 DEF Loadable
  <2>3. Standing(k)' = "damaged" /\ Standing(k) \in {"stored", "damaged"}
    <3> HIDE DEF bad
    <3> QED BY <1>1, <2>1, <2>2 DEF Standing, Loadable
  <2> QED BY <1>3, <2>3
<1>4. CASE j = k /\ dir' = [dir EXCEPT ![k] = rest]
  <2>1. dir'[k] = rest /\ DOMAIN dir'[k] = DOMAIN dir[k] \ {f}
    BY <1>1, <1>4
  <2>2. ~Loadable(dir'[k]) /\ (Loadable(dir[k]) => DOMAIN dir'[k] # {})
    <3> HIDE DEF rest
    <3> QED BY <1>1, <2>1 DEF Loadable, FileNames
  <2>3. Standing(k) \in {"stored", "damaged"} /\ Standing(k)' \in {"damaged", "absent"}
    <3> HIDE DEF rest
    <3> QED BY <1>1, <2>1, <2>2 DEF Standing, Loadable
  <2>4. Standing(k) = "stored" => Standing(k)' = "damaged"
    <3> HIDE DEF rest
    <3> QED BY <1>1, <2>1, <2>2 DEF Standing, Loadable
  <2> QED BY <1>4, <2>3, <2>4
<1> QED BY <1>1, <1>2, <1>3, <1>4

\* The cache implements the write-once store of UnitStore.
THEOREM ImplementsStore == Spec => WriteOnce
<1> DEFINE entry == [k \in Keys |-> Standing(k)]
<1>1. Init => Store0!Init
  <2> SUFFICES ASSUME Init, NEW k \in Keys PROVE Standing(k) = "absent"
    BY DEF Store0!Init
  <2>1. dir[k] = Empty /\ DOMAIN Empty = {}
    BY DEF Init, Empty
  <2> QED BY <2>1 DEF Standing
<1>2. CacheCorrect /\ [Next]_vars => [Store0!Next]_entry
  <2> SUFFICES ASSUME CacheCorrect, [Next]_vars PROVE entry' = entry \/ Store0!Next
    OBVIOUS
  <2>1. CASE UNCHANGED dir
    BY <2>1 DEF Standing, Loadable
  <2>2. ASSUME NEW c \in Compilers, Rename(c) PROVE entry' = entry \/ Store0!Next
    <3>1. CASE \A k \in Keys : Standing(k)' = Standing(k)
      BY <3>1
    <3>2. CASE \E k \in Keys : Standing(k)' # Standing(k)
      <4>1. /\ Key(c) \in Keys /\ Standing(Key(c)) = "absent"
            /\ \A k \in Keys : Standing(k)' = IF k = Key(c) THEN "stored" ELSE Standing(k)
        BY <2>2, <3>2, RenameStands
      <4>2. entry[Key(c)] = "absent" /\ entry' = [entry EXCEPT ![Key(c)] = "stored"]
        BY <4>1
      <4>3. Store0!Publish(Key(c))
        BY <4>2 DEF Store0!Publish
      <4> QED BY <4>1, <4>3 DEF Store0!Next
    <3> QED BY <3>1, <3>2
  <2>3. ASSUME NEW k \in Keys, NEW f \in FileNames, Damaged(k, f)
        PROVE  entry' = entry \/ Store0!Next
    <3>1. \A j \in Keys \ {k} : Standing(j)' = Standing(j)
      BY <2>3, DamageStands
    <3>2. CASE Standing(k)' = Standing(k)
      BY <3>1, <3>2
    <3>3. CASE Standing(k) = "stored" /\ Standing(k)' = "damaged"
      <4>1. entry[k] = "stored" /\ entry' = [entry EXCEPT ![k] = "damaged"]
        BY <3>1, <3>3
      <4> QED BY <4>1 DEF Store0!Damage, Store0!Next
    <3>4. CASE Standing(k) = "damaged" /\ Standing(k)' = "absent"
      <4>1. entry[k] = "damaged" /\ entry' = [entry EXCEPT ![k] = "absent"]
        BY <3>1, <3>4
      <4> QED BY <4>1 DEF Store0!Vanish, Store0!Next
    <3> QED BY <2>3, <3>2, <3>3, <3>4, DamageStands
  <2> QED
    BY <2>1, <2>2, <2>3 DEF Next, vars, Start, Lookup, Store, Write, WriteFails, Killed, Edit
<1> QED BY <1>1, <1>2, CacheIsRight, PTL DEF Spec, WriteOnce, Store0!Spec
=============================================================================
