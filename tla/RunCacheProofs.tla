--------------------------- MODULE RunCacheProofs ---------------------------
(***************************************************************************)
(* Theorems about RunCache, for any processes, runs, edits and faults: the *)
(* caches stay consistent, and what a run starts is whole and, as long as  *)
(* no file is removed under a run, fresh.                                  *)
(*                                                                         *)
(* A process meets the others only in kept, entry and stamps, and those    *)
(* are written by whoever stores there.  So a step of one is judged by     *)
(* what it does to that process and to the three (StepKeeps); the rest     *)
(* follows from Alone.                                                     *)
(***************************************************************************)
EXTENDS RunCache, TLAPS

Locals == [since : 0 .. now, read : Reads, out : [Modules -> Beams],
           todo : SUBSET Modules, stamps : Lists,
           from : {None, "entry", "content", "build"}]

\* What holds of each process, and of what it is about to start.
Own(p) ==
  /\ p \in Live => ReadsSeen(p)
  /\ KnowsProgram(p) /\ StoresEntry(p) /\ LoadsEntry(p)

Answers(p) ==
  p \in Answered =>
     /\ WholeProgram(proc[p].out)
     /\ RemoveAnytime \/ UsesFresh(p)

Shared == TypeOK /\ CurrentLoads /\ KeptRight /\ (clashed \/ (Alone /\ EntryRight))

Inv == Shared /\ \A p \in Processes : Own(p) /\ Answers(p)

\* A step of p to label, and of nobody else.
Moves(p, label) ==
  /\ disk' = disk /\ ambient' = ambient /\ now' = now
  /\ label \in Labels /\ pc' = [pc EXCEPT ![p] = label]
  /\ clashed' \in BOOLEAN /\ (clashed => clashed')
  /\ clashed' \/ ~Meets(p, label)
  /\ \A q \in Processes : q # p => proc'[q] = proc[q] /\ seen'[q] = seen[q]

-----------------------------------------------------------------------------
(* What is compiled.                                                       *)

\* What the parts of a compiled module are.
LEMMA CompileParts ==
  ASSUME NEW read
  PROVE  /\ Compile("main", read) = [entry |-> read.entry, lib |-> read.lib,
                                     asset |-> read.asset, ambient |-> read.ambient]
         /\ Compile("lib", read) = [entry |-> None, lib |-> read.lib,
                                    asset |-> None, ambient |-> None]
BY DEF Compile, NoBeam

\* A module compiled from what can be read is a compiled module.
LEMMA CompileTyped ==
  ASSUME NEW read \in Reads
  PROVE  /\ Compiled(read) \in [Modules -> Beams]
         /\ \A m \in Modules : Compiled(read)[m] = Compile(m, read)
<1>1. read.entry \in Values /\ read.lib \in Values /\ read.asset \in Values
        /\ read.ambient \in Values
  BY DEF Reads, Values, Contents, None
<1>2. None \in Values
  BY DEF Values
<1>3. Compile("main", read) \in Beams /\ Compile("lib", read) \in Beams
  <2>1. /\ [entry |-> read.entry, lib |-> read.lib,
            asset |-> read.asset, ambient |-> read.ambient] \in Beams
        /\ [entry |-> None, lib |-> read.lib, asset |-> None, ambient |-> None] \in Beams
    BY <1>1, <1>2 DEF Beams
  <2> QED BY <2>1, CompileParts
<1> QED BY <1>3 DEF Compiled, Modules

\* What a program is compiled to is a whole program.
LEMMA CompiledWhole ==
  ASSUME NEW read \in Reads, ProgramRead(read)
  PROVE  WholeProgram(Compiled(read))
<1>1. read.entry # None /\ read.lib # None
  BY DEF ProgramRead, EntryRead
<1>2. Compile("main", read) # NoBeam /\ Compile("lib", read) # NoBeam
  BY <1>1, CompileParts DEF NoBeam
<1>3. Compile("main", read).lib = read.lib /\ Compile("lib", read).lib = read.lib
  <2> DEFINE main == [entry |-> read.entry, lib |-> read.lib,
                      asset |-> read.asset, ambient |-> read.ambient]
             lib == [entry |-> None, lib |-> read.lib, asset |-> None, ambient |-> None]
  <2>1. main.lib = read.lib /\ lib.lib = read.lib
    OBVIOUS
  <2> QED BY <2>1, CompileParts
<1> QED BY <1>2, <1>3, CompileTyped DEF WholeProgram, Modules

\* What is compiled from parts that p has seen is fresh for p.
LEMMA CompiledFresh ==
  ASSUME NEW p \in Processes, NEW read \in Reads,
         \A part \in Parts : read[part] \in seen[p][part] \cup {None}
  PROVE  FreshFor(p, Compiled(read))
<1>1. \A part \in Parts :
        /\ Compile("main", read)[part] \in {read[part], None}
        /\ Compile("lib", read)[part] \in {read[part], None}
  <2> DEFINE main == [entry |-> read.entry, lib |-> read.lib,
                      asset |-> read.asset, ambient |-> read.ambient]
             lib == [entry |-> None, lib |-> read.lib, asset |-> None, ambient |-> None]
  <2>1. /\ main.entry = read.entry /\ main.lib = read.lib
        /\ main.asset = read.asset /\ main.ambient = read.ambient
        /\ lib.entry = None /\ lib.lib = read.lib /\ lib.asset = None /\ lib.ambient = None
    OBVIOUS
  <2>2. \A part \in Parts : main[part] = read[part] /\ lib[part] \in {read[part], None}
    <3> HIDE DEF main, lib
    <3> QED BY <2>1 DEF Parts
  <2> QED BY <2>2, CompileParts
<1> QED BY <1>1, CompileTyped DEF FreshFor, Modules

\* The content names all that a plain program is compiled from.
LEMMA KeyNamesAll ==
  ASSUME NEW read \in Reads, ProgramRead(read), RunCacheApplies(read), NEW m \in Modules
  PROVE  /\ RunCacheKey(read) \in Keys
         /\ Compile(m, [NothingRead EXCEPT !.entry = RunCacheKey(read)[1],
                                           !.lib = RunCacheKey(read)[3]]) = Compile(m, read)
<1>1. read.asset = None /\ read.ambient = None
  BY DEF ProgramRead, EntryRead, RunCacheApplies
<1>2. /\ RunCacheKey(read) = <<read.entry, read.path, read.lib>>
      /\ RunCacheKey(read) \in Keys
  BY DEF RunCacheKey, Keys, Reads, ProgramRead, EntryRead, None
<1>3. PICK key : key = [NothingRead EXCEPT !.entry = read.entry, !.lib = read.lib]
  OBVIOUS
<1>4. NothingRead \in Reads /\ NothingRead.asset = None /\ NothingRead.ambient = None
  BY DEF NothingRead, Reads
<1>5. key.entry = read.entry /\ key.lib = read.lib /\ key.asset = None /\ key.ambient = None
  BY <1>3, <1>4 DEF Reads
<1>6. Compile(m, key) = Compile(m, read)
  <2>1. /\ Compile("main", key) = Compile("main", read)
        /\ Compile("lib", key) = Compile("lib", read)
    BY <1>1, <1>5 DEF Compile
  <2> QED BY <2>1 DEF Modules
<1> QED BY <1>2, <1>3, <1>6

-----------------------------------------------------------------------------
(* What a step of one process leaves of the others.                        *)

\* Another process keeps what it knows, has read and is about to start, unless
\* the two meet in the entry's directory.
LEMMA OthersKeep ==
  ASSUME Inv, NEW p \in Processes, NEW label, Moves(p, label),
         pc[p] \notin StoringEntry => entry' = entry /\ stamps' = stamps,
         NEW q \in Processes, q # p
  PROVE  Own(q)' /\ Answers(q)'
<1> USE DEF Inv, Shared
<1>1. /\ pc'[q] = pc[q] /\ proc'[q] = proc[q] /\ seen'[q] = seen[q]
      /\ disk' = disk /\ ambient' = ambient /\ now' = now
  BY DEF Moves, TypeOK
<1>2. Own(q) /\ Answers(q)
  OBVIOUS
<1>3. clashed' \/ (pc[q] \in AtEntryDir => entry' = entry /\ stamps' = stamps)
  <2>1. clashed' \/ (~clashed /\ Alone)
    BY DEF Moves
  <2>2. Alone /\ pc[q] \in AtEntryDir => pc[p] \notin StoringEntry
    BY DEF Alone
  <2> QED BY <2>1, <2>2
<1>4. (q \in Live => ReadsSeen(q))'
  <2>1. Now' = Now
    BY <1>1 DEF Now, Resolved
  <2>2. q \in Live' => q \in Live
    BY <1>1 DEF Live
  <2>3. ReadsSeen(q) => ReadsSeen(q)'
    BY <1>1, <2>1 DEF ReadsSeen
  <2> QED BY <1>2, <2>2, <2>3 DEF Own
<1>5. KnowsProgram(q)'
  BY <1>1, <1>2 DEF Own, KnowsProgram
<1>6. StoresEntry(q)'
  <2>1. Listed(proc[q].stamps, proc[q].read) => Listed(proc[q].stamps, proc[q].read)'
    BY <1>1 DEF Listed, Vouches, FileStamp
  <2>2. pc[q] \in StoringEntry => pc[q] \in AtEntryDir
    BY DEF StoringEntry, AtEntryDir
  <2>3. StoresEntry(q)
    BY <1>2 DEF Own
  <2>4. CASE pc[q] \in StoringEntry \ {"unlist"} /\ ~clashed'
    <3>1. entry' = entry /\ stamps' = stamps /\ ~clashed
      BY <1>3, <2>2, <2>4 DEF Moves
    <3> QED BY <1>1, <2>1, <2>3, <2>4, <3>1 DEF StoresEntry
  <2>5. CASE ~(pc[q] \in StoringEntry \ {"unlist"} /\ ~clashed')
    BY <1>1, <2>1, <2>3, <2>5 DEF StoresEntry
  <2> QED BY <2>4, <2>5
<1>7. LoadsEntry(q)'
  <2> SUFFICES ASSUME pc'[q] \in {"loadEntry", "copyEntry"}, ~clashed'
               PROVE  LoadsEntry(q)'
    BY DEF LoadsEntry
  <2>1. entry' = entry /\ ~clashed
    BY <1>1, <1>3 DEF Moves, AtEntryDir
  <2>2. LoadsEntry(q)
    BY <1>2 DEF Own
  <2>3. FreshFor(q, entry.modules) => FreshFor(q, entry.modules)'
    BY <1>1, <2>1 DEF FreshFor
  <2> QED BY <1>1, <2>1, <2>2, <2>3 DEF LoadsEntry, WholeProgram
<1>8. Answers(q)'
  <2>1. q \in Answered' => q \in Answered
    BY <1>1 DEF Answered, Moves
  <2>2. UsesFresh(q) => UsesFresh(q)'
    BY <1>1 DEF UsesFresh, FreshFor
  <2>3. WholeProgram(proc[q].out) => WholeProgram(proc[q].out)'
    BY <1>1 DEF WholeProgram
  <2> QED BY <1>2, <2>1, <2>2, <2>3 DEF Answers
<1> QED BY <1>4, <1>5, <1>6, <1>7, <1>8 DEF Own

\* A step keeps the promises if it keeps them for whoever takes it, and for what
\* all share.
LEMMA StepKeeps ==
  ASSUME Inv, NEW p \in Processes, NEW label, Moves(p, label),
         pc[p] \notin StoringEntry => entry' = entry /\ stamps' = stamps,
         TypeOK', CurrentLoads', KeptRight', clashed' \/ EntryRight',
         Own(p)', Answers(p)'
  PROVE  Inv'
<1>1. \A q \in Processes : Own(q)' /\ Answers(q)'
  BY OthersKeep
<1>2. clashed' \/ Alone'
  <2> SUFFICES ASSUME ~clashed', NEW a \in Processes, NEW b \in Processes, a # b,
                      pc'[a] \in StoringEntry, pc'[b] \in AtEntryDir
               PROVE  FALSE
    BY DEF Alone
  <2>1. Alone /\ ~Meets(p, label)
    BY DEF Inv, Shared, Moves
  <2>2. \A q \in Processes : pc'[q] = IF q = p THEN label ELSE pc[q]
    BY DEF Moves, Inv, Shared, TypeOK
  <2>3. CASE a = p
    BY <2>1, <2>2, <2>3 DEF Meets
  <2>4. CASE b = p
    BY <2>1, <2>2, <2>4 DEF Meets
  <2>5. CASE a # p /\ b # p
    BY <2>1, <2>2, <2>5 DEF Alone
  <2> QED BY <2>3, <2>4, <2>5
<1> QED BY <1>1, <1>2 DEF Inv, Shared

\* Going to a label, and changing only one's own locals, is a step.
LEMMA GoesMoves ==
  ASSUME TypeOK, NEW p \in Processes, NEW label \in Labels, Goto(p, label),
         UNCHANGED World,
         \A q \in Processes : q # p => proc'[q] = proc[q] /\ seen'[q] = seen[q]
  PROVE  Moves(p, label) /\ pc'[p] = label
<1>1. disk' = disk /\ ambient' = ambient /\ now' = now
  BY DEF World
<1>2. pc' = [pc EXCEPT ![p] = label] /\ pc'[p] = label
  BY DEF Goto, TypeOK
<1>3. clashed' = (clashed \/ Meets(p, label))
  BY DEF Goto
<1>4. clashed' \in BOOLEAN
  BY <1>3 DEF TypeOK
<1>5. clashed => clashed'
  BY <1>3
<1>6. clashed' \/ ~Meets(p, label)
  BY <1>3
<1> QED BY <1>1, <1>2, <1>4, <1>5, <1>6 DEF Moves

\* The types that a step has to keep.
LEMMA StepTyped ==
  ASSUME TypeOK, NEW p \in Processes, NEW label, Moves(p, label),
         runs' \in 0 .. MaxRuns, faults' \in 0 .. MaxFaults,
         proc' \in [Processes -> Locals], kept' \in [Keys -> Directories],
         entry' \in Directories,
         stamps' \in Lists, stamps' # NoStamps => "entry" \in DOMAIN stamps',
         seen' \in [Processes -> [Parts -> SUBSET Values]],
         label \in {"idle", "gone"} <=> seen'[p] = NothingSeen
  PROVE  TypeOK'
<1>1. /\ pc' \in [Processes -> Labels] /\ pc'[p] = label
      /\ \A q \in Processes : q # p => pc'[q] = pc[q]
  BY DEF TypeOK, Moves
<1>2. ASSUME NEW q \in Processes PROVE (q \in Live <=> seen[q] # NothingSeen)'
  <2>1. CASE q = p
    BY <1>1, <2>1 DEF Live
  <2>2. CASE q # p
    <3>1. pc'[q] = pc[q] /\ seen'[q] = seen[q]
      BY <1>1, <2>2 DEF Moves
    <3> QED BY <3>1 DEF TypeOK, Live
  <2> QED BY <2>1, <2>2
<1>3. /\ now' \in 0 .. MaxEdits /\ disk' \in [Sources -> [holds : Values, modified : 0 .. now']]
      /\ \A f \in Sources : disk'[f].holds \in Contents(f) \cup {None}
      /\ ambient' \in {"a", "b"} /\ clashed' \in BOOLEAN
  BY DEF TypeOK, Moves
<1>4. proc' \in [Processes -> [since : 0 .. now', read : Reads, out : [Modules -> Beams],
                               todo : SUBSET Modules, stamps : Lists,
                               from : {None, "entry", "content", "build"}]]
  BY DEF Moves, Locals
<1> QED BY <1>1, <1>2, <1>3, <1>4 DEF TypeOK

\* A step that leaves the caches alone.
LEMMA QuietStep ==
  ASSUME Inv, NEW p \in Processes, NEW label, Moves(p, label),
         UNCHANGED <<kept, entry, stamps>>,
         runs' \in 0 .. MaxRuns, faults' \in 0 .. MaxFaults,
         proc' \in [Processes -> Locals],
         seen' \in [Processes -> [Parts -> SUBSET Values]],
         label \in {"idle", "gone"} <=> seen'[p] = NothingSeen,
         label = "gone" => clashed',
         Own(p)', Answers(p)'
  PROVE  Inv'
<1> USE DEF Inv, Shared
<1>1. kept' = kept /\ entry' = entry /\ stamps' = stamps
  OBVIOUS
<1>2. TypeOK'
  <2>1. /\ kept \in [Keys -> Directories] /\ entry \in Directories
        /\ stamps \in Lists /\ (stamps # NoStamps => "entry" \in DOMAIN stamps)
    BY DEF TypeOK
  <2>2. /\ kept' \in [Keys -> Directories] /\ entry' \in Directories
        /\ stamps' \in Lists /\ (stamps' # NoStamps => "entry" \in DOMAIN stamps')
    BY <1>1, <2>1
  <2> QED BY <2>2, StepTyped
<1>3. CurrentLoads'
  <2> SUFFICES ASSUME NEW q \in Processes, pc'[q] = "gone" PROVE clashed'
    BY DEF CurrentLoads
  <2>1. pc'[q] = IF q = p THEN label ELSE pc[q]
    BY DEF Moves, TypeOK
  <2> QED BY <2>1 DEF CurrentLoads, Moves
<1>4. KeptRight'
  BY <1>1 DEF KeptRight
<1>5. clashed' \/ EntryRight'
  <2>1. EntryRight => EntryRight'
    BY <1>1 DEF EntryRight, Listed, Vouches, FileStamp, Moves
  <2> QED BY <2>1 DEF Moves
<1> QED BY <1>1, <1>2, <1>3, <1>4, <1>5, StepKeeps

\* A run that has not begun knows nothing, and has seen nothing.
LEMMA FreshTyped ==
  ASSUME TypeOK
  PROVE  Fresh \in Locals /\ NothingSeen \in [Parts -> SUBSET Values]
<1>1. NoStamps \in Lists
  BY DEF NoStamps, Lists
<1>2. NoBeam \in Beams
  BY DEF NoBeam, Beams, Values
<1>3. NothingRead \in Reads
  BY DEF NothingRead, Reads, None
<1>4. 0 \in 0 .. now
  BY DEF TypeOK
<1>5. Fresh \in Locals
  BY <1>1, <1>2, <1>3, <1>4 DEF Fresh, Locals
<1> QED BY <1>5 DEF NothingSeen

\* Whoever ends keeps nothing and promises nothing.
LEMMA EndKeeps ==
  ASSUME Inv, NEW p \in Processes, NEW label \in {"idle", "gone"}, End(p, label),
         UNCHANGED World, UNCHANGED <<kept, entry, stamps>>,
         runs' \in 0 .. MaxRuns, faults' \in 0 .. MaxFaults,
         label = "gone" => clashed'
  PROVE  Inv'
<1>1. TypeOK
  BY DEF Inv, Shared
<1>2. /\ proc' = [proc EXCEPT ![p] = Fresh] /\ seen' = [seen EXCEPT ![p] = NothingSeen]
      /\ Goto(p, label)
  BY DEF End
<1>3. /\ proc' \in [Processes -> Locals] /\ seen' \in [Processes -> [Parts -> SUBSET Values]]
      /\ seen'[p] = NothingSeen
      /\ \A q \in Processes : q # p => proc'[q] = proc[q] /\ seen'[q] = seen[q]
  <2>1. proc \in [Processes -> Locals] /\ seen \in [Processes -> [Parts -> SUBSET Values]]
    BY <1>1 DEF TypeOK, Locals
  <2> QED BY <1>1, <1>2, <2>1, FreshTyped
<1>4. Moves(p, label) /\ pc'[p] = label
  <2>1. label \in Labels
    BY DEF Labels
  <2> QED BY <1>1, <1>2, <1>3, <2>1, GoesMoves
<1>5. Own(p)' /\ Answers(p)'
  <2>1. /\ p \notin Live' /\ p \notin Answered'
    BY <1>4 DEF Live, Answered
  <2>2. KnowsProgram(p)'
    BY <1>4 DEF KnowsProgram, Building, StoringKept, StoringEntry
  <2>3. StoresEntry(p)' /\ LoadsEntry(p)'
    BY <1>4 DEF StoresEntry, LoadsEntry, StoringEntry
  <2> QED BY <2>1, <2>2, <2>3 DEF Own, Answers
<1> QED BY <1>3, <1>4, <1>5, QuietStep

-----------------------------------------------------------------------------
(* The people at the keyboard.                                             *)

\* How a file may change: not at all; to something newer than everything there
\* was; or it goes, while nobody runs unless that is allowed.
Changes(f) ==
  \/ disk'[f] = disk[f]
  \/ disk'[f].holds # None /\ disk'[f].modified = now + 1
  \/ disk'[f].holds = None /\ (RemoveAnytime \/ Live = {})

\* Whatever is done to the files, the caches and the runs are as good as they
\* were: no stamp in a list is that of a newer file.
LEMMA WorldKeeps ==
  ASSUME Inv, Tick, Noted, \A f \in Sources : Changes(f),
         UNCHANGED <<runs, faults, pc, proc, kept, entry, stamps, clashed>>,
         disk' \in [Sources -> [holds : Values, modified : 0 .. now']],
         \A f \in Sources : disk'[f].holds \in Contents(f) \cup {None},
         ambient' \in {"a", "b"}
  PROVE  Inv'
<1> USE DEF Inv, Shared
<1>1. /\ pc' = pc /\ proc' = proc /\ kept' = kept /\ entry' = entry /\ stamps' = stamps
      /\ clashed' = clashed /\ runs' = runs /\ faults' = faults
  OBVIOUS
<1>2. now \in Nat /\ now' \in 0 .. MaxEdits /\ now' = now + 1
  BY RunCacheAssumption DEF Tick, TypeOK
<1>3. Live' = Live
  BY <1>1 DEF Live
<1>4. Now' \in [Parts -> Values] /\ Now'.entry \in Values
  <2>1. Resolved' \in Sources
    BY DEF Resolved, Sources
  <2>2. /\ disk'["entry"].holds \in Values /\ disk'["asset"].holds \in Values
        /\ disk'[Resolved'].holds \in Values /\ ambient' \in Values
    BY <2>1 DEF Sources, Values, Contents
  <2>3. \A part \in Parts : Now'[part] \in Values
    BY <2>2 DEF Now, Parts
  <2>4. Now' = [part \in Parts |-> Now'[part]]
    BY DEF Now, Parts
  <2> QED BY <2>3, <2>4 DEF Parts
<1>5. /\ seen' \in [Processes -> [Parts -> SUBSET Values]]
      /\ \A q \in Processes : q \in Live => seen'[q] # NothingSeen
      /\ \A q \in Processes : q \notin Live => seen'[q] = seen[q]
      /\ \A q \in Processes : q \in Live =>
            \A part \in Parts : seen'[q][part] = seen[q][part] \cup {Now'[part]}
  <2>1. seen' = [q \in Processes |->
                   IF q \in Live THEN [part \in Parts |-> seen[q][part] \cup {Now'[part]}]
                   ELSE seen[q]]
    BY DEF Noted
  <2>2. \A q \in Processes : [part \in Parts |-> seen[q][part] \cup {Now'[part]}]
           \in [Parts -> SUBSET Values]
    BY <1>4 DEF TypeOK
  <2>3. \A q \in Processes : q \in Live => "entry" \in Parts /\ seen'[q]["entry"] # {}
    BY <2>1 DEF Parts
  <2>4. NothingSeen["entry"] = {}
    BY DEF NothingSeen, Parts
  <2> QED BY <2>1, <2>2, <2>3, <2>4 DEF TypeOK
<1>6. \A q \in Processes : \A part \in Parts : seen[q][part] \subseteq seen'[q][part]
  BY <1>5
<1>7. TypeOK'
  <2>1. \A q \in Processes : (q \in Live <=> seen[q] # NothingSeen)'
    BY <1>3, <1>5 DEF TypeOK
  <2>2. 0 .. now \subseteq 0 .. now'
    BY <1>2
  <2>3. proc' \in [Processes -> [since : 0 .. now', read : Reads, out : [Modules -> Beams],
                                 todo : SUBSET Modules, stamps : Lists,
                                 from : {None, "entry", "content", "build"}]]
    BY <1>1, <2>2 DEF TypeOK
  <2> QED BY <1>1, <1>2, <1>5, <2>1, <2>3 DEF TypeOK
<1>8. CurrentLoads' /\ KeptRight'
  <2>1. CurrentLoads'
    BY <1>1 DEF CurrentLoads
  <2>2. KeptRight'
    BY <1>1 DEF KeptRight
  <2> QED BY <2>1, <2>2
<1>9. \A f \in Sources :
        \/ FileStamp(f)' = FileStamp(f) /\ disk'[f] = disk[f]
        \/ FileStamp(f)' = now + 1
        \/ FileStamp(f)' = -1 /\ disk'[f].holds = None
  BY DEF Changes, FileStamp
<1>10. ASSUME NEW list \in Lists, NEW read, Listed(list, read) PROVE Listed(list, read)'
  <2>1. DOMAIN list \subseteq Sources
    BY DEF Lists
  <2>2. RemoveAnytime \/ \A f \in DOMAIN list : list[f] <= now' /\ list[f] # now + 1
    <3>1. \A f \in DOMAIN list : list[f] \in Int
      BY RunCacheAssumption DEF Lists
    <3> QED BY <1>2, <1>10, <3>1 DEF Listed, Vouches
  <2> QED BY <1>9, <1>10, <2>1, <2>2 DEF Listed, Vouches
<1>11. clashed' \/ (Alone /\ EntryRight)'
  <2>1. Alone => Alone'
    BY <1>1 DEF Alone
  <2>2. EntryRight => EntryRight'
    <3> SUFFICES ASSUME stamps # NoStamps, EntryRight PROVE EntryRight'
      BY <1>1 DEF EntryRight
    <3>1. PICK read \in Reads :
            /\ ProgramRead(read) /\ ~ReachedOutside(read)
            /\ entry = [names |-> TRUE, modules |-> Compiled(read)]
            /\ Listed(stamps, read)
      BY DEF EntryRight
    <3>2. PICK list \in Lists : list = stamps
      BY DEF TypeOK
    <3>3. Listed(list, read)'
      BY <1>10, <3>1, <3>2
    <3>4. Listed(stamps, read)'
      BY <1>1, <3>2, <3>3 DEF Listed, Vouches
    <3> QED BY <1>1, <3>1, <3>4 DEF EntryRight
  <2> QED BY <1>1, <2>1, <2>2
<1>12. ASSUME NEW q \in Processes PROVE Own(q)' /\ Answers(q)'
  <2>1. Own(q) /\ Answers(q)
    OBVIOUS
  <2>2. ASSUME q \in Live' PROVE ReadsSeen(q)'
    <3>1. ReadsSeen(q) /\ q \in Live
      BY <1>3, <2>1, <2>2 DEF Own
    <3>2. \A part \in Parts :
            {Now'[part], proc'[q].read[part]} \subseteq seen'[q][part] \cup {None}
      BY <1>1, <1>5, <1>6, <3>1 DEF ReadsSeen
    <3>3. proc[q].since \in 0 .. now
      BY DEF TypeOK
    <3>4. ASSUME ~RemoveAnytime, NEW f \in Sources,
                 disk'[f].holds = None \/ disk'[f].modified <= proc[q].since
          PROVE  disk'[f] = disk[f]
      BY <1>2, <3>1, <3>3, <3>4 DEF Changes
    <3>5. RemoveAnytime \/ \A f \in Sources :
            disk'[f].holds = None \/ disk'[f].modified <= proc'[q].since =>
               Agrees(proc'[q].read, f, disk'[f].holds)
      BY <1>1, <3>1, <3>4 DEF ReadsSeen
    <3> QED BY <3>2, <3>5 DEF ReadsSeen
  <2>3. KnowsProgram(q)'
    BY <1>1, <2>1 DEF Own, KnowsProgram
  <2>4. StoresEntry(q)'
    <3>1. PICK list \in Lists, read \in Reads : list = proc[q].stamps /\ read = proc[q].read
      BY DEF TypeOK
    <3>2. StoresEntry(q)
      BY <2>1 DEF Own
    <3>3. pc[q] \in StoringEntry => Listed(list, read)'
      BY <1>10, <3>1, <3>2 DEF StoresEntry
    <3>4. pc[q] \in StoringEntry => Listed(proc[q].stamps, proc[q].read)'
      BY <1>1, <3>1, <3>3 DEF Listed, Vouches
    <3> QED BY <1>1, <3>2, <3>4 DEF StoresEntry
  <2>5. ASSUME NEW modules, FreshFor(q, modules) PROVE FreshFor(q, modules)'
    BY <1>6, <2>5 DEF FreshFor
  <2>6. LoadsEntry(q)'
    <3>1. PICK modules : modules = entry.modules
      OBVIOUS
    <3>2. FreshFor(q, entry.modules) => FreshFor(q, entry.modules)'
      BY <1>1, <2>5, <3>1 DEF FreshFor
    <3> QED BY <1>1, <2>1, <3>2 DEF Own, LoadsEntry, WholeProgram
  <2>7. Answers(q)'
    <3>1. UsesFresh(q) => UsesFresh(q)'
      BY <1>1, <1>6 DEF UsesFresh, FreshFor
    <3> QED BY <1>1, <2>1, <3>1 DEF Answers, Answered, WholeProgram
  <2> QED BY <2>2, <2>3, <2>4, <2>6, <2>7 DEF Own
<1> QED BY <1>7, <1>8, <1>11, <1>12

LEMMA EditKeeps ==
  ASSUME Inv, NEW f \in Sources, Edit(f)
  PROVE  Inv'
<1>1. TypeOK /\ now \in Nat
  BY DEF Inv, Shared, TypeOK
<1>2. PICK c \in Contents(f) :
        disk' = [disk EXCEPT ![f] = [holds |-> c, modified |-> now + 1]]
  BY DEF Edit
<1>3. c # None /\ c \in Values /\ now' = now + 1
  BY DEF Contents, None, Values, Edit, Tick, Sources
<1>4. \A g \in Sources : disk'[g] = IF g = f THEN [holds |-> c, modified |-> now + 1]
                                    ELSE disk[g]
  BY <1>1, <1>2 DEF TypeOK
<1>5. \A g \in Sources : Changes(g)
  BY <1>3, <1>4 DEF Changes
<1>6. disk' \in [Sources -> [holds : Values, modified : 0 .. now']]
  <2>1. [holds |-> c, modified |-> now + 1] \in [holds : Values, modified : 0 .. now']
    BY <1>1, <1>3
  <2>2. 0 .. now \subseteq 0 .. now'
    BY <1>1, <1>3
  <2>3. \A g \in Sources : disk[g] \in [holds : Values, modified : 0 .. now']
    BY <1>1, <2>2 DEF TypeOK
  <2> QED BY <1>2, <2>1, <2>3, <1>1 DEF TypeOK
<1>7. \A g \in Sources : disk'[g].holds \in Contents(g) \cup {None}
  BY <1>1, <1>4 DEF TypeOK
<1>8. ambient' \in {"a", "b"}
  BY <1>1 DEF TypeOK, Edit
<1> QED BY <1>5, <1>6, <1>7, <1>8, WorldKeeps DEF Edit

LEMMA RemoveKeeps ==
  ASSUME Inv, NEW f \in Sources, Remove(f)
  PROVE  Inv'
<1>1. TypeOK /\ now \in Nat
  BY DEF Inv, Shared, TypeOK
<1>2. /\ disk' = [disk EXCEPT ![f] = [holds |-> None, modified |-> 0]]
      /\ now' = now + 1 /\ (RemoveAnytime \/ Live = {})
  BY DEF Remove, Tick
<1>3. \A g \in Sources : disk'[g] = IF g = f THEN [holds |-> None, modified |-> 0]
                                    ELSE disk[g]
  BY <1>1, <1>2 DEF TypeOK
<1>4. \A g \in Sources : Changes(g)
  BY <1>2, <1>3 DEF Changes
<1>5. disk' \in [Sources -> [holds : Values, modified : 0 .. now']]
  <2>1. [holds |-> None, modified |-> 0] \in [holds : Values, modified : 0 .. now']
    BY <1>1, <1>2 DEF Values
  <2>2. 0 .. now \subseteq 0 .. now'
    BY <1>1, <1>2
  <2>3. \A g \in Sources : disk[g] \in [holds : Values, modified : 0 .. now']
    BY <1>1, <2>2 DEF TypeOK
  <2> QED BY <1>2, <2>1, <2>3, <1>1 DEF TypeOK
<1>6. \A g \in Sources : disk'[g].holds \in Contents(g) \cup {None}
  BY <1>1, <1>3 DEF TypeOK
<1>7. ambient' \in {"a", "b"}
  BY <1>1 DEF TypeOK, Remove
<1> QED BY <1>4, <1>5, <1>6, <1>7, WorldKeeps DEF Remove

LEMMA AmbientKeeps ==
  ASSUME Inv, Ambient
  PROVE  Inv'
<1>1. TypeOK /\ now \in Nat /\ now' = now + 1 /\ disk' = disk
  BY DEF Inv, Shared, TypeOK, Ambient, Tick
<1>2. \A g \in Sources : Changes(g)
  BY <1>1 DEF Changes
<1>3. disk' \in [Sources -> [holds : Values, modified : 0 .. now']]
  <2>1. 0 .. now \subseteq 0 .. now'
    BY <1>1
  <2> QED BY <1>1, <2>1 DEF TypeOK
<1>4. \A g \in Sources : disk'[g].holds \in Contents(g) \cup {None}
  BY <1>1 DEF TypeOK
<1>5. ambient' \in {"a", "b"}
  BY DEF Ambient
<1> QED BY <1>2, <1>3, <1>4, <1>5, WorldKeeps DEF Ambient

-----------------------------------------------------------------------------
(* What a step does to the locals of a run.                                *)

\* Locals, and what stays of those of the others and of p.
Typed(p) ==
  /\ proc' \in [Processes -> Locals]
  /\ \A q \in Processes : q # p => proc'[q] = proc[q]

SameBegin(p) == proc'[p].since = proc[p].since /\ proc'[p].read = proc[p].read

\* Another list of modules still to do.
LEMMA TodoChanges ==
  ASSUME TypeOK, NEW p \in Processes, NEW todo \in SUBSET Modules,
         proc' = [proc EXCEPT ![p].todo = todo]
  PROVE  /\ Typed(p) /\ SameBegin(p) /\ proc'[p].todo = todo /\ proc'[p].out = proc[p].out
         /\ proc'[p].from = proc[p].from /\ proc'[p].stamps = proc[p].stamps
<1>1. proc \in [Processes -> Locals]
  BY DEF TypeOK, Locals
<1>2. PICK r : r = [proc[p] EXCEPT !.todo = todo]
  OBVIOUS
<1>3. /\ r \in Locals /\ r.todo = todo /\ r.out = proc[p].out /\ r.from = proc[p].from
      /\ r.stamps = proc[p].stamps /\ r.since = proc[p].since /\ r.read = proc[p].read
  <2>1. proc[p] \in Locals
    BY <1>1
  <2> QED BY <1>2, <2>1 DEF Locals
<1>4. proc' = [proc EXCEPT ![p] = r]
  BY <1>2
<1> QED BY <1>1, <1>3, <1>4 DEF Typed, SameBegin

\* The locals with these of p.
Changed(p, out, todo, from) ==
  [proc EXCEPT ![p].out = out, ![p].todo = todo, ![p].from = from]

\* A module more in the output directory, or all.
LEMMA OutChanges ==
  ASSUME TypeOK, NEW p \in Processes, NEW out \in [Modules -> Beams],
         NEW todo \in SUBSET Modules, NEW from \in {None, "entry", "content", "build"},
         proc' = Changed(p, out, todo, from)
  PROVE  /\ Typed(p) /\ SameBegin(p) /\ proc'[p].out = out /\ proc'[p].todo = todo
         /\ proc'[p].from = from /\ proc'[p].stamps = proc[p].stamps
<1>1. proc \in [Processes -> Locals]
  BY DEF TypeOK, Locals
<1>2. PICK r1 : r1 = [proc[p] EXCEPT !.out = out]
  OBVIOUS
<1>3. PICK r2 : r2 = [r1 EXCEPT !.todo = todo]
  OBVIOUS
<1>4. PICK r3 : r3 = [r2 EXCEPT !.from = from]
  OBVIOUS
<1>5. proc[p] \in Locals
  BY <1>1
<1>6. /\ r1 \in Locals /\ r1.out = out
      /\ r1.stamps = proc[p].stamps /\ r1.since = proc[p].since /\ r1.read = proc[p].read
  BY <1>2, <1>5 DEF Locals
<1>7. /\ r2 \in Locals /\ r2.out = out /\ r2.todo = todo
      /\ r2.stamps = proc[p].stamps /\ r2.since = proc[p].since /\ r2.read = proc[p].read
  BY <1>3, <1>6 DEF Locals
<1>8. /\ r3 \in Locals /\ r3.out = out /\ r3.todo = todo /\ r3.from = from
      /\ r3.stamps = proc[p].stamps /\ r3.since = proc[p].since /\ r3.read = proc[p].read
  BY <1>4, <1>7 DEF Locals
<1>9. PICK f1 : f1 = [proc EXCEPT ![p] = r1]
  OBVIOUS
<1>10. PICK f2 : f2 = [f1 EXCEPT ![p] = r2]
  OBVIOUS
<1>11. f1 \in [Processes -> Locals] /\ f1[p] = r1 /\ \A q \in Processes : q # p => f1[q] = proc[q]
  BY <1>1, <1>6, <1>9
<1>12. f2 \in [Processes -> Locals] /\ f2[p] = r2 /\ \A q \in Processes : q # p => f2[q] = proc[q]
  BY <1>7, <1>10, <1>11
<1>13. f1 = [proc EXCEPT ![p].out = out]
  BY <1>2, <1>9
<1>14. f2 = [f1 EXCEPT ![p].todo = todo]
  BY <1>3, <1>10, <1>11
<1>15. proc' = [f2 EXCEPT ![p].from = from]
  BY <1>13, <1>14 DEF Changed
<1>16. [f2 EXCEPT ![p].from = from] = [f2 EXCEPT ![p] = r3]
  BY <1>4, <1>12
<1>17. PICK f3 : f3 = [f2 EXCEPT ![p] = r3]
  OBVIOUS
<1>18. f3 \in [Processes -> Locals] /\ f3[p] = r3 /\ \A q \in Processes : q # p => f3[q] = proc[q]
  BY <1>8, <1>12, <1>17
<1>19. proc' = f3
  BY <1>15, <1>16, <1>17
<1>20. proc' \in [Processes -> Locals] /\ proc'[p] = r3
        /\ \A q \in Processes : q # p => proc'[q] = proc[q]
  BY <1>18, <1>19
<1> QED BY <1>8, <1>20 DEF Typed, SameBegin

\* Something more read.
LEMMA ReadChanges ==
  ASSUME TypeOK, NEW p \in Processes, NEW read \in Reads,
         proc' = [proc EXCEPT ![p].read = read]
  PROVE  /\ Typed(p) /\ proc'[p].since = proc[p].since /\ proc'[p].read = read
<1>1. proc \in [Processes -> Locals]
  BY DEF TypeOK, Locals
<1>2. PICK r : r = [proc[p] EXCEPT !.read = read]
  OBVIOUS
<1>3. r \in Locals /\ r.since = proc[p].since /\ r.read = read
  <2>1. proc[p] \in Locals
    BY <1>1
  <2> QED BY <1>2, <2>1 DEF Locals
<1>4. proc' = [proc EXCEPT ![p] = r]
  BY <1>2
<1> QED BY <1>1, <1>3, <1>4 DEF Typed

\* The stamps of what was read.
LEMMA StampsChange ==
  ASSUME TypeOK, NEW p \in Processes, NEW list \in Lists,
         proc' = [proc EXCEPT ![p].stamps = list]
  PROVE  /\ Typed(p) /\ SameBegin(p) /\ proc'[p].out = proc[p].out
         /\ proc'[p].stamps = list
<1>1. proc \in [Processes -> Locals]
  BY DEF TypeOK, Locals
<1>2. PICK r : r = [proc[p] EXCEPT !.stamps = list]
  OBVIOUS
<1>3. /\ r \in Locals /\ r.since = proc[p].since /\ r.read = proc[p].read
      /\ r.out = proc[p].out /\ r.stamps = list
  <2>1. proc[p] \in Locals
    BY <1>1
  <2> QED BY <1>2, <2>1 DEF Locals
<1>4. proc' = [proc EXCEPT ![p] = r]
  BY <1>2
<1> QED BY <1>1, <1>3, <1>4 DEF Typed, SameBegin

\* Locals that stay as they are.
LEMMA LocalsStay ==
  ASSUME TypeOK, NEW p \in Processes, proc' = proc
  PROVE  Typed(p) /\ SameBegin(p)
BY DEF TypeOK, Locals, Typed, SameBegin

\* A step of a run that leaves the caches alone: what has to be shown of it.
LEMMA QuietRun ==
  ASSUME Inv, NEW p \in Processes, p \in Live, NEW label \in Labels \ {"idle", "gone"},
         Goto(p, label), UNCHANGED World, UNCHANGED <<kept, entry, stamps, seen>>,
         runs' \in 0 .. MaxRuns, faults' \in 0 .. MaxFaults, Typed(p),
         ReadsSeen(p)', KnowsProgram(p)',
         label \in StoringEntry => StoresEntry(p)',
         label \in {"loadEntry", "copyEntry"} => LoadsEntry(p)',
         label = "run" => Answers(p)'
  PROVE  Inv'
<1>1. TypeOK
  BY DEF Inv, Shared
<1>2. Moves(p, label) /\ pc'[p] = label
  BY <1>1, GoesMoves DEF Typed
<1>3. /\ seen' \in [Processes -> [Parts -> SUBSET Values]]
      /\ seen'[p] # NothingSeen
  BY <1>1 DEF TypeOK
<1>4. Own(p)'
  <2>1. label \notin StoringEntry => StoresEntry(p)'
    BY <1>2 DEF StoresEntry
  <2>2. label \notin {"loadEntry", "copyEntry"} => LoadsEntry(p)'
    BY <1>2 DEF LoadsEntry
  <2> QED BY <2>1, <2>2 DEF Own
<1>5. Answers(p)'
  <2>1. label # "run" => Answers(p)'
    BY <1>2 DEF Answers, Answered
  <2> QED BY <2>1
<1>6. UNCHANGED <<kept, entry, stamps>>
  OBVIOUS
<1>7. label \notin {"idle", "gone"}
  OBVIOUS
<1> QED BY <1>2, <1>3, <1>4, <1>5, <1>6, <1>7, QuietStep DEF Typed

\* What a run has seen does not change with what it does.
LEMMA SeenStays ==
  ASSUME NEW p \in Processes, UNCHANGED World, seen' = seen, SameBegin(p), ReadsSeen(p)
  PROVE  ReadsSeen(p)'
<1>1. disk' = disk /\ ambient' = ambient
  BY DEF World
<1>2. Now' = Now
  BY <1>1 DEF Now, Resolved
<1> QED BY <1>1, <1>2 DEF ReadsSeen, SameBegin

-----------------------------------------------------------------------------
(* The steps of a run.                                                     *)

\* A run starts with nothing read, and has seen what is there.
LEMMA StartKeeps ==
  ASSUME Inv, NEW p \in Processes, Start(p)
  PROVE  Inv'
<1>1. TypeOK /\ now \in Nat
  BY DEF Inv, Shared, TypeOK
<1>2. /\ UNCHANGED World /\ Goto(p, "read")
      /\ kept' = kept /\ entry' = entry /\ stamps' = stamps /\ faults' = faults
      /\ proc' = [proc EXCEPT ![p] = [Fresh EXCEPT !.since = now]]
      /\ seen' = [seen EXCEPT ![p] = [part \in Parts |-> {Now[part]}]]
  BY DEF Start
<1>3. runs' \in 0 .. MaxRuns /\ faults' \in 0 .. MaxFaults
  BY <1>1, <1>2, RunCacheAssumption DEF Start, TypeOK
<1>4. PICK r : r = [Fresh EXCEPT !.since = now]
  OBVIOUS
<1>5. r \in Locals /\ r.since = now /\ r.read = NothingRead
  <2>1. Fresh \in Locals /\ Fresh.read = NothingRead /\ now \in 0 .. now
    BY <1>1, FreshTyped DEF Fresh
  <2> QED BY <1>4, <2>1 DEF Locals
<1>6. PICK s : s = [part \in Parts |-> {Now[part]}]
  OBVIOUS
<1>7. s \in [Parts -> SUBSET Values] /\ s # NothingSeen
  <2>1. Resolved \in Sources
    BY DEF Resolved, Sources
  <2>2. /\ disk["entry"].holds \in Values /\ disk["asset"].holds \in Values
        /\ disk[Resolved].holds \in Values /\ ambient \in Values
    BY <1>1, <2>1 DEF TypeOK, Sources, Values, Contents
  <2>3. \A part \in Parts : Now[part] \in Values
    BY <2>2 DEF Now, Parts
  <2>4. "entry" \in Parts /\ s["entry"] # {} /\ NothingSeen["entry"] = {}
    BY <1>6 DEF NothingSeen, Parts
  <2> QED BY <1>6, <2>3, <2>4
<1>8. /\ proc' \in [Processes -> Locals] /\ proc'[p] = r
      /\ seen' \in [Processes -> [Parts -> SUBSET Values]] /\ seen'[p] = s
      /\ \A q \in Processes : q # p => proc'[q] = proc[q] /\ seen'[q] = seen[q]
  <2>1. proc \in [Processes -> Locals] /\ seen \in [Processes -> [Parts -> SUBSET Values]]
    BY <1>1 DEF TypeOK, Locals
  <2>2. proc' = [proc EXCEPT ![p] = r] /\ seen' = [seen EXCEPT ![p] = s]
    BY <1>2, <1>4, <1>6
  <2> QED BY <1>5, <1>7, <2>1, <2>2
<1>9. Moves(p, "read") /\ pc'[p] = "read"
  <2>1. "read" \in Labels
    BY DEF Labels
  <2> QED BY <1>1, <1>2, <1>8, <2>1, GoesMoves
<1>10. ReadsSeen(p)'
  <2>1. Now' = Now
    BY <1>2 DEF Now, Resolved, World
  <2>2. \A part \in Parts : NothingRead[part] = None
    BY DEF NothingRead, Parts
  <2>3. \A part \in Parts : {Now'[part], proc'[p].read[part]} \subseteq seen'[p][part] \cup {None}
    BY <1>5, <1>6, <1>8, <2>1, <2>2
  <2>4. \A f \in Sources : \A c : Agrees(NothingRead, f, c)
    BY DEF Agrees, NothingRead, Sources, None
  <2> QED BY <1>5, <1>8, <2>3, <2>4 DEF ReadsSeen
<1>11. Own(p)' /\ Answers(p)'
  <2>1. KnowsProgram(p)'
    BY <1>9 DEF KnowsProgram, Building, StoringKept, StoringEntry
  <2>2. StoresEntry(p)' /\ LoadsEntry(p)'
    BY <1>9 DEF StoresEntry, LoadsEntry, StoringEntry
  <2>3. Answers(p)'
    BY <1>9 DEF Answers, Answered
  <2> QED BY <1>10, <2>1, <2>2, <2>3 DEF Own
<1>12. UNCHANGED <<kept, entry, stamps>>
  BY <1>2
<1> QED BY <1>3, <1>7, <1>8, <1>9, <1>11, <1>12, QuietStep

\* The counts of runs and faults stay in their bounds.
LEMMA FaultCounted ==
  ASSUME TypeOK
  PROVE  /\ Fault => faults' \in 0 .. MaxFaults
         /\ UNCHANGED faults => faults' \in 0 .. MaxFaults
         /\ UNCHANGED runs => runs' \in 0 .. MaxRuns
BY RunCacheAssumption DEF Fault, TypeOK

LEMMA KilledKeeps ==
  ASSUME Inv, NEW p \in Processes, Killed(p)
  PROVE  Inv'
<1>1. runs' \in 0 .. MaxRuns /\ faults' \in 0 .. MaxFaults
  BY FaultCounted DEF Inv, Shared, Killed
<1> QED BY <1>1, EndKeeps DEF Killed

LEMMA RunKeeps ==
  ASSUME Inv, NEW p \in Processes, Run(p)
  PROVE  Inv'
<1>1. runs' \in 0 .. MaxRuns /\ faults' \in 0 .. MaxFaults
  BY FaultCounted DEF Inv, Shared, Run
<1> QED BY <1>1, EndKeeps DEF Run

\* What is read of the entry file is there, so it has been seen.
LEMMA ReadEntryKeeps ==
  ASSUME Inv, NEW p \in Processes, ReadEntry(p)
  PROVE  Inv'
<1>1. TypeOK /\ runs' \in 0 .. MaxRuns /\ faults' \in 0 .. MaxFaults
  BY FaultCounted DEF Inv, Shared, ReadEntry
<1>2. /\ UNCHANGED World /\ kept' = kept /\ entry' = entry /\ stamps' = stamps
      /\ pc[p] = "read"
  BY DEF ReadEntry
<1> DEFINE kind == disk["entry"].holds
<1>3. CASE kind = None \/ (kind = "embeds" /\ disk["asset"].holds = None)
  <2>1. End(p, "idle")
    BY <1>3 DEF ReadEntry
  <2> QED BY <1>1, <1>2, <2>1, EndKeeps
<1>4. CASE ~(kind = None \/ (kind = "embeds" /\ disk["asset"].holds = None))
  <2> DEFINE asset == IF kind = "embeds" THEN disk["asset"].holds ELSE None
             outside == IF kind = "outside" THEN ambient ELSE None
  <2>1. /\ proc' = [proc EXCEPT ![p].read =
              [@ EXCEPT !.entry = kind, !.asset = asset, !.ambient = outside]]
        /\ Goto(p, "lookup") /\ seen' = seen
    BY <1>4 DEF ReadEntry
  <2>2. /\ kind \in Contents("entry") /\ asset \in Contents("asset") \cup {None}
        /\ outside \in {"a", "b", None} /\ disk["asset"].holds \in Contents("asset") \cup {None}
        /\ (asset # None) <=> kind = "embeds"
        /\ (outside # None) <=> kind = "outside"
    <3>1. disk["entry"].holds \in Contents("entry") \cup {None}
            /\ disk["asset"].holds \in Contents("asset") \cup {None}
      BY <1>1 DEF TypeOK, Sources
    <3>2. ambient \in {"a", "b"}
      BY <1>1 DEF TypeOK
    <3> QED BY <1>4, <3>1, <3>2 DEF None, Contents
  <2>3. PICK read :
          read = [proc[p].read EXCEPT !.entry = kind, !.asset = asset, !.ambient = outside]
    OBVIOUS
  <2>4. /\ read \in Reads /\ read.entry = kind /\ read.asset = asset /\ read.ambient = outside
        /\ read.path = proc[p].read.path /\ read.lib = proc[p].read.lib
    <3> HIDE DEF kind, asset, outside
    <3>1. proc[p].read \in Reads
      BY <1>1 DEF TypeOK
    <3>2. PICK r1 : r1 = [proc[p].read EXCEPT !.entry = kind]
      OBVIOUS
    <3>3. PICK r2 : r2 = [r1 EXCEPT !.asset = asset]
      OBVIOUS
    <3>4. read = [r2 EXCEPT !.ambient = outside]
      BY <2>3, <3>2, <3>3
    <3>5. r1 \in Reads /\ r1.entry = kind /\ r1.path = proc[p].read.path
            /\ r1.lib = proc[p].read.lib
      BY <2>2, <3>1, <3>2 DEF Reads
    <3>6. r2 \in Reads /\ r2.entry = kind /\ r2.asset = asset /\ r2.path = proc[p].read.path
            /\ r2.lib = proc[p].read.lib
      BY <2>2, <3>3, <3>5 DEF Reads
    <3> QED BY <2>2, <3>4, <3>6 DEF Reads
  <2>5. Typed(p) /\ proc'[p].since = proc[p].since /\ proc'[p].read = read
    <3> HIDE DEF kind, asset, outside
    <3>1. proc' = [proc EXCEPT ![p].read = read]
      BY <2>1, <2>3
    <3> QED BY <1>1, <2>4, <3>1, ReadChanges
  <2>6. pc'[p] = "lookup" /\ "lookup" \in Labels /\ p \in Live
    BY <1>1, <1>2, <2>1 DEF Goto, TypeOK, Live, Labels
  <2>7. ReadsSeen(p)
    BY <2>6 DEF Inv, Own
  <2>8. ReadsSeen(p)'
    <3>1. disk' = disk /\ ambient' = ambient /\ Now' = Now
      BY <1>2 DEF World, Now, Resolved
    <3>2. Now.entry = kind /\ Now.asset = disk["asset"].holds /\ Now.ambient = ambient
      BY DEF Now
    <3>3. read.entry = Now.entry /\ read.asset \in {Now.asset, None}
            /\ read.ambient \in {Now.ambient, None} /\ read.lib = proc[p].read.lib
      BY <2>4, <3>2
    <3>4. \A part \in Parts :
            {Now'[part], proc'[p].read[part]} \subseteq seen'[p][part] \cup {None}
      <4>1. \A part \in Parts : read[part] \in {Now[part], proc[p].read[part], None}
        BY <3>3 DEF Parts
      <4>2. \A part \in Parts :
              {Now[part], proc[p].read[part]} \subseteq seen[p][part] \cup {None}
        BY <2>7 DEF ReadsSeen
      <4>3. Now' = Now /\ proc'[p].read = read /\ seen' = seen
        BY <2>1, <2>5, <3>1
      <4> HIDE DEF kind, asset, outside
      <4> QED BY <4>1, <4>2, <4>3
    <3>5. ASSUME ~RemoveAnytime, NEW f \in Sources,
                 disk[f].holds = None \/ disk[f].modified <= proc[p].since
          PROVE  Agrees(read, f, disk[f].holds)
      <4>1. Agrees(proc[p].read, f, disk[f].holds)
        BY <2>7, <3>5 DEF ReadsSeen
      <4>2. CASE f \in {"entry", "asset"}
        BY <2>4, <4>2 DEF Agrees
      <4>3. CASE f \in {"lib", "shadow"}
        BY <2>4, <4>1, <4>3 DEF Agrees
      <4> QED BY <4>2, <4>3 DEF Sources
    <3> QED BY <2>5, <3>1, <3>4, <3>5 DEF ReadsSeen
  <2>9. KnowsProgram(p)'
    <3>1. EntryRead(read)
      BY <2>2, <2>4 DEF EntryRead, Contents, None
    <3> QED BY <2>5, <2>6, <3>1 DEF KnowsProgram, Building, StoringKept, StoringEntry
  <2>10. /\ "lookup" \notin StoringEntry /\ "lookup" \notin {"loadEntry", "copyEntry"}
         /\ "lookup" # "run" /\ "lookup" \notin {"idle", "gone"}
    BY DEF StoringEntry
  <2>11. UNCHANGED <<kept, entry, stamps, seen>>
    BY <1>2, <2>1
  <2> QED BY <1>1, <1>2, <2>1, <2>5, <2>6, <2>8, <2>9, <2>10, <2>11, QuietRun
<1> QED BY <1>3, <1>4

\* An entry that vouches for the files as they are has what p could compile.
LEMMA CurrentIsFresh ==
  ASSUME Inv, NEW p \in Processes, p \in Live, RunManifestCurrent, ~clashed
  PROVE  /\ entry.names /\ WholeProgram(entry.modules)
         /\ RemoveAnytime \/ FreshFor(p, entry.modules)
<1>1. stamps # NoStamps /\ \A f \in DOMAIN stamps : FileStamp(f) = stamps[f]
  BY DEF RunManifestCurrent
<1>2. PICK read \in Reads :
        /\ ProgramRead(read) /\ ~ReachedOutside(read)
        /\ entry = [names |-> TRUE, modules |-> Compiled(read)]
        /\ Listed(stamps, read)
  BY <1>1 DEF Inv, Shared, EntryRight
<1>3. entry.names /\ entry.modules = Compiled(read)
  BY <1>2
<1>4. WholeProgram(entry.modules)
  BY <1>2, <1>3, CompiledWhole
<1>5. ASSUME ~RemoveAnytime PROVE FreshFor(p, entry.modules)
  <2>1. \A f \in RunManifestFiles(read) : Agrees(read, f, disk[f].holds)
    BY <1>1, <1>2, <1>5 DEF Listed, Vouches
  <2>2. read.entry # None /\ read.path \in {"lib", "shadow"} /\ read.lib # None
          /\ ((read.asset # None) <=> read.entry = "embeds") /\ read.ambient = None
    BY <1>2 DEF ProgramRead, EntryRead, ReachedOutside, Reads
  <2>3. disk["entry"].holds = read.entry
    BY <2>1, <2>2 DEF RunManifestFiles, Agrees
  <2>4. read.asset # None => disk["asset"].holds = read.asset
    BY <2>1, <2>2 DEF RunManifestFiles, Agrees
  <2>5. disk[Resolved].holds = read.lib
    <3>1. disk["shadow"].holds = (IF read.path = "shadow" THEN read.lib ELSE None)
      BY <2>1, <2>2 DEF RunManifestFiles, Agrees, None
    <3>2. read.path = "lib" => disk["lib"].holds = read.lib
      BY <2>1, <2>2 DEF RunManifestFiles, Agrees
    <3> QED BY <2>2, <3>1, <3>2 DEF Resolved
  <2>6. Now.entry = read.entry /\ Now.lib = read.lib /\ read.asset \in {Now.asset, None}
    BY <2>3, <2>4, <2>5 DEF Now
  <2>7. \A part \in Parts : read[part] \in {Now[part], None}
    BY <2>2, <2>6 DEF Parts
  <2>8. \A part \in Parts : Now[part] \in seen[p][part] \cup {None}
    BY DEF Inv, Own, ReadsSeen
  <2>9. \A part \in Parts : read[part] \in seen[p][part] \cup {None}
    BY <2>7, <2>8
  <2> QED BY <1>2, <1>3, <2>9, CompiledFresh
<1> QED BY <1>3, <1>4, <1>5

\* What holds of a run between its first look and its last.
LEMMA Running ==
  ASSUME Inv, NEW p \in Processes, pc[p] \notin {"idle", "gone"}
  PROVE  /\ TypeOK /\ p \in Live /\ ReadsSeen(p) /\ KnowsProgram(p) /\ StoresEntry(p)
         /\ LoadsEntry(p) /\ proc[p] \in Locals /\ proc[p].read \in Reads
         /\ proc[p].out \in [Modules -> Beams] /\ proc[p].todo \subseteq Modules
<1>1. TypeOK /\ Own(p)
  BY DEF Inv, Shared
<1>2. p \in Live
  BY DEF Live
<1>3. proc[p] \in Locals
  BY <1>1 DEF TypeOK, Locals
<1> QED BY <1>1, <1>2, <1>3 DEF Own, Locals

\* Whoever finds the entry current goes to load it.
LEMMA LookupEntryKeeps ==
  ASSUME Inv, NEW p \in Processes, LookupEntry(p)
  PROVE  Inv'
<1>1. TypeOK /\ runs' \in 0 .. MaxRuns /\ faults' \in 0 .. MaxFaults
  BY FaultCounted DEF Inv, Shared, LookupEntry
<1>2. PICK label : label = IF RunManifestCurrent THEN "loadEntry" ELSE "resolve"
  OBVIOUS
<1>3. /\ UNCHANGED World /\ UNCHANGED <<kept, entry, stamps, seen>> /\ proc' = proc
      /\ pc[p] = "lookup" /\ Goto(p, label)
  BY <1>2 DEF LookupEntry
<1>4. label \in Labels \ {"idle", "gone"} /\ label \notin StoringEntry /\ label # "run"
        /\ label \in {"loadEntry", "resolve"}
  BY <1>2 DEF Labels, StoringEntry
<1>5. p \in Live /\ ReadsSeen(p) /\ KnowsProgram(p)
  BY <1>3, Running
<1>6. Typed(p) /\ SameBegin(p)
  BY <1>1, <1>3, LocalsStay
<1>7. ReadsSeen(p)'
  BY <1>3, <1>5, <1>6, SeenStays
<1>8. pc'[p] = label /\ (clashed => clashed')
  BY <1>1, <1>3 DEF Goto, TypeOK
<1>9. KnowsProgram(p)'
  BY <1>3, <1>4, <1>5, <1>8 DEF KnowsProgram, Building, StoringKept, StoringEntry
<1>10. label \in {"loadEntry", "copyEntry"} => LoadsEntry(p)'
  <2> SUFFICES ASSUME label = "loadEntry", ~clashed' PROVE LoadsEntry(p)'
    BY <1>4, <1>8 DEF LoadsEntry
  <2>1. RunManifestCurrent /\ ~clashed
    BY <1>2, <1>8
  <2>2. /\ entry.names /\ WholeProgram(entry.modules)
        /\ RemoveAnytime \/ FreshFor(p, entry.modules)
    BY <1>5, <2>1, CurrentIsFresh
  <2> QED BY <1>3, <1>8, <2>2 DEF LoadsEntry, WholeProgram, FreshFor
<1> QED BY <1>1, <1>3, <1>4, <1>5, <1>6, <1>7, <1>9, <1>10, QuietRun

\* The module is read where it is found.
LEMMA ResolveKeeps ==
  ASSUME Inv, NEW p \in Processes, Resolve(p)
  PROVE  Inv'
<1>1. TypeOK /\ runs' \in 0 .. MaxRuns /\ faults' \in 0 .. MaxFaults
  BY FaultCounted DEF Inv, Shared, Resolve
<1>2. /\ UNCHANGED World /\ kept' = kept /\ entry' = entry /\ stamps' = stamps
      /\ pc[p] = "resolve"
  BY DEF Resolve
<1>3. CASE disk[Resolved].holds = None
  <2>1. End(p, "idle")
    BY <1>3 DEF Resolve
  <2> QED BY <1>1, <1>2, <2>1, EndKeeps
<1>4. CASE disk[Resolved].holds # None
  <2> DEFINE path == Resolved
             lib == disk[Resolved].holds
  <2>1. /\ proc' = [proc EXCEPT ![p].read = [@ EXCEPT !.path = path, !.lib = lib]]
        /\ Goto(p, "loadKept") /\ seen' = seen
    BY <1>4 DEF Resolve
  <2>2. /\ path \in {"lib", "shadow"} /\ path # None /\ lib \in Contents("lib") /\ lib # None
        /\ (disk["shadow"].holds # None => path = "shadow")
        /\ (disk["shadow"].holds = None => path = "lib")
    <3>1. Resolved \in {"lib", "shadow"} /\ Resolved # None
            /\ (disk["shadow"].holds # None => Resolved = "shadow")
            /\ (disk["shadow"].holds = None => Resolved = "lib")
      BY DEF Resolved, None
    <3>2. disk[Resolved].holds \in Contents("lib")
      BY <1>1, <1>4, <3>1 DEF TypeOK, Sources, Contents
    <3> QED BY <1>4, <3>1, <3>2
  <2>3. PICK read : read = [proc[p].read EXCEPT !.path = path, !.lib = lib]
    OBVIOUS
  <2>4. /\ read \in Reads /\ read.path = path /\ read.lib = lib
        /\ read.entry = proc[p].read.entry /\ read.asset = proc[p].read.asset
        /\ read.ambient = proc[p].read.ambient
    <3> HIDE DEF path, lib
    <3>1. proc[p].read \in Reads
      BY <1>1 DEF TypeOK
    <3>2. PICK r1 : r1 = [proc[p].read EXCEPT !.path = path]
      OBVIOUS
    <3>3. read = [r1 EXCEPT !.lib = lib]
      BY <2>3, <3>2
    <3>4. /\ r1 \in Reads /\ r1.path = path /\ r1.entry = proc[p].read.entry
          /\ r1.asset = proc[p].read.asset /\ r1.ambient = proc[p].read.ambient
      BY <2>2, <3>1, <3>2 DEF Reads
    <3> QED BY <2>2, <3>3, <3>4 DEF Reads
  <2>5. Typed(p) /\ proc'[p].since = proc[p].since /\ proc'[p].read = read
    <3> HIDE DEF path, lib
    <3>1. proc' = [proc EXCEPT ![p].read = read]
      BY <2>1, <2>3
    <3> QED BY <1>1, <2>4, <3>1, ReadChanges
  <2>6. pc'[p] = "loadKept" /\ "loadKept" \in Labels /\ p \in Live
    BY <1>1, <1>2, <2>1 DEF Goto, TypeOK, Live, Labels, Building
  <2>7. ReadsSeen(p) /\ KnowsProgram(p)
    BY <1>2, Running
  <2>8. ReadsSeen(p)'
    <3>1. disk' = disk /\ ambient' = ambient /\ Now' = Now
      BY <1>2 DEF World, Now, Resolved
    <3>2. read.lib = Now.lib
      BY <2>4 DEF Now
    <3>3. \A part \in Parts :
            {Now'[part], proc'[p].read[part]} \subseteq seen'[p][part] \cup {None}
      <4>1. \A part \in Parts : read[part] \in {Now[part], proc[p].read[part], None}
        BY <2>4, <3>2 DEF Parts
      <4>2. \A part \in Parts :
              {Now[part], proc[p].read[part]} \subseteq seen[p][part] \cup {None}
        BY <2>7 DEF ReadsSeen
      <4>3. Now' = Now /\ proc'[p].read = read /\ seen' = seen
        BY <2>1, <2>5, <3>1
      <4> HIDE DEF path, lib
      <4> QED BY <4>1, <4>2, <4>3
    <3>4. ASSUME ~RemoveAnytime, NEW f \in Sources,
                 disk[f].holds = None \/ disk[f].modified <= proc[p].since
          PROVE  Agrees(read, f, disk[f].holds)
      <4>1. Agrees(proc[p].read, f, disk[f].holds)
        BY <2>7, <3>4 DEF ReadsSeen
      <4>2. CASE f \in {"entry", "asset"}
        BY <2>4, <4>1, <4>2 DEF Agrees
      <4>3. CASE f = "lib"
        BY <2>2, <2>4, <4>3 DEF Agrees
      <4>4. CASE f = "shadow"
        BY <2>2, <2>4, <4>4 DEF Agrees
      <4> QED BY <4>2, <4>3, <4>4 DEF Sources
    <3> QED BY <2>5, <3>1, <3>3, <3>4 DEF ReadsSeen
  <2>9. KnowsProgram(p)'
    <3>1. ProgramRead(read)
      BY <1>2, <2>2, <2>4, <2>7 DEF ProgramRead, EntryRead, KnowsProgram
    <3> QED BY <2>5, <2>6, <3>1 DEF KnowsProgram, Building, StoringKept, StoringEntry
  <2>10. /\ "loadKept" \notin StoringEntry /\ "loadKept" \notin {"loadEntry", "copyEntry"}
         /\ "loadKept" # "run" /\ "loadKept" \notin {"idle", "gone"}
    BY DEF StoringEntry
  <2>11. UNCHANGED <<kept, entry, stamps, seen>>
    BY <1>2, <2>1
  <2> QED BY <1>1, <1>2, <2>1, <2>5, <2>6, <2>8, <2>9, <2>10, <2>11, QuietRun
<1> QED BY <1>3, <1>4

\* What p compiles or has compiled is whole and fresh.
LEMMA CompiledAnswers ==
  ASSUME NEW p \in Processes, TypeOK, ReadsSeen(p), ProgramRead(proc[p].read)
  PROVE  WholeProgram(Compiled(proc[p].read)) /\ FreshFor(p, Compiled(proc[p].read))
<1>1. proc[p].read \in Reads
  BY DEF TypeOK
<1>2. \A part \in Parts : proc[p].read[part] \in seen[p][part] \cup {None}
  BY DEF ReadsSeen
<1> QED BY <1>1, <1>2, CompiledWhole, CompiledFresh

\* With the whole program in the output directory a run may start it.
LEMMA AnswerHolds ==
  ASSUME NEW p \in Processes, proc'[p].out = Compiled(proc[p].read), seen' = seen,
         TypeOK, ReadsSeen(p), ProgramRead(proc[p].read)
  PROVE  Answers(p)'
<1>1. WholeProgram(Compiled(proc[p].read)) /\ FreshFor(p, Compiled(proc[p].read))
  BY CompiledAnswers
<1>2. PICK modules : modules = Compiled(proc[p].read)
  OBVIOUS
<1>3. WholeProgram(modules) /\ FreshFor(p, modules) /\ proc'[p].out = modules
  BY <1>1, <1>2
<1>4. UsesFresh(p)' /\ WholeProgram(proc[p].out)'
  BY <1>3 DEF UsesFresh, FreshFor, WholeProgram
<1> QED BY <1>4 DEF Answers

\* A build makes what its sources compile to.
LEMMA BuildKeeps ==
  ASSUME Inv, NEW p \in Processes, pc[p] \in {"loadKept", "copyKept"}, Build(p),
         UNCHANGED <<World, runs, faults, kept, entry, stamps>>
  PROVE  Inv'
<1>1. runs' \in 0 .. MaxRuns /\ faults' \in 0 .. MaxFaults
  BY FaultCounted DEF Inv, Shared
<1>2. /\ TypeOK /\ p \in Live /\ ReadsSeen(p) /\ KnowsProgram(p)
      /\ proc[p].read \in Reads
  BY Running
<1>3. ProgramRead(proc[p].read)
  BY <1>2 DEF KnowsProgram, Building
<1>4. PICK out \in [Modules -> Beams] : out = Compiled(proc[p].read)
  BY <1>2, CompileTyped
<1>5. PICK label : label = IF RunCacheApplies(proc[p].read) THEN "storeKept"
                           ELSE AfterKept(p)
  OBVIOUS
<1>6. /\ proc' = [proc EXCEPT ![p].out = out, ![p].todo = Modules, ![p].from = "build"]
      /\ Goto(p, label) /\ seen' = seen
  BY <1>4, <1>5 DEF Build, Compiled
<1>7. /\ label \in {"storeKept", "run", "vouch"}
      /\ (label = "storeKept" => RunCacheApplies(proc[p].read))
      /\ (label = "vouch" => ~ReachedOutside(proc[p].read))
  BY <1>5 DEF AfterKept
<1>8. label \in Labels \ {"idle", "gone"} /\ label \notin StoringEntry
        /\ label \notin {"loadEntry", "copyEntry"}
  BY <1>7 DEF Labels, Building, StoringKept, StoringEntry
<1>9. Typed(p) /\ SameBegin(p) /\ proc'[p].out = out /\ proc'[p].todo = Modules
  <2>1. Modules \in SUBSET Modules /\ "build" \in {None, "entry", "content", "build"}
    OBVIOUS
  <2>2. proc' = Changed(p, out, Modules, "build")
    BY <1>6 DEF Changed
  <2> QED BY <1>2, <2>1, <2>2, OutChanges
<1>10. ReadsSeen(p)'
  BY <1>2, <1>6, <1>9, SeenStays
<1>11. pc'[p] = label
  BY <1>2, <1>6 DEF Goto, TypeOK
<1>12. KnowsProgram(p)'
  <2>1. proc'[p].read = proc[p].read /\ proc'[p].out = Compiled(proc'[p].read)
          /\ proc'[p].todo # {}
    BY <1>4, <1>9 DEF SameBegin, Modules
  <2> QED BY <1>3, <1>7, <1>11, <2>1 DEF KnowsProgram, Building, StoringKept, StoringEntry
<1>13. Answers(p)'
  BY <1>2, <1>3, <1>4, <1>6, <1>9, AnswerHolds
<1>14. UNCHANGED World /\ UNCHANGED <<kept, entry, stamps, seen>>
  BY <1>6
<1> QED BY <1>1, <1>2, <1>6, <1>8, <1>9, <1>10, <1>12, <1>13, <1>14, QuietRun

\* What a run loads by content is what its sources compile to, or it builds.
LEMMA LoadKeptKeeps ==
  ASSUME Inv, NEW p \in Processes, LoadKept(p)
  PROVE  Inv'
<1>1. /\ pc[p] = "loadKept" /\ UNCHANGED <<World, runs, faults, kept, entry, stamps>>
  BY DEF LoadKept
<1>2. CASE ~(RunCacheApplies(proc[p].read) /\ kept[Key(p)].names)
  <2>1. Build(p)
    BY <1>2 DEF LoadKept
  <2> QED BY <1>1, <2>1, BuildKeeps
<1>3. CASE RunCacheApplies(proc[p].read) /\ kept[Key(p)].names
  <2>1. /\ proc' = [proc EXCEPT ![p].todo = Modules] /\ Goto(p, "copyKept") /\ seen' = seen
    BY <1>3 DEF LoadKept
  <2>2. runs' \in 0 .. MaxRuns /\ faults' \in 0 .. MaxFaults
    BY <1>1, FaultCounted DEF Inv, Shared
  <2>3. TypeOK /\ p \in Live /\ ReadsSeen(p) /\ KnowsProgram(p)
    BY <1>1, Running
  <2>4. Typed(p) /\ SameBegin(p) /\ proc'[p].todo = Modules
    BY <2>1, <2>3, TodoChanges
  <2>5. "copyKept" \in Labels \ {"idle", "gone"} /\ "copyKept" \notin StoringEntry
          /\ "copyKept" \notin {"loadEntry", "copyEntry", "run"}
    BY DEF Labels, Building, StoringEntry
  <2>6. ReadsSeen(p)'
    BY <1>1, <2>1, <2>3, <2>4, SeenStays
  <2>7. pc'[p] = "copyKept"
    BY <2>1, <2>3 DEF Goto, TypeOK
  <2>8. KnowsProgram(p)'
    <3>1. ProgramRead(proc[p].read)
      BY <1>1, <2>3 DEF KnowsProgram, Building
    <3> QED BY <1>3, <2>4, <2>7, <3>1
          DEF KnowsProgram, Building, StoringKept, StoringEntry, SameBegin, Modules
  <2>9. UNCHANGED World /\ UNCHANGED <<kept, entry, stamps, seen>>
    BY <1>1, <2>1
  <2> QED BY <2>1, <2>2, <2>3, <2>4, <2>5, <2>6, <2>8, <2>9, QuietRun
<1> QED BY <1>2, <1>3

\* The next module is one of those to do.
LEMMA FirstToDo ==
  ASSUME NEW todo \in SUBSET Modules, todo # {}
  PROVE  First(todo) \in todo
BY DEF First, Modules

\* What copying a module out does.
LEMMA CopyOutEffect ==
  ASSUME TypeOK, NEW p \in Processes, NEW dir \in Directories,
         NEW from \in {"entry", "content"}, CopyOut(p, dir, from), proc[p].todo # {}
  PROVE  LET m == First(proc[p].todo) IN
         /\ m \in proc[p].todo /\ m \in Modules
         /\ Typed(p) /\ SameBegin(p) /\ seen' = seen /\ proc'[p].from = from
         /\ proc'[p].out[m] = dir.modules[m]
         /\ \A n \in Modules : n # m => proc'[p].out[n] = proc[p].out[n]
         /\ proc'[p].todo = proc[p].todo \ {m}
         /\ Goto(p, IF proc[p].todo \ {m} = {} THEN "run" ELSE pc[p])
<1>1. proc[p].todo \in SUBSET Modules /\ proc[p].out \in [Modules -> Beams]
        /\ dir.modules \in [Modules -> Beams]
  BY DEF TypeOK, Directories
<1>2. PICK m : m = First(proc[p].todo)
  OBVIOUS
<1>3. m \in proc[p].todo /\ m \in Modules
  BY <1>1, <1>2, FirstToDo
<1>4. PICK out : out = [proc[p].out EXCEPT ![m] = dir.modules[m]]
  OBVIOUS
<1>5. /\ out \in [Modules -> Beams] /\ out[m] = dir.modules[m]
      /\ \A n \in Modules : n # m => out[n] = proc[p].out[n]
  BY <1>1, <1>3, <1>4
<1>6. /\ proc' = Changed(p, out, proc[p].todo \ {m}, from) /\ seen' = seen
      /\ Goto(p, IF proc[p].todo \ {m} = {} THEN "run" ELSE pc[p])
  BY <1>2, <1>4 DEF CopyOut, Changed
<1>7. proc[p].todo \ {m} \in SUBSET Modules /\ from \in {None, "entry", "content", "build"}
  BY <1>1
<1>8. /\ Typed(p) /\ SameBegin(p) /\ proc'[p].out = out
      /\ proc'[p].todo = proc[p].todo \ {m} /\ proc'[p].from = from
  <2>1. PICK left \in SUBSET Modules : left = proc[p].todo \ {m}
    BY <1>7
  <2>2. proc' = Changed(p, out, left, from)
    BY <1>6, <2>1
  <2>3. Typed(p) /\ SameBegin(p) /\ proc'[p].out = out /\ proc'[p].todo = left
        /\ proc'[p].from = from
    BY <1>5, <1>7, <2>2, OutChanges
  <2> QED BY <2>1, <2>3
<1> QED BY <1>2, <1>3, <1>5, <1>6, <1>8

\* A module found by content is what p would compile.
LEMMA CopyKeptKeeps ==
  ASSUME Inv, NEW p \in Processes, CopyKept(p)
  PROVE  Inv'
<1>1. /\ pc[p] = "copyKept" /\ UNCHANGED <<World, runs, faults, kept, entry, stamps>>
  BY DEF CopyKept
<1>2. CASE Missing(p, kept[Key(p)])
  <2>1. Build(p)
    BY <1>2 DEF CopyKept
  <2> QED BY <1>1, <2>1, BuildKeeps
<1>3. CASE ~Missing(p, kept[Key(p)])
  <2>1. CopyOut(p, kept[Key(p)], "content")
    BY <1>3 DEF CopyKept
  <2>2. runs' \in 0 .. MaxRuns /\ faults' \in 0 .. MaxFaults
    BY <1>1, FaultCounted DEF Inv, Shared
  <2>3. TypeOK /\ p \in Live /\ ReadsSeen(p) /\ KnowsProgram(p)
          /\ proc[p].read \in Reads /\ proc[p].todo \subseteq Modules
    BY <1>1, Running
  <2>4. /\ ProgramRead(proc[p].read) /\ RunCacheApplies(proc[p].read) /\ proc[p].todo # {}
        /\ \A m \in Modules \ proc[p].todo : proc[p].out[m] = Compile(m, proc[p].read)
    BY <1>1, <2>3 DEF KnowsProgram, Building
  <2>5. Key(p) \in Keys /\ kept[Key(p)] \in Directories
    <3>1. "main" \in Modules
      BY DEF Modules
    <3>2. RunCacheKey(proc[p].read) \in Keys
      BY <2>3, <2>4, <3>1, KeyNamesAll
    <3> QED BY <2>3, <3>2 DEF Key, TypeOK
  <2>6. PICK m : m = First(proc[p].todo)
    OBVIOUS
  <2>7. /\ m \in proc[p].todo /\ m \in Modules
        /\ Typed(p) /\ SameBegin(p) /\ seen' = seen
        /\ proc'[p].out[m] = kept[Key(p)].modules[m]
        /\ \A n \in Modules : n # m => proc'[p].out[n] = proc[p].out[n]
        /\ proc'[p].todo = proc[p].todo \ {m}
        /\ Goto(p, IF proc[p].todo \ {m} = {} THEN "run" ELSE pc[p])
    <3>1. "content" \in {"entry", "content"}
      OBVIOUS
    <3> QED BY <2>1, <2>3, <2>4, <2>5, <2>6, <3>1, CopyOutEffect
  <2>8. kept[Key(p)].modules[m] = Compile(m, proc[p].read)
    <3>1. kept[Key(p)].modules[m] \in
            {NoBeam, Compile(m, [NothingRead EXCEPT !.entry = Key(p)[1], !.lib = Key(p)[3]])}
      BY <2>5, <2>7 DEF Inv, Shared, KeptRight
    <3>2. Compile(m, [NothingRead EXCEPT !.entry = Key(p)[1], !.lib = Key(p)[3]])
            = Compile(m, proc[p].read)
      BY <2>3, <2>4, <2>7, KeyNamesAll DEF Key
    <3> QED BY <1>3, <2>6, <3>1, <3>2 DEF Missing
  <2>9. \A n \in Modules \ proc'[p].todo : proc'[p].out[n] = Compile(n, proc[p].read)
    BY <2>4, <2>7, <2>8
  <2>10. PICK label : label = IF proc[p].todo \ {m} = {} THEN "run" ELSE "copyKept"
    OBVIOUS
  <2>11. Goto(p, label)
    BY <1>1, <2>7, <2>10
  <2>12. label \in Labels \ {"idle", "gone"} /\ label \notin StoringEntry
           /\ label \notin {"loadEntry", "copyEntry"}
    BY <2>10 DEF Labels, Building, StoringEntry
  <2>13. ReadsSeen(p)'
    BY <1>1, <2>3, <2>7, SeenStays
  <2>14. pc'[p] = label
    BY <2>3, <2>11 DEF Goto, TypeOK
  <2>15. KnowsProgram(p)'
    <3>1. proc'[p].read = proc[p].read
      BY <2>7 DEF SameBegin
    <3>2. CASE label = "run"
      BY <2>14, <3>2 DEF KnowsProgram, Building, StoringKept, StoringEntry
    <3>3. CASE label = "copyKept" /\ proc'[p].todo # {}
      BY <2>4, <2>9, <2>14, <3>1, <3>3 DEF KnowsProgram, Building, StoringKept, StoringEntry
    <3> QED BY <2>7, <2>10, <3>2, <3>3
  <2>16. label = "run" => Answers(p)'
    <3> SUFFICES ASSUME label = "run" PROVE Answers(p)'
      OBVIOUS
    <3>1. proc'[p].todo = {}
      BY <2>7, <2>10
    <3>2. Compiled(proc[p].read) \in [Modules -> Beams]
            /\ \A n \in Modules : Compiled(proc[p].read)[n] = Compile(n, proc[p].read)
      BY <2>3, CompileTyped
    <3>3. proc'[p].out \in [Modules -> Beams]
      BY <2>7 DEF Typed, Locals
    <3>4. proc'[p].out = Compiled(proc[p].read)
      BY <2>9, <3>1, <3>2, <3>3
    <3> QED BY <2>3, <2>4, <2>7, <3>4, AnswerHolds
  <2>17. UNCHANGED World /\ UNCHANGED <<kept, entry, stamps, seen>>
    BY <1>1, <2>7
  <2> QED BY <2>2, <2>3, <2>7, <2>11, <2>12, <2>13, <2>15, <2>16, <2>17, QuietRun
<1> QED BY <1>2, <1>3

\* An entry whose list was there has names, unless another process meddled.
LEMMA LoadEntryKeeps ==
  ASSUME Inv, NEW p \in Processes, LoadEntry(p)
  PROVE  Inv'
<1>1. /\ pc[p] = "loadEntry" /\ UNCHANGED <<World, runs, faults, kept, entry, stamps>>
  BY DEF LoadEntry
<1>2. runs' \in 0 .. MaxRuns /\ faults' \in 0 .. MaxFaults
  BY <1>1, FaultCounted DEF Inv, Shared
<1>3. TypeOK /\ p \in Live /\ ReadsSeen(p) /\ KnowsProgram(p) /\ LoadsEntry(p)
  BY <1>1, Running
<1>4. CASE ~entry.names
  <2>1. End(p, "gone")
    BY <1>4 DEF LoadEntry, Gone
  <2>2. clashed'
    BY <1>1, <1>3, <1>4, <2>1 DEF LoadsEntry, End, Goto
  <2> QED BY <1>1, <1>2, <2>1, <2>2, EndKeeps
<1>5. CASE entry.names
  <2>1. /\ proc' = [proc EXCEPT ![p].todo = Modules] /\ Goto(p, "copyEntry") /\ seen' = seen
    BY <1>5 DEF LoadEntry
  <2>2. Typed(p) /\ SameBegin(p) /\ proc'[p].todo = Modules
    BY <1>3, <2>1, TodoChanges
  <2>3. "copyEntry" \in Labels \ {"idle", "gone"} /\ "copyEntry" \notin StoringEntry
          /\ "copyEntry" # "run"
    BY DEF Labels, StoringEntry
  <2>4. ReadsSeen(p)'
    BY <1>1, <1>3, <2>1, <2>2, SeenStays
  <2>5. pc'[p] = "copyEntry" /\ (clashed => clashed')
    BY <1>3, <2>1 DEF Goto, TypeOK
  <2>6. KnowsProgram(p)'
    <3>1. EntryRead(proc[p].read)
      BY <1>1, <1>3 DEF KnowsProgram
    <3> QED BY <2>2, <2>5, <3>1
          DEF KnowsProgram, Building, StoringKept, StoringEntry, SameBegin, Modules
  <2>7. LoadsEntry(p)'
    <3> SUFFICES ASSUME ~clashed' PROVE LoadsEntry(p)'
      BY DEF LoadsEntry
    <3>1. /\ entry.names /\ WholeProgram(entry.modules)
          /\ RemoveAnytime \/ FreshFor(p, entry.modules)
      BY <1>1, <1>3, <2>5 DEF LoadsEntry
    <3>2. entry' = entry /\ seen' = seen /\ Modules \ proc'[p].todo = {}
      BY <1>1, <2>1, <2>2
    <3> QED BY <2>5, <3>1, <3>2 DEF LoadsEntry, WholeProgram, FreshFor
  <2>8. UNCHANGED World /\ UNCHANGED <<kept, entry, stamps, seen>>
    BY <1>1, <2>1
  <2> QED BY <1>2, <1>3, <2>1, <2>2, <2>3, <2>4, <2>6, <2>7, <2>8, QuietRun
<1> QED BY <1>4, <1>5

\* Of an entry that was current all modules are copied, unless another process
\* meddled.
LEMMA CopyEntryKeeps ==
  ASSUME Inv, NEW p \in Processes, CopyEntry(p)
  PROVE  Inv'
<1>1. /\ pc[p] = "copyEntry" /\ UNCHANGED <<World, runs, faults, kept, entry, stamps>>
  BY DEF CopyEntry
<1>2. runs' \in 0 .. MaxRuns /\ faults' \in 0 .. MaxFaults
  BY <1>1, FaultCounted DEF Inv, Shared
<1>3. TypeOK /\ p \in Live /\ ReadsSeen(p) /\ KnowsProgram(p) /\ LoadsEntry(p)
        /\ proc[p].todo \subseteq Modules /\ entry \in Directories
  BY <1>1, Running DEF TypeOK
<1>4. EntryRead(proc[p].read) /\ proc[p].todo # {}
  BY <1>1, <1>3 DEF KnowsProgram
<1>5. PICK m : m = First(proc[p].todo)
  OBVIOUS
<1>6. m \in proc[p].todo /\ m \in Modules
  BY <1>3, <1>4, <1>5, FirstToDo
<1>7. CASE Missing(p, entry)
  <2>1. End(p, "gone")
    BY <1>7 DEF CopyEntry, Gone
  <2>2. clashed
    BY <1>1, <1>3, <1>5, <1>6, <1>7 DEF LoadsEntry, WholeProgram, Missing
  <2>3. clashed'
    BY <2>1, <2>2 DEF End, Goto
  <2> QED BY <1>1, <1>2, <2>1, <2>3, EndKeeps
<1>8. CASE ~Missing(p, entry)
  <2>1. CopyOut(p, entry, "entry")
    BY <1>8 DEF CopyEntry
  <2>2. /\ Typed(p) /\ SameBegin(p) /\ seen' = seen /\ proc'[p].from = "entry"
        /\ proc'[p].out[m] = entry.modules[m]
        /\ \A n \in Modules : n # m => proc'[p].out[n] = proc[p].out[n]
        /\ proc'[p].todo = proc[p].todo \ {m}
        /\ Goto(p, IF proc[p].todo \ {m} = {} THEN "run" ELSE pc[p])
    <3>1. "entry" \in {"entry", "content"}
      OBVIOUS
    <3> QED BY <1>3, <1>4, <1>5, <2>1, <3>1, CopyOutEffect
  <2>3. PICK label : label = IF proc[p].todo \ {m} = {} THEN "run" ELSE "copyEntry"
    OBVIOUS
  <2>4. Goto(p, label)
    BY <1>1, <2>2, <2>3
  <2>5. label \in Labels \ {"idle", "gone"} /\ label \notin StoringEntry
    BY <2>3 DEF Labels, StoringEntry
  <2>6. ReadsSeen(p)'
    BY <1>1, <1>3, <2>2, SeenStays
  <2>7. pc'[p] = label /\ (clashed => clashed')
    BY <1>3, <2>4 DEF Goto, TypeOK
  <2>8. KnowsProgram(p)'
    <3>1. proc'[p].read = proc[p].read
      BY <2>2 DEF SameBegin
    <3>2. CASE label = "run"
      BY <2>7, <3>2 DEF KnowsProgram, Building, StoringKept, StoringEntry
    <3>3. CASE label = "copyEntry" /\ proc'[p].todo # {}
      BY <1>4, <2>7, <3>1, <3>3 DEF KnowsProgram, Building, StoringKept, StoringEntry
    <3> QED BY <2>2, <2>3, <3>2, <3>3
  <2>9. clashed' \/
           /\ entry.names /\ WholeProgram(entry.modules)
           /\ RemoveAnytime \/ FreshFor(p, entry.modules)
           /\ \A n \in Modules \ proc[p].todo : proc[p].out[n] = entry.modules[n]
    BY <1>1, <1>3, <2>7 DEF LoadsEntry
  <2>10. clashed' \/ \A n \in Modules \ proc'[p].todo : proc'[p].out[n] = entry.modules[n]
    BY <2>2, <2>9
  <2>11. label \in {"loadEntry", "copyEntry"} => LoadsEntry(p)'
    <3> SUFFICES ASSUME ~clashed' PROVE LoadsEntry(p)'
      BY DEF LoadsEntry
    <3>1. entry' = entry /\ seen' = seen
      BY <1>1, <2>2
    <3> QED BY <2>9, <2>10, <3>1 DEF LoadsEntry, WholeProgram, FreshFor
  <2>12. label = "run" => Answers(p)'
    <3> SUFFICES ASSUME label = "run", p \in Answered' PROVE Answers(p)'
      BY DEF Answers
    <3>1. ~clashed' /\ proc'[p].todo = {}
      BY <2>2, <2>3 DEF Answered
    <3>2. proc'[p].out \in [Modules -> Beams] /\ entry.modules \in [Modules -> Beams]
      BY <1>3, <2>2 DEF Typed, Locals, Directories
    <3>3. proc'[p].out = entry.modules
      BY <2>10, <3>1, <3>2
    <3>4. WholeProgram(entry.modules) /\ (RemoveAnytime \/ FreshFor(p, entry.modules))
      BY <2>9, <3>1
    <3> QED BY <2>2, <3>3, <3>4 DEF Answers, UsesFresh, WholeProgram, FreshFor
  <2>13. UNCHANGED World /\ UNCHANGED <<kept, entry, stamps, seen>>
    BY <1>1, <2>2
  <2> QED BY <1>2, <1>3, <2>2, <2>4, <2>5, <2>6, <2>8, <2>11, <2>12, <2>13, QuietRun
<1> QED BY <1>7, <1>8

-----------------------------------------------------------------------------
(* What a build leaves in the caches.                                      *)

\* What a step that stores one module does to the locals.
LEMMA StoreNextEffect ==
  ASSUME TypeOK, NEW p \in Processes, NEW here, NEW after, StoreNext(p, here, after),
         proc[p].todo # {}
  PROVE  LET m == First(proc[p].todo) IN
         /\ m \in proc[p].todo /\ m \in Modules
         /\ Typed(p) /\ SameBegin(p) /\ proc'[p].out = proc[p].out
         /\ proc'[p].stamps = proc[p].stamps
         /\ proc'[p].todo = proc[p].todo \ {m}
         /\ Goto(p, IF proc[p].todo \ {m} = {} THEN after ELSE here)
<1>1. proc[p].todo \in SUBSET Modules
  BY DEF TypeOK
<1>2. PICK m : m = First(proc[p].todo)
  OBVIOUS
<1>3. m \in proc[p].todo /\ m \in Modules
  BY <1>1, <1>2, FirstToDo
<1>4. PICK left \in SUBSET Modules : left = proc[p].todo \ {m}
  BY <1>1
<1>5. /\ proc' = [proc EXCEPT ![p].todo = left]
      /\ Goto(p, IF left = {} THEN after ELSE here)
  BY <1>2, <1>4 DEF StoreNext
<1>6. /\ Typed(p) /\ SameBegin(p) /\ proc'[p].todo = left /\ proc'[p].out = proc[p].out
      /\ proc'[p].stamps = proc[p].stamps
  BY <1>5, TodoChanges
<1> QED BY <1>2, <1>3, <1>4, <1>5, <1>6

\* A directory with one more of p's modules.
LEMMA StoredEffect ==
  ASSUME TypeOK, NEW p \in Processes, NEW dir \in Directories, proc[p].todo # {}
  PROVE  LET m == First(proc[p].todo) IN
         /\ Stored(dir, p) \in Directories /\ Stored(dir, p).names = dir.names
         /\ Stored(dir, p).modules[m] = proc[p].out[m]
         /\ \A n \in Modules : n # m => Stored(dir, p).modules[n] = dir.modules[n]
<1>1. proc[p].todo \in SUBSET Modules /\ proc[p].out \in [Modules -> Beams]
  BY DEF TypeOK
<1>2. PICK m : m = First(proc[p].todo)
  OBVIOUS
<1>3. m \in Modules
  BY <1>1, <1>2, FirstToDo
<1>4. PICK modules : modules = [dir.modules EXCEPT ![m] = proc[p].out[m]]
  OBVIOUS
<1>5. /\ modules \in [Modules -> Beams] /\ modules[m] = proc[p].out[m]
      /\ \A n \in Modules : n # m => modules[n] = dir.modules[n]
  BY <1>1, <1>3, <1>4 DEF Directories
<1>6. Stored(dir, p) = [dir EXCEPT !.modules = modules]
  BY <1>2, <1>4 DEF Stored
<1>7. Stored(dir, p) \in Directories /\ Stored(dir, p).names = dir.names
        /\ Stored(dir, p).modules = modules
  BY <1>5, <1>6 DEF Directories
<1> QED BY <1>2, <1>5, <1>7

\* A step of a run that writes to the content cache: what has to be shown of it.
LEMMA KeptRun ==
  ASSUME Inv, NEW p \in Processes, p \in Live, NEW label \in Labels \ {"idle", "gone"},
         Goto(p, label), UNCHANGED World, UNCHANGED <<entry, stamps, seen>>,
         runs' \in 0 .. MaxRuns, faults' \in 0 .. MaxFaults, Typed(p),
         kept' \in [Keys -> Directories], KeptRight',
         label \notin StoringEntry \cup {"loadEntry", "copyEntry"},
         ReadsSeen(p)', KnowsProgram(p)', Answers(p)'
  PROVE  Inv'
<1> USE DEF Inv, Shared
<1>1. Moves(p, label) /\ pc'[p] = label
  BY GoesMoves DEF Typed
<1>2. entry' = entry /\ stamps' = stamps /\ seen' = seen
  OBVIOUS
<1>3. TypeOK'
  <2>1. /\ entry' \in Directories
        /\ stamps' \in Lists /\ (stamps' # NoStamps => "entry" \in DOMAIN stamps')
        /\ seen' \in [Processes -> [Parts -> SUBSET Values]]
        /\ seen'[p] # NothingSeen
    BY <1>2 DEF TypeOK
  <2>2. proc' \in [Processes -> Locals] /\ label \notin {"idle", "gone"}
    BY DEF Typed
  <2> QED BY <1>1, <2>1, <2>2, StepTyped
<1>4. CurrentLoads'
  <2> SUFFICES ASSUME NEW q \in Processes, pc'[q] = "gone" PROVE clashed'
    BY DEF CurrentLoads
  <2>1. pc'[q] = IF q = p THEN label ELSE pc[q]
    BY <1>1 DEF Moves, TypeOK
  <2> QED BY <1>1, <2>1 DEF CurrentLoads, Moves
<1>5. clashed' \/ EntryRight'
  <2>1. EntryRight => EntryRight'
    BY <1>1, <1>2 DEF EntryRight, Listed, Vouches, FileStamp, Moves
  <2> QED BY <1>1, <2>1 DEF Moves
<1>6. Own(p)'
  BY <1>1 DEF Own, StoresEntry, LoadsEntry
<1> QED BY <1>1, <1>2, <1>3, <1>4, <1>5, <1>6, StepKeeps

\* Whoever stores by content has compiled what the key stands for.
LEMMA StoreKeptKeeps ==
  ASSUME Inv, NEW p \in Processes, StoreKept(p)
  PROVE  Inv'
<1>1. /\ pc[p] = "storeKept" /\ UNCHANGED <<World, runs, faults, entry, stamps, seen>>
      /\ kept' = [kept EXCEPT ![Key(p)] = Stored(@, p)]
      /\ StoreNext(p, "storeKept", "nameKept")
  BY DEF StoreKept
<1>2. runs' \in 0 .. MaxRuns /\ faults' \in 0 .. MaxFaults
  BY <1>1, FaultCounted DEF Inv, Shared
<1>3. TypeOK /\ p \in Live /\ ReadsSeen(p) /\ KnowsProgram(p) /\ proc[p].read \in Reads
  BY <1>1, Running
<1>4. /\ ProgramRead(proc[p].read) /\ RunCacheApplies(proc[p].read) /\ proc[p].todo # {}
      /\ proc[p].out = Compiled(proc[p].read)
  BY <1>1, <1>3 DEF KnowsProgram, Building, StoringKept
<1>5. PICK m : m = First(proc[p].todo)
  OBVIOUS
<1>6. /\ m \in proc[p].todo /\ m \in Modules
      /\ Typed(p) /\ SameBegin(p) /\ proc'[p].out = proc[p].out
      /\ proc'[p].todo = proc[p].todo \ {m}
      /\ Goto(p, IF proc[p].todo \ {m} = {} THEN "nameKept" ELSE "storeKept")
  BY <1>1, <1>3, <1>4, <1>5, StoreNextEffect
<1>7. PICK label : label = IF proc[p].todo \ {m} = {} THEN "nameKept" ELSE "storeKept"
  OBVIOUS
<1>8. Goto(p, label) /\ pc'[p] = label
  BY <1>3, <1>6, <1>7 DEF Goto, TypeOK
<1>9. Key(p) \in Keys /\ kept[Key(p)] \in Directories
  BY <1>3, <1>4, <1>6, KeyNamesAll DEF Key, TypeOK
<1>10. PICK dir \in Directories : dir = Stored(kept[Key(p)], p)
  BY <1>3, <1>4, <1>9, StoredEffect
<1>11. /\ dir.modules[m] = proc[p].out[m]
       /\ \A n \in Modules : n # m => dir.modules[n] = kept[Key(p)].modules[n]
  BY <1>3, <1>4, <1>5, <1>9, <1>10, StoredEffect
<1>12. kept' = [kept EXCEPT ![Key(p)] = dir]
  BY <1>1, <1>10
<1>13. kept' \in [Keys -> Directories]
  BY <1>3, <1>9, <1>12 DEF TypeOK
<1>14. KeptRight'
  <2> SUFFICES ASSUME NEW k \in Keys, NEW n \in Modules
               PROVE  kept'[k].modules[n] \in
                        {NoBeam, Compile(n, [NothingRead EXCEPT !.entry = k[1], !.lib = k[3]])}
    BY DEF KeptRight
  <2>1. KeptRight
    BY DEF Inv, Shared
  <2>2. CASE k = Key(p) /\ n = m
    <3>1. kept'[k].modules[n] = Compile(m, proc[p].read)
      BY <1>3, <1>4, <1>6, <1>9, <1>11, <1>12, <2>2, CompileTyped DEF TypeOK
    <3>2. Compile(m, [NothingRead EXCEPT !.entry = Key(p)[1], !.lib = Key(p)[3]])
            = Compile(m, proc[p].read)
      BY <1>3, <1>4, <1>6, KeyNamesAll DEF Key
    <3> QED BY <2>2, <3>1, <3>2
  <2>3. CASE ~(k = Key(p) /\ n = m)
    <3>1. kept'[k].modules[n] = kept[k].modules[n]
      BY <1>3, <1>9, <1>11, <1>12, <2>3 DEF TypeOK
    <3> QED BY <2>1, <3>1 DEF KeptRight
  <2> QED BY <2>2, <2>3
<1>15. label \in Labels \ {"idle", "gone"} /\ label # "run"
         /\ label \notin StoringEntry \cup {"loadEntry", "copyEntry"}
  BY <1>7 DEF Labels, Building, StoringKept, StoringEntry
<1>16. ReadsSeen(p)'
  BY <1>1, <1>3, <1>6, SeenStays
<1>17. KnowsProgram(p)'
  <2>1. proc'[p].read = proc[p].read /\ proc'[p].out = Compiled(proc'[p].read)
          /\ (label = "storeKept" => proc'[p].todo # {})
    BY <1>4, <1>6, <1>7 DEF SameBegin
  <2>2. label \in {"storeKept", "nameKept"}
    BY <1>7
  <2> QED BY <1>4, <1>8, <2>1, <2>2 DEF KnowsProgram, Building, StoringKept, StoringEntry
<1>18. Answers(p)'
  BY <1>8, <1>15 DEF Answers, Answered
<1>19. UNCHANGED World /\ UNCHANGED <<entry, stamps, seen>>
  BY <1>1
<1> QED BY <1>2, <1>3, <1>6, <1>8, <1>13, <1>14, <1>15, <1>16, <1>17, <1>18, <1>19, KeptRun

\* After its store by content, whether or not that went well, a run starts or
\* stores its entry too.
LEMMA AfterKeptKeeps ==
  ASSUME Inv, NEW p \in Processes, pc[p] \in StoringKept, Goto(p, AfterKept(p)),
         UNCHANGED <<World, proc, entry, stamps, seen>>,
         runs' \in 0 .. MaxRuns, faults' \in 0 .. MaxFaults,
         kept' \in [Keys -> Directories], KeptRight'
  PROVE  Inv'
<1>1. TypeOK /\ p \in Live /\ ReadsSeen(p) /\ KnowsProgram(p) /\ proc[p].read \in Reads
  BY Running DEF StoringKept
<1>2. /\ ProgramRead(proc[p].read) /\ RunCacheApplies(proc[p].read)
      /\ proc[p].out = Compiled(proc[p].read)
  BY <1>1 DEF KnowsProgram, Building, StoringKept
<1>3. PICK label : label = AfterKept(p)
  OBVIOUS
<1>4. Goto(p, label) /\ pc'[p] = label
  BY <1>1, <1>3 DEF Goto, TypeOK
<1>5. label \in {"run", "vouch"} /\ (label = "vouch" => ~ReachedOutside(proc[p].read))
  BY <1>3 DEF AfterKept
<1>6. label \in Labels \ {"idle", "gone"}
        /\ label \notin StoringEntry \cup {"loadEntry", "copyEntry"}
  BY <1>5 DEF Labels, Building, StoringEntry
<1>7. Typed(p) /\ SameBegin(p)
  BY <1>1, LocalsStay
<1>8. ReadsSeen(p)'
  BY <1>1, <1>7, SeenStays
<1>9. proc' = proc
  OBVIOUS
<1>10. KnowsProgram(p)'
  BY <1>2, <1>4, <1>5, <1>9 DEF KnowsProgram, Building, StoringKept, StoringEntry
<1>11. Answers(p)'
  BY <1>1, <1>2, <1>9, AnswerHolds
<1>12. UNCHANGED World /\ UNCHANGED <<entry, stamps, seen>>
  OBVIOUS
<1> QED BY <1>1, <1>4, <1>6, <1>7, <1>8, <1>10, <1>11, <1>12, KeptRun

LEMMA NameKeptKeeps ==
  ASSUME Inv, NEW p \in Processes, NameKept(p)
  PROVE  Inv'
<1>1. /\ pc[p] \in StoringKept
      /\ UNCHANGED <<World, proc, entry, stamps, seen>> /\ Goto(p, AfterKept(p))
      /\ kept' = [kept EXCEPT ![Key(p)].names = TRUE]
  BY DEF NameKept, StoringKept
<1>2. runs' \in 0 .. MaxRuns /\ faults' \in 0 .. MaxFaults
  BY FaultCounted DEF Inv, Shared, NameKept
<1>3. kept \in [Keys -> Directories] /\ KeptRight
  BY DEF Inv, Shared, TypeOK
<1>4. ASSUME NEW k \in Keys
      PROVE  kept'[k] \in Directories /\ kept'[k].modules = kept[k].modules
  <2>1. kept[k] \in Directories
    BY <1>3
  <2>2. CASE k = Key(p)
    <3>1. PICK dir : dir = [kept[k] EXCEPT !.names = TRUE]
      OBVIOUS
    <3>2. dir \in Directories /\ dir.modules = kept[k].modules
      BY <2>1, <3>1 DEF Directories
    <3>3. kept'[k] = dir
      BY <1>1, <1>3, <2>2, <3>1
    <3> QED BY <3>2, <3>3
  <2>3. CASE k # Key(p)
    BY <1>1, <1>3, <2>1, <2>3
  <2> QED BY <2>2, <2>3
<1>5. kept' \in [Keys -> Directories]
  <2>1. kept' = [k \in Keys |-> kept'[k]]
    BY <1>1, <1>3
  <2> QED BY <1>4, <2>1
<1>6. KeptRight'
  BY <1>3, <1>4 DEF KeptRight
<1> QED BY <1>1, <1>2, <1>5, <1>6, AfterKeptKeeps

LEMMA StoreKeptFailsKeeps ==
  ASSUME Inv, NEW p \in Processes, StoreKeptFails(p)
  PROVE  Inv'
<1>1. /\ pc[p] \in StoringKept /\ Goto(p, AfterKept(p))
      /\ UNCHANGED <<World, proc, entry, stamps, seen>> /\ kept' = kept
  BY DEF StoreKeptFails, StoringKept
<1>2. runs' \in 0 .. MaxRuns /\ faults' \in 0 .. MaxFaults
  BY FaultCounted DEF Inv, Shared, StoreKeptFails
<1>3. kept' \in [Keys -> Directories] /\ KeptRight'
  BY <1>1 DEF Inv, Shared, TypeOK, KeptRight
<1> QED BY <1>1, <1>2, <1>3, AfterKeptKeeps

\* What is known of a run whose program is compiled.
LEMMA Built ==
  ASSUME Inv, NEW p \in Processes, pc[p] \in StoringEntry \cup {"vouch"}
  PROVE  /\ TypeOK /\ p \in Live /\ ReadsSeen(p) /\ KnowsProgram(p) /\ StoresEntry(p)
         /\ proc[p].read \in Reads /\ ProgramRead(proc[p].read)
         /\ ~ReachedOutside(proc[p].read) /\ proc[p].out = Compiled(proc[p].read)
         /\ proc[p].out \in [Modules -> Beams] /\ proc[p].todo \subseteq Modules
         /\ proc[p].stamps \in Lists
<1>1. pc[p] \notin {"idle", "gone"}
  BY DEF StoringEntry
<1>2. /\ TypeOK /\ p \in Live /\ ReadsSeen(p) /\ KnowsProgram(p) /\ StoresEntry(p)
      /\ proc[p].read \in Reads /\ proc[p] \in Locals
      /\ proc[p].out \in [Modules -> Beams] /\ proc[p].todo \subseteq Modules
  BY <1>1, Running
<1>3. pc[p] \in Building /\ pc[p] \in Building \ {"loadKept", "copyKept"}
  BY DEF Building, StoringEntry
<1>4. /\ ProgramRead(proc[p].read) /\ ~ReachedOutside(proc[p].read)
      /\ proc[p].out = Compiled(proc[p].read)
  BY <1>2, <1>3 DEF KnowsProgram
<1>5. proc[p].stamps \in Lists
  BY <1>2 DEF Locals
<1> QED BY <1>2, <1>4, <1>5

\* The stamps of files that are as they were read vouch for them.
LEMMA VouchKeeps ==
  ASSUME Inv, NEW p \in Processes, Vouch(p)
  PROVE  Inv'
<1>1. /\ pc[p] = "vouch" /\ UNCHANGED <<World, runs, faults, kept, entry, stamps, seen>>
  BY DEF Vouch
<1>2. runs' \in 0 .. MaxRuns /\ faults' \in 0 .. MaxFaults
  BY <1>1, FaultCounted DEF Inv, Shared
<1>3. /\ TypeOK /\ p \in Live /\ ReadsSeen(p)
      /\ proc[p].read \in Reads /\ ProgramRead(proc[p].read)
      /\ ~ReachedOutside(proc[p].read) /\ proc[p].out = Compiled(proc[p].read)
  BY <1>1, Built
<1>4. PICK read : read = proc[p].read
  OBVIOUS
<1>5. PICK files : files = RunManifestFiles(read)
  OBVIOUS
<1>6. files \subseteq Sources /\ "entry" \in files
  BY <1>3, <1>4, <1>5 DEF RunManifestFiles, Sources, ProgramRead, EntryRead, Reads
<1>7. CASE \E f \in files : disk[f].holds # None /\ disk[f].modified > proc[p].since
  <2>1. Goto(p, "run") /\ proc' = proc
    BY <1>4, <1>5, <1>7 DEF Vouch
  <2>2. "run" \in Labels \ {"idle", "gone"} /\ "run" \notin StoringEntry
          /\ "run" \notin {"loadEntry", "copyEntry"}
    BY DEF Labels, StoringEntry
  <2>3. Typed(p) /\ SameBegin(p)
    BY <1>3, <2>1, LocalsStay
  <2>4. ReadsSeen(p)'
    BY <1>1, <1>3, <2>3, SeenStays
  <2>5. pc'[p] = "run"
    BY <1>3, <2>1 DEF Goto, TypeOK
  <2>6. KnowsProgram(p)'
    BY <2>5 DEF KnowsProgram, Building, StoringKept, StoringEntry
  <2>7. Answers(p)'
    BY <1>1, <1>3, <2>1, AnswerHolds
  <2>8. UNCHANGED World /\ UNCHANGED <<kept, entry, stamps, seen>>
    BY <1>1
  <2> QED BY <1>2, <1>3, <2>1, <2>2, <2>3, <2>4, <2>6, <2>7, <2>8, QuietRun
<1>8. CASE ~\E f \in files : disk[f].holds # None /\ disk[f].modified > proc[p].since
  <2>1. PICK list : list = [f \in files |-> FileStamp(f)]
    OBVIOUS
  <2>2. Goto(p, "unlist") /\ proc' = [proc EXCEPT ![p].stamps = list]
    BY <1>4, <1>5, <1>8, <2>1 DEF Vouch
  <2>3. \A f \in files : FileStamp(f) \in -1 .. now /\ disk[f].modified \in Nat
    BY <1>3, <1>6, RunCacheAssumption DEF FileStamp, TypeOK
  <2>4. list \in Lists
    <3>1. now \in 0 .. MaxEdits /\ MaxEdits \in Nat
      BY <1>3, RunCacheAssumption DEF TypeOK
    <3>2. \A f \in files : FileStamp(f) \in -1 .. MaxEdits
      BY <2>3, <3>1
    <3>3. list \in [files -> -1 .. MaxEdits]
      BY <2>1, <3>2
    <3> QED BY <1>6, <3>3 DEF Lists
  <2>5. Typed(p) /\ SameBegin(p) /\ proc'[p].out = proc[p].out /\ proc'[p].stamps = list
    BY <1>3, <2>2, <2>4, StampsChange
  <2>6. "unlist" \in Labels \ {"idle", "gone"} /\ "unlist" # "run"
          /\ "unlist" \notin {"loadEntry", "copyEntry"}
    BY DEF Labels, Building, StoringEntry
  <2>7. ReadsSeen(p)'
    BY <1>1, <1>3, <2>5, SeenStays
  <2>8. pc'[p] = "unlist"
    BY <1>3, <2>2 DEF Goto, TypeOK
  <2>9. proc'[p].read = read
    BY <1>4, <2>5 DEF SameBegin
  <2>10. KnowsProgram(p)'
    BY <1>3, <1>4, <2>5, <2>8, <2>9 DEF KnowsProgram, Building, StoringKept, StoringEntry
  <2>11. StoresEntry(p)'
    <3>1. ASSUME ~RemoveAnytime, NEW f \in files
          PROVE  /\ list[f] <= now /\ Agrees(read, f, disk[f].holds)
                 /\ list[f] = -1 => Agrees(read, f, None)
      <4>1. disk[f].holds = None \/ disk[f].modified <= proc[p].since
        <5>1. proc[p].since \in Nat
          BY <1>3 DEF TypeOK
        <5> QED BY <1>8, <2>3, <5>1
      <4>2. Agrees(read, f, disk[f].holds)
        BY <1>3, <1>4, <1>6, <3>1, <4>1 DEF ReadsSeen
      <4>3. list[f] = -1 => disk[f].holds = None
        BY <2>1, <2>3 DEF FileStamp
      <4>4. list[f] <= now
        BY <1>3, <2>1, <2>3 DEF TypeOK
      <4> QED BY <4>2, <4>3, <4>4
    <3>2. DOMAIN list = RunManifestFiles(read)
      BY <1>5, <2>1
    <3>3. disk' = disk /\ now' = now
      BY <1>1 DEF World
    <3>4. RemoveAnytime \/ \A f \in DOMAIN list :
            /\ list[f] <= now'
            /\ list[f] = -1 => Agrees(read, f, None)
            /\ Agrees(read, f, disk'[f].holds)
      BY <1>5, <3>1, <3>2, <3>3
    <3>5. Listed(proc[p].stamps, proc[p].read)'
      BY <2>5, <2>9, <3>2, <3>4 DEF Listed, Vouches
    <3> QED BY <2>8, <3>5 DEF StoresEntry
  <2>12. UNCHANGED World /\ UNCHANGED <<kept, entry, stamps, seen>>
    BY <1>1
  <2> QED BY <1>2, <1>3, <2>2, <2>5, <2>6, <2>7, <2>10, <2>11, <2>12, QuietRun
<1> QED BY <1>7, <1>8

\* A step of a run that writes to the entry's directory: what has to be shown of
\* it.
LEMMA EntryRun ==
  ASSUME Inv, NEW p \in Processes, pc[p] \in StoringEntry,
         NEW label \in {"storeEntry", "nameEntry", "list", "run"},
         Goto(p, label), UNCHANGED World, UNCHANGED <<kept, seen>>,
         runs' \in 0 .. MaxRuns, faults' \in 0 .. MaxFaults, Typed(p), SameBegin(p),
         proc'[p].out = proc[p].out,
         label = "storeEntry" => proc'[p].todo # {},
         entry' \in Directories,
         stamps' \in Lists, stamps' # NoStamps => "entry" \in DOMAIN stamps',
         clashed' \/ EntryRight',
         label # "run" => StoresEntry(p)'
  PROVE  Inv'
<1>1. /\ TypeOK /\ p \in Live /\ ReadsSeen(p)
      /\ proc[p].read \in Reads /\ ProgramRead(proc[p].read)
      /\ ~ReachedOutside(proc[p].read) /\ proc[p].out = Compiled(proc[p].read)
  BY Built
<1>2. label \in Labels /\ label \notin {"idle", "gone", "loadEntry", "copyEntry"}
        /\ (label = "run" => label \notin StoringEntry)
  BY DEF Labels, Building, StoringEntry
<1>3. Moves(p, label) /\ pc'[p] = label
  BY <1>1, <1>2, GoesMoves DEF Typed
<1>4. kept' = kept /\ seen' = seen
  OBVIOUS
<1>5. TypeOK'
  <2>1. /\ kept' \in [Keys -> Directories]
        /\ seen' \in [Processes -> [Parts -> SUBSET Values]]
        /\ seen'[p] # NothingSeen
    BY <1>1, <1>4 DEF TypeOK
  <2>2. proc' \in [Processes -> Locals]
    BY DEF Typed
  <2> QED BY <1>1, <1>2, <1>3, <2>1, <2>2, StepTyped
<1>6. CurrentLoads'
  <2> SUFFICES ASSUME NEW q \in Processes, pc'[q] = "gone" PROVE clashed'
    BY DEF CurrentLoads
  <2>1. pc'[q] = IF q = p THEN label ELSE pc[q]
    BY <1>1, <1>3 DEF Moves, TypeOK
  <2> QED BY <1>2, <1>3, <2>1 DEF CurrentLoads, Moves, Inv, Shared
<1>7. KeptRight'
  BY <1>4 DEF KeptRight, Inv, Shared
<1>8. KnowsProgram(p)'
  <2>1. proc'[p].read = proc[p].read
    BY DEF SameBegin
  <2> QED BY <1>1, <1>3, <2>1 DEF KnowsProgram, Building, StoringKept, StoringEntry
<1>9. StoresEntry(p)' /\ LoadsEntry(p)'
  <2>1. label = "run" => StoresEntry(p)'
    BY <1>2, <1>3 DEF StoresEntry
  <2>2. LoadsEntry(p)'
    BY <1>2, <1>3 DEF LoadsEntry
  <2> QED BY <2>1, <2>2
<1>10. ReadsSeen(p)'
  BY <1>1, <1>4, SeenStays
<1>11. Answers(p)'
  BY <1>1, <1>4, AnswerHolds
<1> QED BY <1>3, <1>5, <1>6, <1>7, <1>8, <1>9, <1>10, <1>11, StepKeeps DEF Own

\* A list of stamps is still that of what was read when only p moved.
LEMMA ListedStays ==
  ASSUME Inv, NEW p \in Processes, pc[p] \in StoringEntry, UNCHANGED World,
         SameBegin(p), proc'[p].stamps = proc[p].stamps
  PROVE  Listed(proc[p].stamps, proc[p].read)'
<1>1. disk' = disk /\ now' = now /\ proc'[p].read = proc[p].read
  BY DEF World, SameBegin
<1>2. Listed(proc[p].stamps, proc[p].read)
  BY Built DEF StoresEntry
<1> QED BY <1>1, <1>2 DEF Listed, Vouches, FileStamp

LEMMA UnlistKeeps ==
  ASSUME Inv, NEW p \in Processes, Unlist(p)
  PROVE  Inv'
<1>1. /\ pc[p] = "unlist" /\ UNCHANGED <<World, runs, faults, kept, entry, seen>>
      /\ stamps' = NoStamps /\ proc' = [proc EXCEPT ![p].todo = Modules]
      /\ Goto(p, "storeEntry")
  BY DEF Unlist
<1>2. runs' \in 0 .. MaxRuns /\ faults' \in 0 .. MaxFaults
  BY <1>1, FaultCounted DEF Inv, Shared
<1>3. pc[p] \in StoringEntry /\ TypeOK
  BY <1>1 DEF StoringEntry, Inv, Shared
<1>4. /\ Typed(p) /\ SameBegin(p) /\ proc'[p].todo = Modules /\ proc'[p].out = proc[p].out
      /\ proc'[p].stamps = proc[p].stamps
  BY <1>1, <1>3, TodoChanges
<1>5. stamps' \in Lists /\ EntryRight'
  BY <1>1, FreshTyped, <1>3 DEF Fresh, Locals, Lists, NoStamps, EntryRight
<1>6. pc'[p] = "storeEntry"
  BY <1>1, <1>3 DEF Goto, TypeOK
<1>7. StoresEntry(p)'
  <2>1. Listed(proc[p].stamps, proc[p].read)'
    BY <1>1, <1>3, <1>4, ListedStays
  <2> QED BY <1>1, <1>4, <1>6, <2>1 DEF StoresEntry
<1>8. entry' \in Directories /\ UNCHANGED World /\ UNCHANGED <<kept, seen>>
  BY <1>1, <1>3 DEF TypeOK
<1>9. proc'[p].todo # {}
  BY <1>4 DEF Modules
<1> QED BY <1>1, <1>2, <1>3, <1>4, <1>5, <1>7, <1>8, <1>9, EntryRun

\* What p knows of the entry while it stores there alone.
LEMMA StoringAlone ==
  ASSUME Inv, NEW p \in Processes, pc[p] \in StoringEntry \ {"unlist"}, NEW label,
         Goto(p, label), ~clashed'
  PROVE  /\ ~clashed /\ stamps = NoStamps
         /\ \A m \in Modules : m \notin proc[p].todo \/ pc[p] # "storeEntry" =>
               entry.modules[m] = Compile(m, proc[p].read)
         /\ pc[p] = "list" => entry.names
<1>1. ~clashed
  BY DEF Goto
<1>2. StoresEntry(p)
  BY Built
<1> QED BY <1>1, <1>2 DEF StoresEntry

LEMMA StoreEntryKeeps ==
  ASSUME Inv, NEW p \in Processes, StoreEntry(p)
  PROVE  Inv'
<1>1. /\ pc[p] = "storeEntry" /\ UNCHANGED <<World, runs, faults, kept, stamps, seen>>
      /\ entry' = Stored(entry, p) /\ StoreNext(p, "storeEntry", "nameEntry")
  BY DEF StoreEntry
<1>2. runs' \in 0 .. MaxRuns /\ faults' \in 0 .. MaxFaults
  BY <1>1, FaultCounted DEF Inv, Shared
<1>3. pc[p] \in StoringEntry
  BY <1>1 DEF StoringEntry
<1>4. /\ TypeOK /\ KnowsProgram(p) /\ proc[p].read \in Reads /\ entry \in Directories
      /\ proc[p].out = Compiled(proc[p].read)
  BY <1>3, Built DEF TypeOK
<1>5. proc[p].todo # {}
  BY <1>1, <1>4 DEF KnowsProgram
<1>6. PICK m : m = First(proc[p].todo)
  OBVIOUS
<1>7. /\ m \in proc[p].todo /\ m \in Modules
      /\ Typed(p) /\ SameBegin(p) /\ proc'[p].out = proc[p].out
      /\ proc'[p].stamps = proc[p].stamps /\ proc'[p].todo = proc[p].todo \ {m}
      /\ Goto(p, IF proc[p].todo \ {m} = {} THEN "nameEntry" ELSE "storeEntry")
  BY <1>1, <1>4, <1>5, <1>6, StoreNextEffect
<1>8. PICK label : label = IF proc[p].todo \ {m} = {} THEN "nameEntry" ELSE "storeEntry"
  OBVIOUS
<1>9. Goto(p, label) /\ pc'[p] = label
  BY <1>4, <1>7, <1>8 DEF Goto, TypeOK
<1>10. /\ entry' \in Directories /\ entry'.names = entry.names
       /\ entry'.modules[m] = proc[p].out[m]
       /\ \A n \in Modules : n # m => entry'.modules[n] = entry.modules[n]
  BY <1>1, <1>4, <1>5, <1>6, StoredEffect
<1>11. ~clashed' =>
          /\ stamps = NoStamps
          /\ \A n \in Modules : n \notin proc[p].todo => entry.modules[n] = Compile(n, proc[p].read)
  BY <1>1, <1>3, <1>9, StoringAlone
<1>12. clashed' \/ EntryRight'
  BY <1>1, <1>11 DEF EntryRight
<1>13. StoresEntry(p)'
  <2>1. Listed(proc[p].stamps, proc[p].read)'
    BY <1>1, <1>3, <1>7, ListedStays
  <2>2. ASSUME ~clashed'
        PROVE  /\ stamps' = NoStamps
               /\ \A n \in Modules : n \notin proc'[p].todo =>
                     entry'.modules[n] = Compile(n, proc[p].read)
               /\ label # "storeEntry" => proc'[p].todo = {}
    <3>1. entry'.modules[m] = Compile(m, proc[p].read)
      BY <1>4, <1>7, <1>10, CompileTyped
    <3> QED BY <1>1, <1>7, <1>8, <1>10, <1>11, <2>2, <3>1
  <2>3. label \in {"storeEntry", "nameEntry"} /\ proc'[p].read = proc[p].read
    BY <1>7, <1>8 DEF SameBegin
  <2> QED BY <1>9, <2>1, <2>2, <2>3 DEF StoresEntry
<1>14. stamps' \in Lists /\ (stamps' # NoStamps => "entry" \in DOMAIN stamps')
  BY <1>1, <1>4 DEF TypeOK
<1>15. label \in {"storeEntry", "nameEntry", "list", "run"} /\ UNCHANGED World
         /\ UNCHANGED <<kept, seen>> /\ (label = "storeEntry" => proc'[p].todo # {})
  BY <1>1, <1>7, <1>8
<1> QED BY <1>2, <1>3, <1>7, <1>9, <1>10, <1>12, <1>13, <1>14, <1>15, EntryRun

LEMMA NameEntryKeeps ==
  ASSUME Inv, NEW p \in Processes, NameEntry(p)
  PROVE  Inv'
<1>1. /\ pc[p] = "nameEntry" /\ UNCHANGED <<World, runs, faults, proc, kept, stamps, seen>>
      /\ entry' = [entry EXCEPT !.names = TRUE] /\ Goto(p, "list")
  BY DEF NameEntry
<1>2. runs' \in 0 .. MaxRuns /\ faults' \in 0 .. MaxFaults
  BY <1>1, FaultCounted DEF Inv, Shared
<1>3. pc[p] \in StoringEntry /\ TypeOK
  BY <1>1 DEF StoringEntry, Inv, Shared
<1>4. Typed(p) /\ SameBegin(p) /\ proc' = proc
  BY <1>1, <1>3, LocalsStay
<1>5. entry' \in Directories /\ entry'.names /\ entry'.modules = entry.modules
  BY <1>1, <1>3 DEF TypeOK, Directories
<1>6. ~clashed' =>
         stamps = NoStamps /\ \A n \in Modules : entry.modules[n] = Compile(n, proc[p].read)
  BY <1>1, <1>3, StoringAlone
<1>7. clashed' \/ EntryRight'
  BY <1>1, <1>6 DEF EntryRight
<1>8. pc'[p] = "list"
  BY <1>1, <1>3 DEF Goto, TypeOK
<1>9. StoresEntry(p)'
  <2>1. Listed(proc[p].stamps, proc[p].read)'
    BY <1>1, <1>3, <1>4, ListedStays
  <2> QED BY <1>1, <1>4, <1>5, <1>6, <1>8, <2>1 DEF StoresEntry
<1>10. /\ stamps' \in Lists /\ (stamps' # NoStamps => "entry" \in DOMAIN stamps')
       /\ UNCHANGED World /\ UNCHANGED <<kept, seen>>
  BY <1>1, <1>3 DEF TypeOK
<1> QED BY <1>1, <1>2, <1>3, <1>4, <1>5, <1>7, <1>9, <1>10, EntryRun

\* The list that is put back is that of the modules that stand there.
LEMMA ListKeeps ==
  ASSUME Inv, NEW p \in Processes, List(p)
  PROVE  Inv'
<1>1. /\ pc[p] = "list" /\ UNCHANGED <<World, runs, faults, proc, kept, entry, seen>>
      /\ stamps' = proc[p].stamps /\ Goto(p, "run")
  BY DEF List
<1>2. runs' \in 0 .. MaxRuns /\ faults' \in 0 .. MaxFaults
  BY <1>1, FaultCounted DEF Inv, Shared
<1>3. pc[p] \in StoringEntry /\ pc[p] \in StoringEntry \ {"unlist"}
  BY <1>1 DEF StoringEntry
<1>4. /\ TypeOK /\ StoresEntry(p) /\ proc[p].stamps \in Lists
      /\ proc[p].read \in Reads /\ ProgramRead(proc[p].read)
      /\ ~ReachedOutside(proc[p].read)
  BY <1>3, Built
<1>5. Typed(p) /\ SameBegin(p) /\ proc' = proc
  BY <1>1, <1>4, LocalsStay
<1>6. stamps' \in Lists /\ "entry" \in DOMAIN stamps'
  <2>1. Listed(proc[p].stamps, proc[p].read)
    BY <1>3, <1>4 DEF StoresEntry
  <2> QED BY <1>1, <1>4, <2>1 DEF Listed, RunManifestFiles
<1>7. ASSUME ~clashed' PROVE EntryRight'
  <2>1. entry.names /\ \A m \in Modules : entry.modules[m] = Compile(m, proc[p].read)
    BY <1>1, <1>3, <1>7, StoringAlone
  <2>2. entry = [names |-> TRUE, modules |-> Compiled(proc[p].read)]
    <3>1. entry.modules \in [Modules -> Beams] /\ entry = [names |-> entry.names,
                                                           modules |-> entry.modules]
            /\ entry.names = TRUE
      BY <1>4, <2>1 DEF TypeOK, Directories
    <3>2. entry.modules = Compiled(proc[p].read)
      BY <1>4, <2>1, <3>1, CompileTyped
    <3> QED BY <3>1, <3>2
  <2>3. Listed(proc[p].stamps, proc[p].read)'
    BY <1>1, <1>3, <1>5, ListedStays
  <2>4. PICK read \in Reads : read = proc[p].read
    BY <1>4
  <2>5. Listed(stamps, read)'
    <3>1. disk' = disk /\ now' = now /\ Listed(proc[p].stamps, proc[p].read)
      BY <1>1, <1>3, <1>4 DEF World, StoresEntry
    <3> QED BY <1>1, <2>4, <3>1 DEF Listed, Vouches, FileStamp
  <2>6. entry' = [names |-> TRUE, modules |-> Compiled(read)]
    BY <1>1, <2>2, <2>4
  <2> QED BY <1>4, <2>4, <2>5, <2>6 DEF EntryRight
<1>8. entry' \in Directories /\ UNCHANGED World /\ UNCHANGED <<kept, seen>>
  BY <1>1, <1>4 DEF TypeOK
<1> QED BY <1>1, <1>2, <1>3, <1>5, <1>6, <1>7, <1>8, EntryRun

LEMMA StoreEntryFailsKeeps ==
  ASSUME Inv, NEW p \in Processes, StoreEntryFails(p)
  PROVE  Inv'
<1>1. /\ pc[p] \in {"storeEntry", "nameEntry", "list"} /\ Goto(p, "run")
      /\ UNCHANGED <<World, runs, proc, kept, entry, stamps, seen>>
  BY DEF StoreEntryFails
<1>2. runs' \in 0 .. MaxRuns /\ faults' \in 0 .. MaxFaults
  BY FaultCounted DEF Inv, Shared, StoreEntryFails
<1>3. pc[p] \in StoringEntry /\ pc[p] \in StoringEntry \ {"unlist"} /\ TypeOK
  BY <1>1 DEF StoringEntry, Inv, Shared
<1>4. Typed(p) /\ SameBegin(p) /\ proc' = proc
  BY <1>1, <1>3, LocalsStay
<1>5. clashed' \/ EntryRight'
  <2>1. ~clashed' => stamps = NoStamps
    BY <1>1, <1>3, StoringAlone
  <2> QED BY <1>1, <2>1 DEF EntryRight
<1>6. /\ entry' \in Directories /\ stamps' \in Lists
      /\ (stamps' # NoStamps => "entry" \in DOMAIN stamps')
      /\ UNCHANGED World /\ UNCHANGED <<kept, seen>>
  BY <1>1, <1>3 DEF TypeOK
<1> QED BY <1>1, <1>2, <1>3, <1>4, <1>5, <1>6, EntryRun

-----------------------------------------------------------------------------
(* The theorems.                                                           *)

LEMMA StepOfOneKeeps ==
  ASSUME Inv, NEW p \in Processes, Step(p)
  PROVE  Inv'
<1>1. CASE Start(p)
  BY <1>1, StartKeeps
<1>2. CASE Killed(p)
  BY <1>2, KilledKeeps
<1>3. CASE ReadEntry(p)
  BY <1>3, ReadEntryKeeps
<1>4. CASE LookupEntry(p)
  BY <1>4, LookupEntryKeeps
<1>5. CASE Resolve(p)
  BY <1>5, ResolveKeeps
<1>6. CASE LoadKept(p)
  BY <1>6, LoadKeptKeeps
<1>7. CASE CopyKept(p)
  BY <1>7, CopyKeptKeeps
<1>8. CASE LoadEntry(p)
  BY <1>8, LoadEntryKeeps
<1>9. CASE CopyEntry(p)
  BY <1>9, CopyEntryKeeps
<1>10. CASE StoreKept(p)
  BY <1>10, StoreKeptKeeps
<1>11. CASE NameKept(p)
  BY <1>11, NameKeptKeeps
<1>12. CASE StoreKeptFails(p)
  BY <1>12, StoreKeptFailsKeeps
<1>13. CASE Vouch(p)
  BY <1>13, VouchKeeps
<1>14. CASE Unlist(p)
  BY <1>14, UnlistKeeps
<1>15. CASE StoreEntry(p)
  BY <1>15, StoreEntryKeeps
<1>16. CASE NameEntry(p)
  BY <1>16, NameEntryKeeps
<1>17. CASE List(p)
  BY <1>17, ListKeeps
<1>18. CASE StoreEntryFails(p)
  BY <1>18, StoreEntryFailsKeeps
<1>19. CASE Run(p)
  BY <1>19, RunKeeps
<1> QED BY <1>1, <1>2, <1>3, <1>4, <1>5, <1>6, <1>7, <1>8, <1>9, <1>10, <1>11, <1>12, <1>13,
           <1>14, <1>15, <1>16, <1>17, <1>18, <1>19 DEF Step

LEMMA NextKeeps ==
  ASSUME Inv, [Next]_vars
  PROVE  Inv'
<1>1. ASSUME NEW f \in Sources, Edit(f) PROVE Inv'
  BY <1>1, EditKeeps
<1>2. ASSUME NEW f \in Sources, Remove(f) PROVE Inv'
  BY <1>2, RemoveKeeps
<1>3. CASE Ambient
  BY <1>3, AmbientKeeps
<1>4. ASSUME NEW p \in Processes, Step(p) PROVE Inv'
  BY <1>4, StepOfOneKeeps
<1>5. CASE UNCHANGED vars
  <2>1. /\ disk' = disk /\ ambient' = ambient /\ now' = now /\ runs' = runs
        /\ faults' = faults /\ pc' = pc /\ proc' = proc /\ kept' = kept /\ entry' = entry
        /\ stamps' = stamps /\ seen' = seen /\ clashed' = clashed
    BY <1>5 DEF vars
  <2>2. TypeOK'
    BY <2>1 DEF Inv, Shared, TypeOK, Live
  <2>3. CurrentLoads' /\ KeptRight'
    <3>1. CurrentLoads'
      BY <2>1 DEF Inv, Shared, CurrentLoads
    <3>2. KeptRight'
      BY <2>1 DEF Inv, Shared, KeptRight
    <3> QED BY <3>1, <3>2
  <2>4. (clashed \/ (Alone /\ EntryRight))'
    <3>1. Alone => Alone'
      BY <2>1 DEF Alone
    <3>2. EntryRight => EntryRight'
      BY <2>1 DEF EntryRight, Listed, Vouches, FileStamp
    <3> QED BY <2>1, <3>1, <3>2 DEF Inv, Shared
  <2>5. ASSUME NEW p \in Processes PROVE Own(p)' /\ Answers(p)'
    <3>1. Own(p) /\ Answers(p)
      BY DEF Inv
    <3>2. Now' = Now
      BY <2>1 DEF Now, Resolved
    <3>3. ReadsSeen(p) => ReadsSeen(p)'
      BY <2>1, <3>2 DEF ReadsSeen
    <3>4. (p \in Live)' => p \in Live
      BY <2>1 DEF Live
    <3>5. KnowsProgram(p)'
      BY <2>1, <3>1 DEF Own, KnowsProgram
    <3>6. StoresEntry(p)'
      <4>1. Listed(proc[p].stamps, proc[p].read) => Listed(proc[p].stamps, proc[p].read)'
        BY <2>1 DEF Listed, Vouches, FileStamp
      <4> QED BY <2>1, <3>1, <4>1 DEF Own, StoresEntry
    <3>7. LoadsEntry(p)'
      <4>1. FreshFor(p, entry.modules) => FreshFor(p, entry.modules)'
        BY <2>1 DEF FreshFor
      <4> QED BY <2>1, <3>1, <4>1 DEF Own, LoadsEntry, WholeProgram
    <3>8. Answers(p)'
      BY <2>1, <3>1 DEF Answers, Answered, UsesFresh, FreshFor, WholeProgram
    <3> QED BY <3>1, <3>3, <3>4, <3>5, <3>6, <3>7, <3>8 DEF Own
  <2> QED BY <2>2, <2>3, <2>4, <2>5 DEF Inv, Shared
<1> QED BY <1>1, <1>2, <1>3, <1>4, <1>5 DEF Next

LEMMA InitHolds ==
  ASSUME Init
  PROVE  Inv
<1>1. /\ pc = [p \in Processes |-> "idle"] /\ proc = [p \in Processes |-> Fresh]
      /\ kept = [k \in Keys |-> EmptyDir] /\ entry = EmptyDir /\ stamps = NoStamps
      /\ seen = [p \in Processes |-> NothingSeen] /\ clashed = FALSE
      /\ now = 0 /\ runs = 0 /\ faults = 0 /\ ambient = "a"
  BY DEF Init
<1>2. NoBeam \in Beams /\ EmptyDir \in Directories
  <2>1. NoBeam \in Beams
    BY DEF NoBeam, Beams, Values
  <2> QED BY <2>1 DEF EmptyDir, Directories
<1>3. /\ disk \in [Sources -> [holds : Values, modified : 0 .. now]]
      /\ \A f \in Sources : disk[f].holds \in Contents(f) \cup {None}
  BY <1>1 DEF Init, Sources, Values, Contents
<1>4. TypeOK
  <2>1. NoStamps \in Lists
    BY DEF NoStamps, Lists
  <2>2. NothingRead \in Reads
    BY DEF NothingRead, Reads, None
  <2>3. proc \in [Processes -> [since : 0 .. now, read : Reads, out : [Modules -> Beams],
                                todo : SUBSET Modules, stamps : Lists,
                                from : {None, "entry", "content", "build"}]]
    BY <1>1, <1>2, <2>1, <2>2 DEF Fresh
  <2>4. /\ pc \in [Processes -> Labels] /\ seen \in [Processes -> [Parts -> SUBSET Values]]
        /\ \A p \in Processes : p \in Live <=> seen[p] # NothingSeen
    BY <1>1 DEF Labels, NothingSeen, Live
  <2>5. /\ now \in 0 .. MaxEdits /\ runs \in 0 .. MaxRuns /\ faults \in 0 .. MaxFaults
        /\ ambient \in {"a", "b"} /\ clashed \in BOOLEAN
    <3>1. now = 0 /\ runs = 0 /\ faults = 0 /\ ambient = "a" /\ clashed = FALSE
      BY <1>1
    <3>2. now \in 0 .. MaxEdits /\ runs \in 0 .. MaxRuns /\ faults \in 0 .. MaxFaults
      BY <3>1, RunCacheAssumption
    <3> QED BY <3>1, <3>2
  <2>6. kept \in [Keys -> Directories] /\ entry \in Directories
    BY <1>1, <1>2
  <2> QED BY <1>1, <1>3, <2>1, <2>3, <2>4, <2>5, <2>6 DEF TypeOK
<1>5. CurrentLoads /\ Alone /\ EntryRight
  BY <1>1 DEF CurrentLoads, Alone, StoringEntry, EntryRight
<1>6. KeptRight
  BY <1>1 DEF KeptRight, EmptyDir
<1>7. ASSUME NEW p \in Processes PROVE Own(p) /\ Answers(p)
  <2>1. pc[p] = "idle"
    BY <1>1
  <2>2. p \notin Live /\ p \notin Answered
    BY <2>1 DEF Live, Answered
  <2>3. KnowsProgram(p)
    BY <2>1 DEF KnowsProgram, Building, StoringKept, StoringEntry
  <2>4. StoresEntry(p) /\ LoadsEntry(p)
    BY <2>1 DEF StoresEntry, LoadsEntry, StoringEntry
  <2> QED BY <2>2, <2>3, <2>4 DEF Own, Answers
<1> QED BY <1>4, <1>5, <1>6, <1>7 DEF Inv, Shared

LEMMA Always == Spec => []Inv
<1>1. Init => Inv
  BY InitHolds
<1>2. Inv /\ [Next]_vars => Inv'
  BY NextKeeps
<1> QED BY <1>1, <1>2, PTL DEF Spec

(* The caches stay consistent: a key's directory only ever has modules of  *)
(* what the key stands for, an entry that has its list is whole and the    *)
(* list vouches for it, and a run gives up only after another process has  *)
(* been in the directory (CurrentLoads).                                   *)
THEOREM AlwaysConsistent == Spec => []Consistent
<1>1. Inv => Consistent
  BY DEF Inv, Shared, Own, Consistent
<1> QED BY <1>1, Always, PTL

(* A run starts every module of the program, and all of one build, even if *)
(* files go while it runs.                                                 *)
THEOREM AnswersAreWhole == Spec => []AnswerWhole
<1>1. Inv => AnswerWhole
  BY DEF Inv, Answers, AnswerWhole, Answered
<1> QED BY <1>1, Always, PTL

(* If no file is removed while a process runs, whatever a run starts was   *)
(* compiled from what was there during that run.                           *)
THEOREM AnswersAreFresh ==
  ASSUME RemoveAnytime = FALSE
  PROVE  Spec => []AnswerFresh
<1>1. Inv => AnswerFresh
  BY DEF Inv, Answers, AnswerFresh, Answered
<1> QED BY <1>1, Always, PTL

=============================================================================
