------------------------------ MODULE RunCache ------------------------------
(***************************************************************************)
(* The two caches that let `kex file.kex` start a program without building *)
(* it (src/main.cxx, "Run-result cache" and "Run cache by entry"), shared  *)
(* by every kex process of a user, while somebody edits the sources.       *)
(*                                                                         *)
(* By content: a directory per digest of all the sources.  By entry: one   *)
(* directory per program, holding beside the modules the stamp of every    *)
(* file the build read and of every place where a new file could take a    *)
(* module's name (files.txt); as long as the stamps hold, the modules run. *)
(* Directories are filled a file at a time, each renamed into place, and a *)
(* process may be killed between any two.                                  *)
(*                                                                         *)
(* The program is an entry file and one module, lib, found under the       *)
(* second of two roots unless a file under the first (shadow) takes its    *)
(* name.  The entry may embed a file (asset), or read something that is no *)
(* file at all while it is compiled (ambient).  What a module compiles to  *)
(* is the record of what it was made from.                                 *)
(***************************************************************************)
EXTENDS Integers, FiniteSets

CONSTANTS
    Processes,     \* the kex processes that may run at one time
    MaxRuns,       \* bound: runs started
    MaxFaults,     \* bound: processes killed and files that cannot be written
    MaxEdits,      \* bound: changes made to the files
    Removable,     \* the files that may be removed
    RemoveAnytime  \* whether also while a process runs

Sources == {"entry", "lib", "shadow", "asset"}
Modules == {"main", "lib"}

ASSUME RunCacheAssumption ==
    /\ IsFiniteSet(Processes)
    /\ MaxRuns \in Nat
    /\ MaxFaults \in Nat
    /\ MaxEdits \in Nat
    /\ Removable \subseteq Sources
    /\ RemoveAnytime \in BOOLEAN

None == "none"

\* embeds: an entry that calls Kex.embed; outside: one with a `compiled do`
\* block that reads the environment.
Contents(f) == IF f = "entry" THEN {"plain", "embeds", "outside"} ELSE {"a", "b"}

VARIABLES
    disk,     \* of each source file: what it holds and when it was modified
    ambient,  \* what a compile-time evaluation finds outside the program
    now,      \* changes made so far: the clock of modification times
    runs,     \* runs started so far
    faults,   \* faults so far
    pc,       \* what each process is about to do
    proc,     \* its locals
    kept,     \* the run cache: the directory of each key
    entry,    \* the directory of this entry: manifest.txt and the modules
    stamps,   \* its files.txt: the stamp of each file listed
    seen,     \* history: what each run could have read since it started
    clashed   \* history: two processes have been in the entry's directory

vars == <<disk, ambient, now, runs, faults, pc, proc, kept, entry, stamps, seen, clashed>>

-----------------------------------------------------------------------------
(* What a build reads and what it makes.                                   *)

\* The first root that has the module.
Resolved == IF disk["shadow"].holds # None THEN "shadow" ELSE "lib"

\* Everything the result may depend on, as it is now.
Now == [entry |-> disk["entry"].holds, lib |-> disk[Resolved].holds,
        asset |-> disk["asset"].holds, ambient |-> ambient]

Parts == {"entry", "lib", "asset", "ambient"}
NoBeam == [entry |-> None, lib |-> None, asset |-> None, ambient |-> None]

Compile(m, read) ==
    IF m = "lib" THEN [NoBeam EXCEPT !.lib = read.lib]
    ELSE [entry |-> read.entry, lib |-> read.lib,
          asset |-> read.asset, ambient |-> read.ambient]

\* Whether the scan for `compiled do` and Kex.embed lets the content name the
\* result.
RunCacheApplies(read) == read.entry = "plain"

\* Faulty: the digest of the entry file only.
RunCacheKeyOfEntry(read) == <<read.entry, read.path, "a">>
RunCacheKey(read) == <<read.entry, read.path, read.lib>>

Keys == Contents("entry") \X {"lib", "shadow"} \X Contents("lib")

ReachedOutside(read) == read.entry = "outside"

FileStamp(f) == IF disk[f].holds = None THEN -1 ELSE disk[f].modified

\* Faulty: only the file the module was read from.
RunManifestFilesRead(read) ==
    {"entry", read.path} \cup (IF read.entry = "embeds" THEN {"asset"} ELSE {})

\* Faulty: the modules' files and not the entry.
RunManifestFilesOfModules(read) == {"lib", "shadow"}

\* The files read, and the shadows of the modules among them: lib under both
\* roots, whichever was read.
RunManifestFiles(read) ==
    {"entry", "lib", "shadow"} \cup (IF read.entry = "embeds" THEN {"asset"} ELSE {})

-----------------------------------------------------------------------------
EmptyDir == [names |-> FALSE, modules |-> [m \in Modules |-> NoBeam]]
NoStamps == [f \in {} |-> 0]

NothingRead == [entry |-> None, path |-> None, lib |-> None, asset |-> None, ambient |-> None]

NothingSeen == [part \in Parts |-> {}]

Fresh == [since |-> 0, read |-> NothingRead, out |-> [m \in Modules |-> NoBeam],
          todo |-> {}, stamps |-> NoStamps, from |-> None]

Live == {p \in Processes : pc[p] \notin {"idle", "gone"}}
AtEntryDir == {"loadEntry", "copyEntry", "unlist", "storeEntry", "nameEntry", "list"}
StoringEntry == {"unlist", "storeEntry", "nameEntry", "list"}
StoringKept == {"storeKept", "nameKept"}
Building == {"loadKept", "copyKept", "vouch"} \cup StoringKept \cup StoringEntry

\* Whether p, about to be at label, meets another process in the entry's
\* directory, one of the two storing there.
Meets(p, label) ==
    \E q \in Processes \ {p} :
        \/ label \in AtEntryDir /\ pc[q] \in StoringEntry
        \/ label \in StoringEntry /\ pc[q] \in AtEntryDir

Goto(p, label) ==
    /\ pc' = [pc EXCEPT ![p] = label]
    /\ clashed' = (clashed \/ Meets(p, label))

World == <<disk, ambient, now>>

Init ==
    /\ disk = [f \in Sources |->
                  [holds |-> CASE f = "entry" -> "plain"
                               [] f = "shadow" -> None
                               [] OTHER -> "a",
                   modified |-> 0]]
    /\ ambient = "a"
    /\ now = 0
    /\ runs = 0
    /\ faults = 0
    /\ pc = [p \in Processes |-> "idle"]
    /\ proc = [p \in Processes |-> Fresh]
    /\ kept = [k \in Keys |-> EmptyDir]
    /\ entry = EmptyDir
    /\ stamps = NoStamps
    /\ seen = [p \in Processes |-> NothingSeen]
    /\ clashed = FALSE

-----------------------------------------------------------------------------
(* The people at the keyboard.                                             *)

Tick == now < MaxEdits /\ now' = now + 1

\* Everything a live run could now read as well.
Noted == seen' = [p \in Processes |->
    IF p \in Live THEN [part \in Parts |-> seen[p][part] \cup {Now'[part]}]
    ELSE seen[p]]

Edit(f) ==
    /\ Tick
    /\ \E c \in Contents(f) \ {disk[f].holds} :
           disk' = [disk EXCEPT ![f] = [holds |-> c, modified |-> now + 1]]
    /\ UNCHANGED <<ambient, runs, faults, pc, proc, kept, entry, stamps, clashed>>
    /\ Noted

Remove(f) ==
    /\ f \in Removable /\ disk[f].holds # None
    /\ RemoveAnytime \/ Live = {}
    /\ Tick
    /\ disk' = [disk EXCEPT ![f] = [holds |-> None, modified |-> 0]]
    /\ UNCHANGED <<ambient, runs, faults, pc, proc, kept, entry, stamps, clashed>>
    /\ Noted

\* An environment variable, a file nobody lists, the clock.
Ambient ==
    /\ Tick
    /\ ambient' = IF ambient = "a" THEN "b" ELSE "a"
    /\ UNCHANGED <<disk, runs, faults, pc, proc, kept, entry, stamps, clashed>>
    /\ Noted

-----------------------------------------------------------------------------
(* A run, from the entry file to the modules it starts.                    *)

Start(p) ==
    /\ p \notin Live /\ runs < MaxRuns
    /\ runs' = runs + 1
    /\ proc' = [proc EXCEPT ![p] = [Fresh EXCEPT !.since = now]]
    /\ seen' = [seen EXCEPT ![p] = [part \in Parts |-> {Now[part]}]]
    /\ Goto(p, "read")
    /\ UNCHANGED <<World, faults, kept, entry, stamps>>

\* p is over: label is idle, or gone when it could not say what to run.
End(p, label) ==
    /\ Goto(p, label)
    /\ proc' = [proc EXCEPT ![p] = Fresh]
    /\ seen' = [seen EXCEPT ![p] = NothingSeen]

Fault == faults < MaxFaults /\ faults' = faults + 1

Killed(p) ==
    /\ p \in Live
    /\ Fault
    /\ End(p, "idle")
    /\ UNCHANGED <<World, runs, kept, entry, stamps>>

\* The entry file is read and expanded before any cache is asked: embeds are
\* folded and compile-time code runs.
ReadEntry(p) ==
    /\ pc[p] = "read"
    /\ LET kind == disk["entry"].holds IN
       IF kind = None \/ (kind = "embeds" /\ disk["asset"].holds = None) THEN End(p, "idle")
       ELSE /\ proc' = [proc EXCEPT ![p].read =
                   [@ EXCEPT !.entry = kind,
                             !.asset = IF kind = "embeds" THEN disk["asset"].holds ELSE None,
                             !.ambient = IF kind = "outside" THEN ambient ELSE None]]
            /\ Goto(p, "lookup")
            /\ UNCHANGED seen
    /\ UNCHANGED <<World, runs, faults, kept, entry, stamps>>

RunManifestCurrent ==
    /\ stamps # NoStamps
    /\ \A f \in DOMAIN stamps : FileStamp(f) = stamps[f]

LookupEntry(p) ==
    /\ pc[p] = "lookup"
    /\ Goto(p, IF RunManifestCurrent THEN "loadEntry" ELSE "resolve")
    /\ UNCHANGED <<World, runs, faults, proc, kept, entry, stamps, seen>>

Resolve(p) ==
    /\ pc[p] = "resolve"
    /\ IF disk[Resolved].holds = None THEN End(p, "idle")
       ELSE /\ UNCHANGED seen
            /\ proc' = [proc EXCEPT ![p].read =
                   [@ EXCEPT !.path = Resolved, !.lib = disk[Resolved].holds]]
            /\ Goto(p, "loadKept")
    /\ UNCHANGED <<World, runs, faults, kept, entry, stamps>>

\* The module copied next: the entry's own comes first.
First(todo) == IF "main" \in todo THEN "main" ELSE "lib"

Key(p) == RunCacheKey(proc[p].read)

\* The next module is not in the directory.
Missing(p, dir) == dir.modules[First(proc[p].todo)] = NoBeam

\* One module from a cache directory to the output directory.
CopyOut(p, dir, from) ==
    LET m == First(proc[p].todo)
        out == [proc[p].out EXCEPT ![m] = dir.modules[m]]
        left == proc[p].todo \ {m}
    IN /\ proc' = [proc EXCEPT ![p].out = out, ![p].todo = left, ![p].from = from]
       /\ Goto(p, IF left = {} THEN "run" ELSE pc[p])
       /\ UNCHANGED seen

AfterKept(p) == IF ReachedOutside(proc[p].read) THEN "run" ELSE "vouch"

\* Checked, lowered and compiled by erlc, into the output directory.
Build(p) ==
    /\ proc' = [proc EXCEPT ![p].out = [m \in Modules |-> Compile(m, proc[p].read)],
                            ![p].todo = Modules, ![p].from = "build"]
    /\ Goto(p, IF RunCacheApplies(proc[p].read) THEN "storeKept" ELSE AfterKept(p))
    /\ UNCHANGED seen

LoadKept(p) ==
    /\ pc[p] = "loadKept"
    /\ IF RunCacheApplies(proc[p].read) /\ kept[Key(p)].names
       THEN /\ proc' = [proc EXCEPT ![p].todo = Modules]
            /\ Goto(p, "copyKept")
            /\ UNCHANGED seen
       ELSE Build(p)
    /\ UNCHANGED <<World, runs, faults, kept, entry, stamps>>

CopyKept(p) ==
    /\ pc[p] = "copyKept"
    /\ IF Missing(p, kept[Key(p)]) THEN Build(p) ELSE CopyOut(p, kept[Key(p)], "content")
    /\ UNCHANGED <<World, runs, faults, kept, entry, stamps>>

\* "the cached build changed while starting; run it again"
Gone(p) == End(p, "gone")

LoadEntry(p) ==
    /\ pc[p] = "loadEntry"
    /\ IF entry.names
       THEN /\ proc' = [proc EXCEPT ![p].todo = Modules]
            /\ Goto(p, "copyEntry")
            /\ UNCHANGED seen
       ELSE Gone(p)
    /\ UNCHANGED <<World, runs, faults, kept, entry, stamps>>

CopyEntry(p) ==
    /\ pc[p] = "copyEntry"
    /\ IF Missing(p, entry) THEN Gone(p) ELSE CopyOut(p, entry, "entry")
    /\ UNCHANGED <<World, runs, faults, kept, entry, stamps>>

-----------------------------------------------------------------------------
(* What a build leaves in the caches.                                      *)

\* dir with the next of p's modules renamed into it.
Stored(dir, p) == [dir EXCEPT !.modules[First(proc[p].todo)] = proc[p].out[First(proc[p].todo)]]

StoreNext(p, here, after) ==
    LET left == proc[p].todo \ {First(proc[p].todo)}
    IN /\ proc' = [proc EXCEPT ![p].todo = left]
       /\ Goto(p, IF left = {} THEN after ELSE here)

StoreKept(p) ==
    /\ pc[p] = "storeKept"
    /\ kept' = [kept EXCEPT ![Key(p)] = Stored(@, p)]
    /\ StoreNext(p, "storeKept", "nameKept")
    /\ UNCHANGED <<World, runs, faults, entry, stamps, seen>>

\* manifest.txt, after the modules it names.
NameKept(p) ==
    /\ pc[p] = "nameKept"
    /\ kept' = [kept EXCEPT ![Key(p)].names = TRUE]
    /\ Goto(p, AfterKept(p))
    /\ UNCHANGED <<World, runs, faults, proc, entry, stamps, seen>>

\* A file that cannot be written ends that store; the run goes on.
StoreKeptFails(p) ==
    /\ pc[p] \in {"storeKept", "nameKept"}
    /\ Fault
    /\ Goto(p, AfterKept(p))
    /\ UNCHANGED <<World, runs, proc, kept, entry, stamps, seen>>

\* The stamps of what was read, unless one of the files changed meanwhile.
Vouch(p) ==
    /\ pc[p] = "vouch"
    /\ LET files == RunManifestFiles(proc[p].read)
       IN IF \E f \in files : disk[f].holds # None /\ disk[f].modified > proc[p].since
          THEN Goto(p, "run") /\ UNCHANGED proc
          ELSE /\ proc' = [proc EXCEPT ![p].stamps = [f \in files |-> FileStamp(f)]]
               /\ Goto(p, "unlist")
    /\ UNCHANGED <<World, runs, faults, kept, entry, stamps, seen>>

\* Until the list is back, the entry is not current.
Unlist(p) ==
    /\ pc[p] = "unlist"
    /\ stamps' = NoStamps
    /\ proc' = [proc EXCEPT ![p].todo = Modules]
    /\ Goto(p, "storeEntry")
    /\ UNCHANGED <<World, runs, faults, kept, entry, seen>>

StoreEntry(p) ==
    /\ pc[p] = "storeEntry"
    /\ entry' = Stored(entry, p)
    /\ StoreNext(p, "storeEntry", "nameEntry")
    /\ UNCHANGED <<World, runs, faults, kept, stamps, seen>>

NameEntry(p) ==
    /\ pc[p] = "nameEntry"
    /\ entry' = [entry EXCEPT !.names = TRUE]
    /\ Goto(p, "list")
    /\ UNCHANGED <<World, runs, faults, proc, kept, stamps, seen>>

List(p) ==
    /\ pc[p] = "list"
    /\ stamps' = proc[p].stamps
    /\ Goto(p, "run")
    /\ UNCHANGED <<World, runs, faults, proc, kept, entry, seen>>

\* Faulty: the list is written whatever became of the modules.
StoreEntryFailsAnyway(p) ==
    /\ pc[p] \in {"storeEntry", "nameEntry"}
    /\ Fault
    /\ Goto(p, "list")
    /\ UNCHANGED <<World, runs, proc, kept, entry, stamps, seen>>

StoreEntryFails(p) ==
    /\ pc[p] \in {"storeEntry", "nameEntry", "list"}
    /\ Fault
    /\ Goto(p, "run")
    /\ UNCHANGED <<World, runs, proc, kept, entry, stamps, seen>>

\* The program is started on the output directory.
Run(p) ==
    /\ pc[p] = "run"
    /\ End(p, "idle")
    /\ UNCHANGED <<World, runs, faults, kept, entry, stamps>>

-----------------------------------------------------------------------------
Step(p) ==
    \/ Start(p) \/ Killed(p) \/ ReadEntry(p) \/ LookupEntry(p)
    \/ Resolve(p) \/ LoadKept(p) \/ CopyKept(p) \/ LoadEntry(p) \/ CopyEntry(p)
    \/ StoreKept(p) \/ NameKept(p) \/ StoreKeptFails(p) \/ Vouch(p)
    \/ Unlist(p) \/ StoreEntry(p) \/ NameEntry(p) \/ List(p) \/ StoreEntryFails(p)
    \/ Run(p)

Next ==
    \/ \E f \in Sources : Edit(f) \/ Remove(f)
    \/ Ambient
    \/ \E p \in Processes : Step(p)

Spec == Init /\ [][Next]_vars

-----------------------------------------------------------------------------
(* What the caches promise.                                                *)

\* Everything these modules were made from was there while p ran.
FreshFor(p, modules) ==
    \A m \in Modules : \A part \in Parts : modules[m][part] \in seen[p][part] \cup {None}

UsesFresh(p) == FreshFor(p, proc[p].out)

\* Every module is there, and they were compiled from the same lib.
WholeProgram(modules) ==
    /\ \A m \in Modules : modules[m] # NoBeam
    /\ modules["main"].lib = modules["lib"].lib

\* Answers the entry's directory gave after two processes met there are left
\* out: see EntryAnswerFresh.
Answered == {p \in Processes : pc[p] = "run" /\ (proc[p].from = "entry" => ~clashed)}

\* Whatever a run starts was compiled from sources, embedded files and
\* surroundings that were there at some moment of that run: no cache hit is
\* out of date, whoever edits, adds a file or is killed in between.
AnswerFresh == \A p \in Answered : UsesFresh(p)

\* A run starts every module of the program, and all of one build: both were
\* compiled from the same lib.
AnswerWhole == \A p \in Answered : WholeProgram(proc[p].out)

\* An entry found current can be loaded: a run gives up ("run it again") only
\* after another process has been in the directory, never for a store that
\* failed or was killed.
CurrentLoads == (\E p \in Processes : pc[p] = "gone") => clashed

\* What the comments claim: a run started by its entry is made of files
\* exactly as they are.
EntryAnswerFresh ==
    \A p \in Processes : pc[p] = "run" /\ proc[p].from = "entry" => UsesFresh(p)

Labels ==
    {"idle", "gone", "read", "lookup", "loadEntry", "copyEntry", "resolve", "run"} \cup Building
Values == Contents("entry") \cup Contents("lib") \cup {None}
Beams == [entry : Values, lib : Values, asset : Values, ambient : Values]
Directories == [names : BOOLEAN, modules : [Modules -> Beams]]
Lists == UNION {[files -> -1 .. MaxEdits] : files \in SUBSET Sources}
Reads == [entry : Contents("entry") \cup {None}, path : {"lib", "shadow", None},
          lib : Contents("lib") \cup {None}, asset : Contents("asset") \cup {None},
          ambient : {"a", "b", None}]

TypeOK ==
    /\ now \in 0 .. MaxEdits /\ runs \in 0 .. MaxRuns /\ faults \in 0 .. MaxFaults
    /\ disk \in [Sources -> [holds : Values, modified : 0 .. now]]
    /\ \A f \in Sources : disk[f].holds \in Contents(f) \cup {None}
    /\ ambient \in {"a", "b"} /\ clashed \in BOOLEAN
    /\ pc \in [Processes -> Labels]
    /\ proc \in [Processes -> [since : 0 .. now, read : Reads, out : [Modules -> Beams],
                               todo : SUBSET Modules, stamps : Lists,
                               from : {None, "entry", "content", "build"}]]
    /\ kept \in [Keys -> Directories] /\ entry \in Directories
    /\ stamps \in Lists /\ (stamps # NoStamps => "entry" \in DOMAIN stamps)
    /\ seen \in [Processes -> [Parts -> SUBSET Values]]
    /\ \A p \in Processes : p \in Live <=> seen[p] # NothingSeen

(* What makes the promises inductive.                                      *)

\* read names a program: an entry file with what it embeds or saw outside, and
\* the file its module is in.
EntryRead(read) ==
    /\ read.entry # None
    /\ (read.asset # None) <=> read.entry = "embeds"
    /\ (read.ambient # None) <=> read.entry = "outside"
ProgramRead(read) == EntryRead(read) /\ read.path # None /\ read.lib # None

Compiled(read) == [m \in Modules |-> Compile(m, read)]

\* A file that holds c is as it was read.
Agrees(read, f, c) ==
    CASE f = "entry"  -> read.entry # None => c = read.entry
      [] f = "asset"  -> read.entry = "embeds" => c = read.asset
      [] f = "shadow" -> read.path # None => c = IF read.path = "shadow" THEN read.lib ELSE None
      [] f = "lib"    -> read.path = "lib" => c = read.lib

\* While the stamp of f is the one in the list, f is as it was read.
Vouches(list, read) ==
    \A f \in DOMAIN list :
        /\ list[f] <= now
        /\ list[f] = -1 => Agrees(read, f, None)
        /\ FileStamp(f) = list[f] => Agrees(read, f, disk[f].holds)

\* A list for what was read, as long as nothing is removed under a run.
Listed(list, read) ==
    /\ DOMAIN list = RunManifestFiles(read)
    /\ RemoveAnytime \/ Vouches(list, read)

\* A run has seen what is there and what it has read; a file it has read has
\* changed since, or holds that still.
ReadsSeen(p) ==
    /\ \A part \in Parts : {Now[part], proc[p].read[part]} \subseteq seen[p][part] \cup {None}
    /\ RemoveAnytime \/ \A f \in Sources :
          disk[f].holds = None \/ disk[f].modified <= proc[p].since =>
              Agrees(proc[p].read, f, disk[f].holds)

\* What a run knows of the program it builds or copies.
KnowsProgram(p) ==
    LET read == proc[p].read IN
    /\ pc[p] \in {"lookup", "loadEntry", "copyEntry", "resolve"} => EntryRead(read)
    /\ pc[p] \in Building => ProgramRead(read)
    /\ pc[p] \in {"copyKept"} \cup StoringKept => RunCacheApplies(read)
    /\ pc[p] \in {"vouch"} \cup StoringEntry => ~ReachedOutside(read)
    /\ pc[p] \in Building \ {"loadKept", "copyKept"} => proc[p].out = Compiled(read)
    /\ pc[p] \in {"copyKept", "storeKept", "copyEntry", "storeEntry"} => proc[p].todo # {}
    /\ pc[p] = "copyKept" =>
          \A m \in Modules \ proc[p].todo : proc[p].out[m] = Compile(m, read)

\* Nobody is in the entry's directory with a process that stores there.
Alone ==
    \A p, q \in Processes : p # q /\ pc[p] \in StoringEntry => pc[q] \notin AtEntryDir

\* What the process that stores an entry has put there so far.
StoresEntry(p) ==
    /\ pc[p] \in StoringEntry => Listed(proc[p].stamps, proc[p].read)
    /\ pc[p] \in StoringEntry \ {"unlist"} /\ ~clashed =>
          /\ stamps = NoStamps
          /\ \A m \in Modules : m \notin proc[p].todo \/ pc[p] # "storeEntry" =>
                entry.modules[m] = Compile(m, proc[p].read)
          /\ pc[p] = "list" => entry.names

\* What one that starts from an entry will find.
LoadsEntry(p) ==
    pc[p] \in {"loadEntry", "copyEntry"} /\ ~clashed =>
        /\ entry.names /\ WholeProgram(entry.modules)
        /\ RemoveAnytime \/ FreshFor(p, entry.modules)
        /\ pc[p] = "copyEntry" =>
              \A m \in Modules \ proc[p].todo : proc[p].out[m] = entry.modules[m]

\* A key's directory has the modules its key stands for, or not yet.
KeptRight ==
    \A k \in Keys : \A m \in Modules :
        kept[k].modules[m] \in
            {NoBeam, Compile(m, [NothingRead EXCEPT !.entry = k[1], !.lib = k[3]])}

\* An entry that has its list is whole, and the list vouches for it.
EntryRight ==
    stamps # NoStamps => \E read \in Reads :
        /\ ProgramRead(read) /\ ~ReachedOutside(read)
        /\ entry = [names |-> TRUE, modules |-> Compiled(read)]
        /\ Listed(stamps, read)

Consistent ==
    /\ TypeOK
    /\ CurrentLoads
    /\ KeptRight
    /\ clashed \/ (Alone /\ EntryRight)
    /\ \A p \in Processes :
          /\ p \in Live => ReadsSeen(p)
          /\ KnowsProgram(p) /\ StoresEntry(p) /\ LoadsEntry(p)
=============================================================================
