----------------------------- MODULE Toolchains -----------------------------
(***************************************************************************)
(* What Tey keeps on disk of the Kex toolchains it installs and of itself  *)
(* (tey/src/tey/toolchain.kex, self_update.kex): trees filled beside their *)
(* place and renamed into it, while the process may be killed between any  *)
(* two file operations and any of them may fail.                           *)
(*                                                                         *)
(* One Tey runs at a time; nothing in the code locks the home.  A tree is  *)
(* a directory with the binary (or the launchers' modules) and the rest of *)
(* the installation beside it; it fills and empties a part at a time, the  *)
(* directory itself first and last.  Tey's own runtime, its ebin, goes     *)
(* through the same publish as a toolchain and is the name "tey"; an       *)
(* upgrade may go to an older release, and the Tey it installs is taken to *)
(* run as this one does.  The directory a release is unpacked in has its   *)
(* version in its name: that of the release being installed is the one     *)
(* here, and what is left of another is never looked at.                   *)
(***************************************************************************)
EXTENDS Integers

CONSTANTS
    Versions,    \* the Kex versions somebody may name
    Bundled,     \* the one that lies beside Tey, outside its home
    MaxOps,      \* bound: commands run
    MaxFaults,   \* bound: processes killed and file operations that fail
    MaxReleases  \* bound: releases of Tey

ASSUME ToolchainsAssumption ==
    /\ Bundled \in Versions
    /\ "tey" \notin Versions /\ "none" \notin Versions
    /\ MaxOps \in Nat /\ MaxFaults \in Nat /\ MaxReleases \in Nat \ {0}

None  == "none"
Names == Versions \cup {"tey"}
Slots == {"prefix", "partial", "previous", "unpacked"}
Parts == {"dir", "bin", "lib"}
Kinds == {"archive", "source", "adopt", "upgrade", "uninstall", "use"}
Points == {"idle", "done", "failed", "clearUnpacked", "unpack", "clear", "move",
           "fill", "dropUnpacked", "tey", "kex", "dropPrevious", "aside", "into",
           "back", "dropOld", "select", "link", "remove", "unselect", "unlink",
           "abandonUnpacked", "abandonStaged"}

\* A tree: the parts that are there, and the release of Tey they are from.
Gone == [parts |-> {}, of |-> 0]
Whole(t) == t.parts = Parts

VARIABLES
    tree,      \* of each name, what lies at its prefix and beside it
    current,   \* the selected version
    shim,      \* the version whose binary the shim is a link to
    launcher,  \* the release bin/tey and bin/kex are from
    release,   \* the newest release of Tey
    op,        \* the command being run
    ops,       \* commands so far
    faults,    \* faults so far
    owned,     \* history: versions published and not removed since
    returning  \* history: a launcher was swapped for an older one, and no
               \* runtime has been published since

vars == <<tree, current, shim, launcher, release, op, ops, faults, owned, returning>>

\* A command: replacing is publish's own, to is the release an upgrade installs.
Idle == [kind |-> "use", name |-> None, pc |-> "idle", replacing |-> FALSE, to |-> 0]

TypeOK ==
    /\ tree \in [Names -> [Slots -> [parts : SUBSET Parts, of : 0..MaxReleases]]]
    /\ \A n \in Names, slot \in Slots :
         tree[n][slot] = Gone \/ "dir" \in tree[n][slot].parts
    /\ current \in Versions \cup {None}
    /\ shim \in Versions \cup {None}
    /\ launcher \in [{"tey", "kex"} -> 1..MaxReleases]
    /\ release \in 1..MaxReleases
    /\ op \in [kind : Kinds, name : Names \cup {None}, pc : Points,
               replacing : BOOLEAN, to : 0..MaxReleases]
    /\ ops \in 0..MaxOps
    /\ faults \in 0..MaxFaults
    /\ owned \subseteq Versions
    /\ returning \in BOOLEAN

(* A directory counts as installed when its bin/kex is there. *)
Installed(v) == "bin" \in tree[v]["prefix"].parts

(* Tey can run: its launchers find a runtime. *)
TeyRuns == Whole(tree["tey"]["prefix"])

At(slot) == tree[op.name][slot]
Goto(pc) == op' = [op EXCEPT !.pc = pc]

---------------------------------------------------------------------------
(* Deleting a tree: what goes at each point, and what comes after.  A      *)
(* command that fails clears what it staged before it says so.             *)

AfterClearing == IF op.kind = "archive" THEN "move" ELSE "fill"
AfterUnpacked == IF op.kind = "upgrade" THEN "tey" ELSE "dropPrevious"
Deletion ==
    [clearUnpacked   |-> [slot |-> "unpacked", then |-> "unpack"],
     clear           |-> [slot |-> "partial",  then |-> AfterClearing],
     dropUnpacked    |-> [slot |-> "unpacked", then |-> AfterUnpacked],
     dropPrevious    |-> [slot |-> "previous", then |-> "aside"],
     dropOld         |-> [slot |-> "previous",
                          then |-> IF op.kind = "upgrade" THEN "done" ELSE "select"],
     remove          |-> [slot |-> "prefix",   then |-> "unselect"],
     abandonUnpacked |-> [slot |-> "unpacked",
                          then |-> IF op.kind = "upgrade" THEN "abandonStaged" ELSE "failed"],
     abandonStaged   |-> [slot |-> "partial",  then |-> "failed"]]

\* Faulty: the directory may go while something is left in it.
SmallerAnyOrder(t) == {[t EXCEPT !.parts = @ \ {p}] : p \in t.parts}
\* Some entry of the directory goes, the directory itself last.
Smaller(t) ==
    {[t EXCEPT !.parts = @ \ {p}] :
        p \in IF t.parts = {"dir"} THEN {"dir"} ELSE t.parts \ {"dir"}}
Put(slot, t) ==
    tree' = [tree EXCEPT ![op.name][slot] = IF t.parts = {} THEN Gone ELSE t]

(* FS.Directory.deleteAll, where a command calls it. *)
DeleteAll ==
    /\ op.pc \in DOMAIN Deletion
    /\ LET d == Deletion[op.pc]
       IN  IF At(d.slot) = Gone
           THEN Goto(d.then) /\ UNCHANGED tree
           ELSE (\E t \in Smaller(At(d.slot)) : Put(d.slot, t)) /\ UNCHANGED op
    /\ UNCHANGED <<current, shim, launcher, release, ops, faults, owned, returning>>

---------------------------------------------------------------------------
(* The commands begin. *)

Ready ==
    /\ op.pc \in {"idle", "done", "failed"}
    /\ ops < MaxOps /\ ops' = ops + 1
    /\ TeyRuns
    /\ UNCHANGED <<tree, current, shim, launcher, release, faults, returning>>
Starts(kind, v, pc, to) ==
    op' = [kind |-> kind, name |-> v, pc |-> pc, replacing |-> FALSE, to |-> to]
Begin(kind, v, pc) == Starts(kind, v, pc, 0)

\* The archive is verified before anything is touched: a download that fails
\* or does not match its checksum leaves all as it was.
InstallArchive(v) ==
    Ready /\ Begin("archive", v, "clearUnpacked") /\ UNCHANGED owned
InstallSource(v) ==
    Ready /\ Begin("source", v, "clear") /\ UNCHANGED owned

(* Naming an installed version selects it; the bundled one is taken in. *)
Use(v) ==
    /\ Ready
    /\ \/ Installed(v) /\ Begin("use", v, "select")
       \/ ~Installed(v) /\ v = Bundled /\ Begin("adopt", v, "clear")
    /\ UNCHANGED owned

Uninstall(v) ==
    /\ Ready
    /\ "dir" \in tree[v]["prefix"].parts
    /\ Begin("uninstall", v, "remove")
    /\ owned' = owned \ {v}

(* The newest release, or the one that is named, which may be older: only  *)
(* the release of the runtime that is there is not installed again.        *)
Upgrade(r) ==
    /\ Ready
    /\ r <= release /\ r # tree["tey"]["prefix"].of
    /\ Starts("upgrade", "tey", "clearUnpacked", r)
    /\ UNCHANGED owned

---------------------------------------------------------------------------
(* Staging. *)

Larger(t) ==
    {[parts |-> t.parts \cup {p}, of |-> op.to] :
        p \in IF t.parts = {} THEN {"dir"} ELSE Parts \ t.parts}

(* tar, cmake or cp writes the next part of the tree; it is believed only  *)
(* when it ends with success, which is when all parts are there.           *)
Writing(slot, then) ==
    /\ IF Whole(At(slot))
       THEN Goto(then) /\ UNCHANGED tree
       ELSE (\E t \in Larger(At(slot)) : Put(slot, t)) /\ UNCHANGED op
    /\ UNCHANGED <<current, shim, launcher, release, ops, faults, owned, returning>>
\* Faulty: the exit code is not looked at.
WritingUnchecked(slot, then) ==
    /\ \/ Goto(then) /\ UNCHANGED tree
       \/ (\E t \in Larger(At(slot)) : Put(slot, t)) /\ UNCHANGED op
    /\ UNCHANGED <<current, shim, launcher, release, ops, faults, owned, returning>>

UnpackUnchecked == op.pc = "unpack" /\ WritingUnchecked("unpacked", "clear")
Unpack == op.pc = "unpack" /\ Writing("unpacked", "clear")

FillNext == IF op.kind = "upgrade" THEN "dropUnpacked" ELSE "dropPrevious"
Fill == op.pc = "fill" /\ Writing("partial", FillNext)

\* A rename within the home.
Moved(from, to) ==
    tree' = [tree EXCEPT ![op.name][to] = At(from), ![op.name][from] = Gone]

(* The archive's one directory is moved out of where it was unpacked. *)
Move ==
    /\ op.pc = "move"
    /\ tree' = [tree EXCEPT
                  ![op.name]["partial"] = At("unpacked"),
                  ![op.name]["unpacked"] = [Gone EXCEPT !.parts = {"dir"}]]
    /\ Goto("dropUnpacked")
    /\ UNCHANGED <<current, shim, launcher, release, ops, faults, owned, returning>>

---------------------------------------------------------------------------
(* publish: the finished tree takes the place of the one installed. *)

\* Faulty: the old tree is deleted to make room for the new one.
AsideDeleting ==
    /\ op.pc = "aside"
    /\ op' = [op EXCEPT !.pc = "into"]
    /\ Put("prefix", Gone)
    /\ UNCHANGED <<current, shim, launcher, release, ops, faults, owned, returning>>
Aside ==
    /\ op.pc = "aside"
    /\ LET replacing == "dir" \in At("prefix").parts
       IN  /\ op' = [op EXCEPT !.pc = "into", !.replacing = replacing]
           /\ IF replacing THEN Moved("prefix", "previous") ELSE UNCHANGED tree
    /\ UNCHANGED <<current, shim, launcher, release, ops, faults, owned, returning>>

\* Faulty: the tree moved aside is left there.
IntoLeavingOld ==
    /\ op.pc = "into"
    /\ Moved("partial", "prefix")
    /\ owned' = owned \cup (IF op.kind = "upgrade" THEN {} ELSE {op.name})
    /\ Goto(IF op.kind = "upgrade" THEN "done" ELSE "select")
    /\ UNCHANGED <<current, shim, launcher, release, ops, faults, returning>>
Into ==
    /\ op.pc = "into"
    /\ Moved("partial", "prefix")
    /\ owned' = owned \cup (IF op.kind = "upgrade" THEN {} ELSE {op.name})
    /\ returning' = (returning /\ op.kind # "upgrade")
    /\ Goto("dropOld")
    /\ UNCHANGED <<current, shim, launcher, release, ops, faults>>

Back ==
    /\ op.pc = "back"
    /\ Moved("previous", "prefix")
    /\ Goto("abandonStaged")
    /\ UNCHANGED <<current, shim, launcher, release, ops, faults, owned, returning>>

---------------------------------------------------------------------------
(* The selection, and Tey's launchers. *)

Select ==
    /\ op.pc = "select"
    /\ current' = op.name
    /\ Goto("link")
    /\ UNCHANGED <<tree, shim, launcher, release, ops, faults, owned, returning>>

Link ==
    /\ op.pc = "link"
    /\ shim' = IF Installed(op.name) THEN op.name ELSE shim
    /\ Goto("done")
    /\ UNCHANGED <<tree, current, launcher, release, ops, faults, owned, returning>>

\* Faulty: the selection is cleared and the link is left.
UnselectOnly ==
    /\ op.pc = "unselect"
    /\ current' = IF current = op.name THEN None ELSE current
    /\ Goto("done")
    /\ UNCHANGED <<tree, shim, launcher, release, ops, faults, owned, returning>>
Unselect ==
    /\ op.pc = "unselect"
    /\ current' = IF current = op.name THEN None ELSE current
    /\ Goto(IF current = op.name THEN "unlink" ELSE "done")
    /\ UNCHANGED <<tree, shim, launcher, release, ops, faults, owned, returning>>

Unlink ==
    /\ op.pc = "unlink"
    /\ shim' = None
    /\ Goto("done")
    /\ UNCHANGED <<tree, current, launcher, release, ops, faults, owned, returning>>

\* Faulty: the second launcher is left for the next command to swap.
SwapOneLauncher ==
    /\ op.pc \in {"tey", "kex"}
    /\ launcher' = [launcher EXCEPT !["tey"] = op.to]
    /\ returning' = (returning \/ op.to < launcher["tey"])
    /\ Goto("dropPrevious")
    /\ UNCHANGED <<tree, current, shim, release, ops, faults, owned>>
(* Each launcher is renamed over the old one, then the runtime is          *)
(* published, after which this process may not load another module.        *)
SwapLauncher ==
    /\ op.pc \in {"tey", "kex"}
    /\ launcher' = [launcher EXCEPT ![op.pc] = op.to]
    /\ returning' = (returning \/ op.to < launcher[op.pc])
    /\ Goto(IF op.pc = "tey" THEN "kex" ELSE "dropPrevious")
    /\ UNCHANGED <<tree, current, shim, release, ops, faults, owned>>

---------------------------------------------------------------------------
(* What goes wrong: where a file operation that fails leads.  publish puts *)
(* the old tree back when the new one cannot be moved in, and cannot do    *)
(* more when that fails too; the link and Tey's own staged files are best  *)
(* effort.                                                                 *)

FailureAt ==
    [unpack |-> "abandonUnpacked",
     fill   |-> IF op.kind = "upgrade" THEN "abandonUnpacked" ELSE "abandonStaged",
     move   |-> "abandonUnpacked",
     aside  |-> "abandonStaged",
     into   |-> IF op.replacing THEN "back" ELSE "abandonStaged",
     back   |-> "abandonStaged",
     remove |-> "failed",
     select |-> "failed",
     link   |-> "done",
     tey    |-> "failed",
     kex    |-> "failed"]

Fails ==
    /\ faults < MaxFaults /\ faults' = faults + 1
    /\ op.pc \in DOMAIN FailureAt
    /\ Goto(FailureAt[op.pc])
    /\ UNCHANGED <<tree, current, shim, launcher, release, ops, owned, returning>>

\* The process dies, between the truncation and the write of the selection
\* at worst.
Killed ==
    /\ faults < MaxFaults /\ faults' = faults + 1
    /\ op.pc \notin {"idle", "done", "failed"}
    /\ op' = Idle
    /\ current' \in {current} \cup (IF op.pc = "select" THEN {None} ELSE {})
    /\ UNCHANGED <<tree, shim, launcher, release, ops, owned, returning>>

(* A new Tey is published, somewhere else and at any time.                 *)
Release ==
    /\ release < MaxReleases /\ release' = release + 1
    /\ UNCHANGED <<tree, current, shim, launcher, op, ops, faults, owned, returning>>

Init ==
    /\ tree = [n \in Names |-> [slot \in Slots |->
                 IF n = "tey" /\ slot = "prefix" THEN [parts |-> Parts, of |-> 1] ELSE Gone]]
    /\ current = None /\ shim = None
    /\ launcher = [l \in {"tey", "kex"} |-> 1]
    /\ release = 1
    /\ op = Idle
    /\ ops = 0 /\ faults = 0
    /\ owned = {}
    /\ returning = FALSE

Next ==
    \/ \E v \in Versions :
          InstallArchive(v) \/ InstallSource(v) \/ Use(v) \/ Uninstall(v)
    \/ \E r \in 1..MaxReleases : Upgrade(r)
    \/ DeleteAll \/ Unpack \/ Fill \/ Move
    \/ Aside \/ Into \/ Back
    \/ Select \/ Link \/ Unselect \/ Unlink \/ SwapLauncher
    \/ Fails \/ Killed \/ Release

Spec == Init /\ [][Next]_vars

---------------------------------------------------------------------------
(* Properties. *)

(* Only a whole tree comes to stand at a prefix: whatever is killed or     *)
(* fails, what lies there otherwise only loses parts, or is the tree that  *)
(* publish had moved aside coming back.                                    *)
Published ==
    \A n \in Names :
        LET was == tree[n]["prefix"]
            is == tree'[n]["prefix"]
        IN  \/ is.parts \subseteq was.parts /\ is.of \in {0, was.of}
            \/ Whole(is)
            \/ was = Gone /\ is = tree[n]["previous"] /\ op.pc = "back"
PublishedWhole == [][Published]_vars

(* After at most one fault a version that was installed and not removed is *)
(* still whole somewhere Tey put it: at its prefix, aside, or staged.      *)
NotLost ==
    faults <= 1 =>
        \A v \in owned :
            \E slot \in {"prefix", "previous", "partial"} : Whole(tree[v][slot])

(* An install that says it succeeded leaves a whole toolchain, selected,   *)
(* and neither a staged tree nor an old one beside it, whatever an earlier *)
(* command left behind.                                                    *)
InstallDone ==
    op.pc = "done" /\ op.kind \in {"archive", "source", "adopt"} =>
        /\ Whole(tree[op.name]["prefix"])
        /\ current = op.name
        /\ \A slot \in {"partial", "previous"} : tree[op.name][slot] = Gone

(* An upgrade that says it succeeded leaves both launchers and the whole   *)
(* runtime of the release it was asked for, older or newer.  However one   *)
(* ends, the launchers are not older than the runtime they start and bin/  *)
(* kex is not newer than bin/tey, unless a return to an older release was  *)
(* cut short after its first launcher.                                     *)
UpgradeOrder ==
    /\ op.kind = "upgrade" /\ op.pc = "done" =>
         /\ launcher["tey"] = op.to /\ launcher["kex"] = op.to
         /\ tree["tey"]["prefix"] = [parts |-> Parts, of |-> op.to]
    /\ ~returning =>
         launcher["tey"] >= launcher["kex"] /\ launcher["kex"] >= tree["tey"]["prefix"].of

(* Between commands, if nothing failed, the selection and the shim name    *)
(* the same toolchain and it is whole, or neither names one.               *)
SelectedRuns ==
    op.pc \in {"idle", "done", "failed"} /\ faults = 0 =>
        /\ current = shim
        /\ current # None => Whole(tree[current]["prefix"])

Selection == InstallDone /\ SelectedRuns

(* What the above rests on.  Where a command is says what lies in its      *)
(* trees.                                                                  *)
Staged ==
    /\ op.pc # "idle" => op.name \in Names
    /\ op.kind = "upgrade" <=> op.name = "tey"
    /\ op.pc \in {"tey", "kex"} => op.kind = "upgrade"
    /\ op.pc \in {"select", "link", "remove", "unselect", "unlink"} => op.kind # "upgrade"
    /\ op.pc = "move" => op.kind = "archive"
    /\ op.pc \in {"clear", "move"} /\ op.kind = "archive" => Whole(At("unpacked"))
    /\ op.pc \in {"dropUnpacked", "tey", "kex", "dropPrevious", "aside", "into"}
         => Whole(At("partial"))
    /\ op.pc \in {"into", "back"} => At("prefix") = Gone
    /\ op.pc = "dropOld" => Whole(At("prefix"))

(* Until the second fault, an installed version is whole at its prefix; or *)
(* its prefix is empty, and it is whole aside, or its successor is staged  *)
(* and about to be published.                                              *)
Kept ==
    /\ op.pc = "remove" => op.name \notin owned
    /\ faults <= 1 => \A v \in owned :
         \/ Whole(tree[v]["prefix"])
         \/ /\ tree[v]["prefix"] = Gone
            /\ \/ /\ Whole(tree[v]["previous"])
                  /\ faults = 0 => op.name = v /\ op.pc = "into"
               \/ /\ faults = 1 /\ op.name = v
                  /\ op.pc \in {"dropPrevious", "aside", "into"}

(* What an upgrade stages, and has swapped, is of the release it installs; *)
(* of what it finds, the launchers are the newest, and then the runtime,   *)
(* unless a return was cut short.                                          *)
Released ==
    /\ op.kind = "upgrade" =>
         /\ op.to # 0
         /\ op.pc = "fill" => tree["tey"]["partial"] = Gone
                              \/ tree["tey"]["partial"].of = op.to
         /\ op.pc \in {"dropUnpacked", "tey", "kex", "dropPrevious", "aside", "into"}
              => tree["tey"]["partial"].of = op.to
         /\ op.pc \in {"kex", "dropPrevious", "aside", "into", "dropOld", "done"}
              => launcher["tey"] = op.to
         /\ op.pc \in {"dropPrevious", "aside", "into", "dropOld", "done"}
              => launcher["kex"] = op.to
         /\ op.pc \in {"dropOld", "done"}
              => tree["tey"]["prefix"] = [parts |-> Parts, of |-> op.to]
         /\ op.pc = "aside" => tree["tey"]["previous"] = Gone
    /\ ~returning =>
         /\ launcher["kex"] <= launcher["tey"]
         /\ tree["tey"]["prefix"].of <= launcher["kex"]
         /\ op.kind = "upgrade" /\ op.pc \in {"into", "back"}
              => tree["tey"]["previous"].of <= launcher["kex"]

(* What an install has done by the time it selects. *)
Finished ==
    op.kind \in {"archive", "source", "adopt"} =>
      /\ op.pc \notin {"remove", "unselect", "unlink"}
      /\ op.pc = "dropOld" => At("partial") = Gone
      /\ op.pc \in {"select", "link", "done"} =>
           /\ Whole(At("prefix"))
           /\ At("partial") = Gone /\ At("previous") = Gone
           /\ op.pc # "select" => current = op.name

(* If nothing failed, every prefix is whole or empty but for one that is   *)
(* being removed, and the selection and the shim agree except while a      *)
(* command sets the two.                                                   *)
Agreed ==
    faults = 0 =>
      /\ op.pc # "back"
      /\ \A v \in Versions :
           \/ Whole(tree[v]["prefix"]) \/ tree[v]["prefix"] = Gone
           \/ op.name = v /\ op.pc = "remove"
      /\ op.pc \in {"select", "link"} => Whole(At("prefix"))
      /\ op.pc = "link" => current = op.name
      /\ op.pc = "unlink" => current = None
      /\ op.pc \notin {"link", "unlink"} => current = shim
      /\ current # None =>
           \/ Whole(tree[current]["prefix"])
           \/ op.name = current /\ op.pc \in {"into", "remove", "unselect"}

Consistent == TypeOK /\ Staged /\ Kept /\ Released /\ Finished /\ Agreed

(* A reinstall keeps the old tree until the new one is in place: at every  *)
(* moment an installed version is whole at its prefix or aside.  The next  *)
(* publish after a crash between the two renames begins by deleting the    *)
(* tree that was put aside: TLC refutes this, and no run checks it.        *)
OldKept ==
    \A v \in owned : Whole(tree[v]["prefix"]) \/ Whole(tree[v]["previous"])

(* The command line offers only what somebody can run: a version counts as *)
(* installed only with its whole tree.  A removal that does not finish     *)
(* leaves one that is not: TLC refutes this, and no run checks it.         *)
OfferedWhole ==
    \A v \in Versions :
        op.pc \in {"idle", "done", "failed"} /\ Installed(v)
            => Whole(tree[v]["prefix"])

(* Tey never starts with launchers older than its runtime.  A return to an *)
(* older release that is killed between the first launcher and the publish *)
(* leaves it so, and the next upgrade to the release of that runtime finds *)
(* nothing to do: TLC refutes this, and no run checks it.                  *)
NeverOlder ==
    \A l \in {"tey", "kex"} : launcher[l] >= tree["tey"]["prefix"].of
=============================================================================
