-------------------------- MODULE ToolchainsProofs --------------------------
(***************************************************************************)
(* Proofs about Toolchains, for any versions and any number of commands,   *)
(* faults and releases: only whole trees are published, one fault loses    *)
(* nothing, an upgrade leaves one release of Tey, and the launchers are    *)
(* older than the runtime they start only in or after a return to an older *)
(* release that was cut short.                                             *)
(*                                                                         *)
(* Consistent is inductive: each action is shown to keep each of its six   *)
(* parts, the four that do not speak of the selection first.               *)
(***************************************************************************)
EXTENDS Toolchains, TLAPS

Tree == [parts : SUBSET Parts, of : 0..MaxReleases]
Sound == TypeOK /\ Staged /\ Kept /\ Released
Proper(t) == t \in Tree /\ (t = Gone \/ "dir" \in t.parts)

USE ToolchainsAssumption DEF Slots, Kinds, Names, Points

---------------------------------------------------------------------------
(* Trees. *)

\* What TypeOK says of one tree.
LEMMA TreeProper ==
    ASSUME TypeOK, NEW n \in Names, NEW s \in Slots
    PROVE  Proper(tree[n][s])
BY DEF TypeOK, Proper, Tree

\* Nothing at all is a tree, and no whole one.
LEMMA GoneProper == Proper(Gone) /\ ~Whole(Gone)
BY DEF Proper, Tree, Gone, Whole, Parts

\* The types of the trees, put together again.
LEMMA TreesTyped ==
    ASSUME tree' \in [Names -> [Slots -> Tree]],
           \A n \in Names, s \in Slots : Proper(tree'[n][s]),
           current' \in Versions \cup {None}, shim' \in Versions \cup {None},
           launcher' \in [{"tey", "kex"} -> 1..MaxReleases], release' \in 1..MaxReleases,
           op' \in [kind : Kinds, name : Names \cup {None}, pc : Points,
                    replacing : BOOLEAN, to : 0..MaxReleases],
           ops' \in 0..MaxOps, faults' \in 0..MaxFaults, owned' \subseteq Versions, returning' \in BOOLEAN
    PROVE  TypeOK'
BY DEF TypeOK, Proper, Tree

\* One tree is written, and no other.
LEMMA PutEffect ==
    ASSUME TypeOK, op.name \in Names, NEW slot \in Slots, NEW t \in Tree, Put(slot, t),
           t.parts = {} \/ "dir" \in t.parts
    PROVE  /\ tree' \in [Names -> [Slots -> Tree]]
           /\ tree'[op.name][slot] = IF t.parts = {} THEN Gone ELSE t
           /\ \A n \in Names, s \in Slots :
                ~(n = op.name /\ s = slot) => tree'[n][s] = tree[n][s]
           /\ \A n \in Names, s \in Slots : Proper(tree'[n][s])
<1> DEFINE new == IF t.parts = {} THEN Gone ELSE t
<1>1. tree \in [Names -> [Slots -> Tree]]
  BY DEF TypeOK, Tree
<1>2. new \in Tree /\ Proper(new)
  BY GoneProper DEF Proper
<1>3. tree' = [tree EXCEPT ![op.name][slot] = new]
  BY DEF Put
<1> HIDE DEF new
<1>4. /\ tree' \in [Names -> [Slots -> Tree]]
      /\ tree'[op.name][slot] = new
      /\ \A n \in Names, s \in Slots :
           ~(n = op.name /\ s = slot) => tree'[n][s] = tree[n][s]
  BY <1>1, <1>2, <1>3
<1>5. ASSUME NEW n \in Names, NEW s \in Slots PROVE Proper(tree'[n][s])
  BY <1>2, <1>4, TreeProper
<1> QED BY <1>4, <1>5 DEF new

\* A rename takes a tree from one slot to another.
LEMMA MovedEffect ==
    ASSUME TypeOK, op.name \in Names, NEW from \in Slots, NEW to \in Slots, from # to,
           Moved(from, to)
    PROVE  /\ tree' \in [Names -> [Slots -> Tree]]
           /\ tree'[op.name][to] = tree[op.name][from]
           /\ tree'[op.name][from] = Gone
           /\ \A n \in Names, s \in Slots :
                ~(n = op.name /\ s \in {from, to}) => tree'[n][s] = tree[n][s]
           /\ \A n \in Names, s \in Slots : Proper(tree'[n][s])
<1>1. tree \in [Names -> [Slots -> Tree]] /\ Gone \in Tree
  BY GoneProper DEF TypeOK, Tree, Proper
<1>2. /\ tree' \in [Names -> [Slots -> Tree]]
      /\ tree'[op.name][to] = tree[op.name][from]
      /\ tree'[op.name][from] = Gone
      /\ \A n \in Names, s \in Slots :
           ~(n = op.name /\ s \in {from, to}) => tree'[n][s] = tree[n][s]
  BY <1>1 DEF Moved, At
<1>3. ASSUME NEW n \in Names, NEW s \in Slots PROVE Proper(tree'[n][s])
  BY <1>2, TreeProper, GoneProper
<1> QED BY <1>2, <1>3

\* Tey's own runtime is there at the start, and no toolchain.
LEMMA InitSound == Init => Sound
<1> SUFFICES ASSUME Init PROVE Sound
  OBVIOUS
<1> DEFINE runtime == [parts |-> Parts, of |-> 1]
<1>1. runtime \in Tree /\ "dir" \in runtime.parts /\ runtime.of = 1
  BY DEF Tree, Parts
<1>2. tree = [n \in Names |-> [slot \in Slots |->
                IF n = "tey" /\ slot = "prefix" THEN runtime ELSE Gone]]
  BY DEF Init
<1> HIDE DEF runtime
<1>3. /\ tree \in [Names -> [Slots -> Tree]]
      /\ \A n \in Names, s \in Slots :
           tree[n][s] = IF n = "tey" /\ s = "prefix" THEN runtime ELSE Gone
  BY <1>1, <1>2, GoneProper DEF Proper
<1>4. TypeOK
  <2>1. op \in [kind : Kinds, name : Names \cup {None}, pc : Points, replacing : BOOLEAN,
                to : 0..MaxReleases]
    BY DEF Init, Idle
  <2>2. launcher \in [{"tey", "kex"} -> 1..MaxReleases] /\ release \in 1..MaxReleases
    BY DEF Init
  <2>3. \A n \in Names, s \in Slots : tree[n][s] = Gone \/ "dir" \in tree[n][s].parts
    BY <1>1, <1>3
  <2>4. /\ current \in Versions \cup {None} /\ shim \in Versions \cup {None}
        /\ ops \in 0..MaxOps /\ faults \in 0..MaxFaults /\ owned \subseteq Versions
    BY DEF Init
  <2>5. returning \in BOOLEAN
    BY Zenon DEF Init
  <2> QED BY <1>3, <2>1, <2>2, <2>3, <2>4, <2>5 DEF TypeOK, Tree
<1>5. Staged /\ Kept
  BY DEF Init, Staged, Kept, Idle, None
<1>6. Released
  <2>1. tree["tey"]["prefix"].of = 1 /\ tree["tey"]["previous"].of = 0
    BY <1>1, <1>3 DEF Gone
  <2>2. launcher["tey"] = 1 /\ launcher["kex"] = 1 /\ release = 1 /\ op.kind = "use"
    BY DEF Init, Idle
  <2> QED BY <2>1, <2>2 DEF Released, Staged
<1> QED BY <1>4, <1>5, <1>6 DEF Sound

---------------------------------------------------------------------------
(* The commands begin. *)

\* A command begins between two others, and disturbs nothing.
LEMMA BeginKeeps ==
    ASSUME Sound, Ready, NEW kind \in Kinds, NEW v \in Names, NEW pc \in Points,
           NEW to \in 0..MaxReleases, Starts(kind, v, pc, to),
           kind = "upgrade" <=> v = "tey", kind = "upgrade" => to # 0,
           \/ pc = "clearUnpacked" /\ kind \in {"archive", "upgrade"}
           \/ pc = "clear" /\ kind \in {"source", "adopt"}
           \/ pc = "select" /\ kind = "use"
           \/ pc = "remove" /\ kind = "uninstall" /\ v \notin owned',
           owned' \subseteq owned
    PROVE  Sound'
<1>1. /\ op' = [kind |-> kind, name |-> v, pc |-> pc, replacing |-> FALSE, to |-> to]
      /\ UNCHANGED <<tree, current, shim, launcher, release, faults, returning>>
      /\ ops' \in 0..MaxOps
  BY DEF Starts, Ready, Sound, TypeOK
<1>2. TypeOK'
  BY <1>1 DEF Sound, TypeOK
<1>3. Staged'
  BY <1>1 DEF Staged
<1>4. Kept'
  BY <1>1 DEF Ready, Sound, Kept
<1>5. Released'
  BY <1>1 DEF Sound, Released
<1> QED BY <1>2, <1>3, <1>4, <1>5 DEF Sound

---------------------------------------------------------------------------
(* Deleting and filling. *)

\* What deleteAll takes next is not the directory while something is in it.
LEMMA SmallerProper ==
    ASSUME NEW t, Proper(t), t # Gone, NEW u \in Smaller(t)
    PROVE  /\ u \in Tree /\ u.of = t.of
           /\ u.parts \subseteq t.parts
           /\ u.parts = {} \/ "dir" \in u.parts
<1>1. PICK p \in (IF t.parts = {"dir"} THEN {"dir"} ELSE t.parts \ {"dir"}) :
        u = [t EXCEPT !.parts = @ \ {p}]
  BY DEF Smaller
<1>2. t \in Tree /\ "dir" \in t.parts
  BY DEF Proper
<1>3. u \in Tree /\ u.of = t.of /\ u.parts = t.parts \ {p}
  BY <1>1, <1>2 DEF Tree
<1> QED BY <1>1, <1>2, <1>3

\* Where deleteAll is called, what it deletes and what comes then.
LEMMA DeletionAt ==
    ASSUME op.pc \in DOMAIN Deletion
    PROVE  LET d == Deletion[op.pc]
           IN  \/ op.pc = "clearUnpacked" /\ d.slot = "unpacked" /\ d.then = "unpack"
               \/ op.pc = "clear" /\ d.slot = "partial" /\ d.then = AfterClearing
               \/ op.pc = "dropUnpacked" /\ d.slot = "unpacked" /\ d.then = AfterUnpacked
               \/ op.pc = "dropPrevious" /\ d.slot = "previous" /\ d.then = "aside"
               \/ /\ op.pc = "dropOld" /\ d.slot = "previous"
                  /\ d.then = IF op.kind = "upgrade" THEN "done" ELSE "select"
               \/ op.pc = "remove" /\ d.slot = "prefix" /\ d.then = "unselect"
               \/ /\ op.pc = "abandonUnpacked" /\ d.slot = "unpacked"
                  /\ d.then = IF op.kind = "upgrade" THEN "abandonStaged" ELSE "failed"
               \/ op.pc = "abandonStaged" /\ d.slot = "partial" /\ d.then = "failed"
BY DEF Deletion

\* A deletion takes no tree a command or an installed version still needs.
LEMMA DeleteAllKeeps ==
    ASSUME Sound, DeleteAll
    PROVE  Sound'
<1> DEFINE d == Deletion[op.pc]
<1>0. /\ TypeOK /\ Staged /\ Kept /\ Released
      /\ op.name \in Names /\ op.pc \in DOMAIN Deletion
      /\ UNCHANGED <<current, shim, launcher, release, ops, faults, owned, returning>>
      /\ op \in [kind : Kinds, name : Names \cup {None}, pc : Points, replacing : BOOLEAN,
                 to : 0..MaxReleases]
  <2>1. op.pc \in DOMAIN Deletion /\ op.pc # "idle"
    BY DEF DeleteAll, Deletion
  <2> QED BY <2>1 DEF DeleteAll, Sound, Staged, TypeOK
<1>1. /\ \/ op.pc = "clearUnpacked" /\ d.slot = "unpacked" /\ d.then = "unpack"
         \/ op.pc = "clear" /\ d.slot = "partial" /\ d.then = AfterClearing
         \/ op.pc = "dropUnpacked" /\ d.slot = "unpacked" /\ d.then = AfterUnpacked
         \/ op.pc = "dropPrevious" /\ d.slot = "previous" /\ d.then = "aside"
         \/ /\ op.pc = "dropOld" /\ d.slot = "previous"
            /\ d.then = IF op.kind = "upgrade" THEN "done" ELSE "select"
         \/ op.pc = "remove" /\ d.slot = "prefix" /\ d.then = "unselect"
         \/ /\ op.pc = "abandonUnpacked" /\ d.slot = "unpacked"
            /\ d.then = IF op.kind = "upgrade" THEN "abandonStaged" ELSE "failed"
         \/ op.pc = "abandonStaged" /\ d.slot = "partial" /\ d.then = "failed"
      /\ d.slot \in Slots
  BY <1>0, DeletionAt
<1>2. \/ At(d.slot) = Gone /\ Goto(d.then) /\ UNCHANGED tree
      \/ At(d.slot) # Gone /\ UNCHANGED op
         /\ \E t \in Smaller(At(d.slot)) : Put(d.slot, t)
  BY DEF DeleteAll
<1> HIDE DEF d
<1>3. CASE At(d.slot) = Gone /\ Goto(d.then) /\ UNCHANGED tree
  <2>1. op' = [op EXCEPT !.pc = d.then] /\ UNCHANGED tree /\ d.then \in Points
    BY <1>1, <1>3 DEF Goto, AfterClearing, AfterUnpacked
  <2>2. op'.kind = op.kind /\ op'.name = op.name /\ op'.to = op.to /\ op'.pc = d.then
    BY <1>0, <2>1
  <2>3. TypeOK'
    BY <1>0, <2>1 DEF TypeOK
  <2>4. Staged'
    BY <1>0, <1>1, <2>1, <2>2 DEF Staged, AfterClearing, AfterUnpacked, At
  <2>5. Kept'
    BY <1>0, <1>1, <2>1, <2>2 DEF Kept, AfterClearing, AfterUnpacked
  <2>6. Released'
    BY <1>0, <1>1, <1>3, <2>1, <2>2 DEF Released, Staged, AfterClearing, AfterUnpacked, At
  <2> QED BY <2>3, <2>4, <2>5, <2>6 DEF Sound
<1>4. CASE At(d.slot) # Gone /\ UNCHANGED op
           /\ \E t \in Smaller(At(d.slot)) : Put(d.slot, t)
  <2>1. PICK t \in Smaller(At(d.slot)) : Put(d.slot, t)
    BY <1>4
  <2>2. /\ t \in Tree /\ t.of = At(d.slot).of
        /\ t.parts = {} \/ "dir" \in t.parts
    BY <1>0, <1>1, <1>4, TreeProper, SmallerProper DEF At
  <2>3. /\ tree' \in [Names -> [Slots -> Tree]]
        /\ tree'[op.name][d.slot] = IF t.parts = {} THEN Gone ELSE t
        /\ \A n \in Names, s \in Slots :
             ~(n = op.name /\ s = d.slot) => tree'[n][s] = tree[n][s]
        /\ \A n \in Names, s \in Slots : Proper(tree'[n][s])
    BY <1>0, <1>1, <2>1, <2>2, PutEffect
  <2>4. TypeOK'
    BY <1>0, <1>4, <2>3, TreesTyped DEF TypeOK
  <2>5. Staged'
    BY <1>0, <1>1, <1>4, <2>3 DEF Staged, At
  <2>6. Kept'
    <3>1. owned \subseteq Names /\ faults \in Nat
      BY <1>0 DEF TypeOK
    <3>2. op.pc = "remove" => op.name \notin owned
      BY <1>0 DEF Kept
    <3>3. ASSUME faults <= 1, NEW v \in owned, v = op.name
          PROVE  /\ tree'[v]["prefix"] = tree[v]["prefix"]
                 /\ \/ tree'[v]["previous"] = tree[v]["previous"]
                    \/ op.pc = "dropPrevious"
                    \/ op.pc = "dropOld" /\ Whole(tree[v]["prefix"])
      BY <1>0, <1>1, <2>3, <3>1, <3>2, <3>3 DEF Staged, At
    <3>4. ASSUME faults <= 1, NEW v \in owned, v # op.name
          PROVE  /\ tree'[v]["prefix"] = tree[v]["prefix"]
                 /\ tree'[v]["previous"] = tree[v]["previous"]
      BY <2>3, <3>1, <3>4
    <3>5. faults <= 1 => faults \in {0, 1}
      BY <3>1
    <3> QED BY <1>0, <1>4, <3>2, <3>3, <3>4, <3>5 DEF Kept
  <2>7. /\ tree'["tey"]["prefix"].of \in {0, tree["tey"]["prefix"].of}
        /\ op.kind = "upgrade" => tree'["tey"]["prefix"] = tree["tey"]["prefix"]
    BY <1>0, <1>1, <2>2, <2>3 DEF Staged, At, Gone
  <2>8. Released'
    BY <1>0, <1>1, <1>4, <2>3, <2>7 DEF Released, Staged, TypeOK
  <2> QED BY <2>4, <2>5, <2>6, <2>8 DEF Sound
<1> QED BY <1>2, <1>3, <1>4

\* What tar, cmake or cp writes next, it writes into the directory.
LEMMA LargerProper ==
    ASSUME TypeOK, NEW t, Proper(t), NEW u \in Larger(t)
    PROVE  /\ u \in Tree /\ "dir" \in u.parts
           /\ u.of = op.to
<1>1. PICK p \in (IF t.parts = {} THEN {"dir"} ELSE Parts \ t.parts) :
        u = [parts |-> t.parts \cup {p}, of |-> op.to]
  BY DEF Larger
<1>2. t.parts \subseteq Parts /\ op.to \in 0..MaxReleases
  BY DEF TypeOK, Proper, Tree
<1>3. p \in Parts /\ (t.parts = {} => p = "dir")
  BY <1>1 DEF Parts
<1>4. t.parts # {} => "dir" \in t.parts
  BY DEF Proper, Gone
<1> QED BY <1>1, <1>2, <1>3, <1>4 DEF Tree

\* Writing to a staged tree, which its command goes on from when it is whole.
LEMMA WritingKeeps ==
    ASSUME Sound, NEW slot, NEW then, Writing(slot, then),
           \/ op.pc = "unpack" /\ slot = "unpacked" /\ then = "clear"
           \/ op.pc = "fill" /\ slot = "partial" /\ then = FillNext
    PROVE  Sound'
<1>0. /\ TypeOK /\ Staged /\ Kept /\ Released
      /\ op.name \in Names /\ slot \in Slots /\ then \in Points
      /\ UNCHANGED <<current, shim, launcher, release, ops, faults, owned, returning>>
      /\ op \in [kind : Kinds, name : Names \cup {None}, pc : Points, replacing : BOOLEAN,
                 to : 0..MaxReleases]
  BY DEF Writing, Sound, Staged, TypeOK, FillNext
<1>1. CASE Whole(At(slot)) /\ Goto(then) /\ UNCHANGED tree
  <2>1. op'.kind = op.kind /\ op'.name = op.name /\ op'.to = op.to /\ op'.pc = then
    BY <1>0, <1>1 DEF Goto
  <2>2. TypeOK'
    BY <1>0, <1>1 DEF TypeOK, Goto
  <2>3. Staged'
    BY <1>0, <1>1, <2>1 DEF Staged, At, FillNext
  <2>4. Kept'
    BY <1>0, <1>1, <2>1 DEF Kept, FillNext
  <2>5. Released'
    BY <1>0, <1>1, <2>1, GoneProper DEF Released, Staged, At, FillNext
  <2> QED BY <2>2, <2>3, <2>4, <2>5 DEF Sound
<1>2. CASE UNCHANGED op /\ \E t \in Larger(At(slot)) : Put(slot, t)
  <2>1. PICK t \in Larger(At(slot)) : Put(slot, t)
    BY <1>2
  <2>2. /\ t \in Tree /\ "dir" \in t.parts /\ t.parts # {}
        /\ t.of = op.to
    BY <1>0, TreeProper, LargerProper DEF At
  <2>3. /\ tree' \in [Names -> [Slots -> Tree]]
        /\ tree'[op.name][slot] = t
        /\ \A n \in Names, s \in Slots :
             ~(n = op.name /\ s = slot) => tree'[n][s] = tree[n][s]
        /\ \A n \in Names, s \in Slots : Proper(tree'[n][s])
    <3>1. /\ tree' \in [Names -> [Slots -> Tree]]
          /\ tree'[op.name][slot] = IF t.parts = {} THEN Gone ELSE t
          /\ \A n \in Names, s \in Slots :
               ~(n = op.name /\ s = slot) => tree'[n][s] = tree[n][s]
          /\ \A n \in Names, s \in Slots : Proper(tree'[n][s])
      BY <1>0, <2>1, <2>2, PutEffect
    <3> QED BY <2>2, <3>1
  <2>4. TypeOK'
    BY <1>0, <1>2, <2>3, TreesTyped DEF TypeOK
  <2>5. Staged'
    BY <1>0, <1>2, <2>3 DEF Staged, At
  <2>6. Kept'
    <3>1. \A v \in owned : /\ tree'[v]["prefix"] = tree[v]["prefix"]
                           /\ tree'[v]["previous"] = tree[v]["previous"]
      BY <1>0, <2>3 DEF TypeOK
    <3> QED BY <1>0, <1>2, <3>1 DEF Kept
  <2>7. Released'
    BY <1>0, <1>2, <2>2, <2>3 DEF Released, Staged
  <2> QED BY <2>4, <2>5, <2>6, <2>7 DEF Sound
<1> QED BY <1>1, <1>2 DEF Writing

\* The archive's directory becomes the staged tree.
LEMMA MoveKeeps ==
    ASSUME Sound, Move
    PROVE  Sound'
<1>0. /\ TypeOK /\ Staged /\ Kept /\ Released
      /\ op.name \in Names /\ op.pc = "move"
      /\ UNCHANGED <<current, shim, launcher, release, ops, faults, owned, returning>>
      /\ op \in [kind : Kinds, name : Names \cup {None}, pc : Points, replacing : BOOLEAN,
                 to : 0..MaxReleases]
  BY DEF Move, Sound, Staged, TypeOK
<1>1. op'.kind = op.kind /\ op'.name = op.name /\ op'.to = op.to /\ op'.pc = "dropUnpacked"
  BY <1>0 DEF Move, Goto
<1> DEFINE empty == [Gone EXCEPT !.parts = {"dir"}]
<1>2. tree \in [Names -> [Slots -> Tree]] /\ empty \in Tree /\ Proper(empty)
  BY <1>0, GoneProper DEF TypeOK, Tree, Proper, Gone, Parts
<1>3. tree' = [tree EXCEPT ![op.name]["partial"] = tree[op.name]["unpacked"],
                           ![op.name]["unpacked"] = empty]
  BY DEF Move, At
<1> HIDE DEF empty
<1>4. /\ tree' \in [Names -> [Slots -> Tree]]
      /\ tree'[op.name]["partial"] = tree[op.name]["unpacked"]
      /\ tree'[op.name]["unpacked"] = empty
      /\ \A n \in Names, s \in Slots :
           ~(n = op.name /\ s \in {"partial", "unpacked"}) => tree'[n][s] = tree[n][s]
  BY <1>0, <1>2, <1>3
<1>5. \A n \in Names, s \in Slots : Proper(tree'[n][s])
  BY <1>0, <1>2, <1>4, TreeProper
<1>6. TypeOK'
  <2>1. op' \in [kind : Kinds, name : Names \cup {None}, pc : Points, replacing : BOOLEAN,
                 to : 0..MaxReleases]
    BY <1>0 DEF Move, Goto
  <2> QED BY <1>0, <1>4, <1>5, <2>1, TreesTyped DEF TypeOK
<1>7. Staged'
  BY <1>0, <1>1, <1>4 DEF Staged, At
<1>8. Kept'
  <2>1. \A v \in owned : /\ tree'[v]["prefix"] = tree[v]["prefix"]
                         /\ tree'[v]["previous"] = tree[v]["previous"]
    BY <1>0, <1>4 DEF TypeOK
  <2> QED BY <1>0, <1>1, <2>1 DEF Kept
<1>9. Released'
  BY <1>0, <1>1, <1>4 DEF Released, Staged
<1> QED BY <1>6, <1>7, <1>8, <1>9 DEF Sound

---------------------------------------------------------------------------
(* Publishing. *)

\* The installed tree is put aside, whole as it is.
LEMMA AsideKeeps ==
    ASSUME Sound, Aside
    PROVE  Sound'
<1>0. /\ TypeOK /\ Staged /\ Kept /\ Released
      /\ op.name \in Names /\ op.pc = "aside"
      /\ UNCHANGED <<current, shim, launcher, release, ops, faults, owned, returning>>
      /\ op \in [kind : Kinds, name : Names \cup {None}, pc : Points, replacing : BOOLEAN,
                 to : 0..MaxReleases]
  BY DEF Aside, Sound, Staged, TypeOK
<1>1. /\ op'.kind = op.kind /\ op'.name = op.name /\ op'.to = op.to /\ op'.pc = "into"
      /\ op' \in [kind : Kinds, name : Names \cup {None}, pc : Points, replacing : BOOLEAN,
                  to : 0..MaxReleases]
  <2> DEFINE r == "dir" \in At("prefix").parts
  <2>1. op' = [op EXCEPT !.pc = "into", !.replacing = r] /\ r \in BOOLEAN
    BY DEF Aside
  <2> HIDE DEF r
  <2> QED BY <1>0, <2>1
<1>2. CASE "dir" \in At("prefix").parts
  <2>1. Moved("prefix", "previous")
    BY <1>2 DEF Aside
  <2>2. /\ tree' \in [Names -> [Slots -> Tree]]
        /\ tree'[op.name]["previous"] = tree[op.name]["prefix"]
        /\ tree'[op.name]["prefix"] = Gone
        /\ \A n \in Names, s \in Slots :
             ~(n = op.name /\ s \in {"prefix", "previous"}) => tree'[n][s] = tree[n][s]
        /\ \A n \in Names, s \in Slots : Proper(tree'[n][s])
    BY <1>0, <2>1, MovedEffect
  <2>3. TypeOK'
    BY <1>0, <1>1, <2>2, TreesTyped DEF TypeOK
  <2>4. Staged'
    BY <1>0, <1>1, <2>2 DEF Staged, At
  <2>5. Kept'
    <3>1. \A v \in owned : v # op.name => /\ tree'[v]["prefix"] = tree[v]["prefix"]
                                          /\ tree'[v]["previous"] = tree[v]["previous"]
      BY <1>0, <2>2 DEF TypeOK
    <3>2. tree[op.name]["prefix"] # Gone
      BY <1>2 DEF At, Gone
    <3>3. faults <= 1 => faults \in {0, 1}
      BY <1>0 DEF TypeOK
    <3> QED BY <1>0, <1>1, <2>2, <3>1, <3>2, <3>3 DEF Kept
  <2>6. Released'
    BY <1>0, <1>1, <2>2, GoneProper DEF Released, Staged, Gone, TypeOK
  <2> QED BY <2>3, <2>4, <2>5, <2>6 DEF Sound
<1>3. CASE "dir" \notin At("prefix").parts
  <2>1. UNCHANGED tree
    BY <1>3 DEF Aside
  <2>2. tree[op.name]["prefix"] = Gone
    BY <1>0, <1>3, TreeProper DEF At, Proper
  <2>3. TypeOK'
    BY <1>0, <1>1, <2>1 DEF TypeOK
  <2>4. Staged'
    BY <1>0, <1>1, <2>1, <2>2 DEF Staged, At
  <2>5. Kept'
    BY <1>0, <1>1, <2>1 DEF Kept
  <2>6. Released'
    BY <1>0, <1>1, <2>1 DEF Released, Staged, TypeOK, Gone
  <2> QED BY <2>3, <2>4, <2>5, <2>6 DEF Sound
<1> QED BY <1>2, <1>3

\* The staged tree takes its place.
LEMMA IntoKeeps ==
    ASSUME Sound, Into
    PROVE  /\ Sound'
           /\ Whole(tree'[op.name]["prefix"])
           /\ \A n \in Names : n # op.name => tree'[n]["prefix"] = tree[n]["prefix"]
<1>0. /\ TypeOK /\ Staged /\ Kept /\ Released
      /\ op.name \in Names /\ op.pc = "into" /\ Moved("partial", "prefix")
      /\ owned' = owned \cup (IF op.kind = "upgrade" THEN {} ELSE {op.name})
      /\ returning' = (returning /\ op.kind # "upgrade")
      /\ UNCHANGED <<current, shim, launcher, release, ops, faults>>
      /\ op \in [kind : Kinds, name : Names \cup {None}, pc : Points, replacing : BOOLEAN,
                 to : 0..MaxReleases]
  BY DEF Into, Sound, Staged, TypeOK
<1>1. /\ op'.kind = op.kind /\ op'.name = op.name /\ op'.to = op.to /\ op'.pc = "dropOld"
      /\ op' \in [kind : Kinds, name : Names \cup {None}, pc : Points, replacing : BOOLEAN,
                  to : 0..MaxReleases]
  BY <1>0 DEF Into, Goto
<1>2. /\ tree' \in [Names -> [Slots -> Tree]]
      /\ tree'[op.name]["prefix"] = tree[op.name]["partial"]
      /\ tree'[op.name]["partial"] = Gone
      /\ \A n \in Names, s \in Slots :
           ~(n = op.name /\ s \in {"partial", "prefix"}) => tree'[n][s] = tree[n][s]
      /\ \A n \in Names, s \in Slots : Proper(tree'[n][s])
  BY <1>0, MovedEffect
<1>3. Whole(tree'[op.name]["prefix"])
  BY <1>0, <1>2 DEF Staged, At
<1>4. TypeOK'
  <2>1. owned' \subseteq Versions
    BY <1>0 DEF TypeOK, Staged
  <2> QED BY <1>0, <1>1, <1>2, <2>1, TreesTyped DEF TypeOK
<1>5. Staged'
  BY <1>0, <1>1, <1>2, <1>3 DEF Staged, At
<1>6. Kept'
  <2>1. \A v \in owned : v # op.name => /\ tree'[v]["prefix"] = tree[v]["prefix"]
                                        /\ tree'[v]["previous"] = tree[v]["previous"]
    BY <1>0, <1>2 DEF TypeOK
  <2> QED BY <1>0, <1>1, <1>3, <2>1 DEF Kept
<1>7. Released'
  <2>1. CASE op.kind = "upgrade"
    <3>1. /\ op.name = "tey" /\ tree["tey"]["partial"].of = op.to
          /\ launcher["tey"] = op.to /\ launcher["kex"] = op.to /\ op.to # 0
      BY <1>0, <2>1 DEF Released, Staged
    <3>2. tree'["tey"]["prefix"] \in Tree /\ Whole(tree'["tey"]["prefix"])
      BY <1>2, <1>3, <3>1
    <3>3. tree'["tey"]["prefix"] = [parts |-> Parts, of |-> op.to]
      BY <1>2, <3>1, <3>2 DEF Tree, Whole
    <3>4. op.to \in Nat
      BY <1>0
    <3> HIDE DEF Points, Slots, Kinds, Names
    <3> QED BY <1>0, <1>1, <2>1, <3>1, <3>3, <3>4 DEF Released
  <2>2. CASE op.kind # "upgrade"
    <3>1. /\ tree'["tey"]["prefix"] = tree["tey"]["prefix"]
          /\ tree'["tey"]["previous"] = tree["tey"]["previous"]
      BY <1>0, <1>2, <2>2 DEF Staged
    <3> QED BY <1>0, <1>1, <2>2, <3>1 DEF Released
  <2> QED BY <2>1, <2>2
<1> QED BY <1>2, <1>3, <1>4, <1>5, <1>6, <1>7 DEF Sound

\* What was put aside comes back.
LEMMA BackKeeps ==
    ASSUME Sound, Back
    PROVE  /\ Sound'
           /\ tree[op.name]["prefix"] = Gone
           /\ tree'[op.name]["prefix"] = tree[op.name]["previous"]
           /\ \A n \in Names : n # op.name => tree'[n]["prefix"] = tree[n]["prefix"]
<1>0. /\ TypeOK /\ Staged /\ Kept /\ Released
      /\ op.name \in Names /\ op.pc = "back" /\ Moved("previous", "prefix")
      /\ UNCHANGED <<current, shim, launcher, release, ops, faults, owned, returning>>
      /\ op \in [kind : Kinds, name : Names \cup {None}, pc : Points, replacing : BOOLEAN,
                 to : 0..MaxReleases]
  BY DEF Back, Sound, Staged, TypeOK
<1>1. /\ op'.kind = op.kind /\ op'.name = op.name /\ op'.to = op.to /\ op'.pc = "abandonStaged"
      /\ op' \in [kind : Kinds, name : Names \cup {None}, pc : Points, replacing : BOOLEAN,
                  to : 0..MaxReleases]
  BY <1>0 DEF Back, Goto
<1>2. /\ tree' \in [Names -> [Slots -> Tree]]
      /\ tree'[op.name]["prefix"] = tree[op.name]["previous"]
      /\ tree'[op.name]["previous"] = Gone
      /\ \A n \in Names, s \in Slots :
           ~(n = op.name /\ s \in {"previous", "prefix"}) => tree'[n][s] = tree[n][s]
      /\ \A n \in Names, s \in Slots : Proper(tree'[n][s])
  BY <1>0, MovedEffect
<1>3. TypeOK'
  BY <1>0, <1>1, <1>2, TreesTyped DEF TypeOK
<1>4. Staged'
  BY <1>0, <1>1, <1>2 DEF Staged, At
<1>5. tree[op.name]["prefix"] = Gone
  BY <1>0 DEF Staged, At
<1>6. Kept'
  <2>1. \A v \in owned : v # op.name => /\ tree'[v]["prefix"] = tree[v]["prefix"]
                                        /\ tree'[v]["previous"] = tree[v]["previous"]
    BY <1>0, <1>2 DEF TypeOK
  <2> QED BY <1>0, <1>1, <1>2, <1>5, <2>1, GoneProper DEF Kept
<1>7. Released'
  BY <1>0, <1>1, <1>2 DEF Released, Staged, TypeOK, Gone
<1> QED BY <1>2, <1>3, <1>4, <1>5, <1>6, <1>7 DEF Sound

---------------------------------------------------------------------------
(* Steps that leave the trees alone. *)

\* The selection and the link.
LEMMA SelectionKeeps ==
    ASSUME Sound, Select \/ Link \/ Unselect \/ Unlink
    PROVE  Sound'
<1>0. /\ TypeOK /\ Staged /\ Kept /\ Released
      /\ op.name \in Names /\ op.pc \in {"select", "link", "unselect", "unlink"}
      /\ UNCHANGED <<tree, launcher, release, ops, faults, owned, returning>>
      /\ op \in [kind : Kinds, name : Names \cup {None}, pc : Points, replacing : BOOLEAN,
                 to : 0..MaxReleases]
  BY DEF Select, Link, Unselect, Unlink, Sound, Staged, TypeOK
<1>1. /\ op'.kind = op.kind /\ op'.name = op.name /\ op'.to = op.to /\ op'.pc \in {"link", "unlink", "done"}
      /\ op' \in [kind : Kinds, name : Names \cup {None}, pc : Points, replacing : BOOLEAN,
                  to : 0..MaxReleases]
  BY <1>0 DEF Select, Link, Unselect, Unlink, Goto
<1>2. op.kind # "upgrade" /\ op.name \in Versions
  BY <1>0 DEF Staged
<1>3. current' \in Versions \cup {None} /\ shim' \in Versions \cup {None}
  BY <1>0, <1>2 DEF Select, Link, Unselect, Unlink, TypeOK
<1>4. TypeOK'
  BY <1>0, <1>1, <1>3 DEF TypeOK
<1>5. Staged'
  BY <1>0, <1>1, <1>2 DEF Staged
<1>6. Kept'
  BY <1>0, <1>1 DEF Kept
<1>7. Released'
  BY <1>0, <1>1, <1>2 DEF Released
<1> QED BY <1>4, <1>5, <1>6, <1>7 DEF Sound

\* The launchers, tey before kex.
LEMMA SwapLauncherKeeps ==
    ASSUME Sound, SwapLauncher
    PROVE  Sound'
<1>0. /\ TypeOK /\ Staged /\ Kept /\ Released
      /\ op.name \in Names /\ op.pc \in {"tey", "kex"}
      /\ UNCHANGED <<tree, current, shim, release, ops, faults, owned>>
      /\ returning' = (returning \/ op.to < launcher[op.pc])
      /\ op.kind = "upgrade"
      /\ op \in [kind : Kinds, name : Names \cup {None}, pc : Points, replacing : BOOLEAN,
                 to : 0..MaxReleases]
  BY DEF SwapLauncher, Sound, Staged, TypeOK
<1>1. /\ op'.kind = op.kind /\ op'.name = op.name /\ op'.to = op.to
      /\ op'.pc = IF op.pc = "tey" THEN "kex" ELSE "dropPrevious"
      /\ op' \in [kind : Kinds, name : Names \cup {None}, pc : Points, replacing : BOOLEAN,
                  to : 0..MaxReleases]
  BY <1>0 DEF SwapLauncher, Goto
<1>2. /\ launcher' \in [{"tey", "kex"} -> 1..MaxReleases]
      /\ launcher'[op.pc] = op.to
      /\ \A l \in {"tey", "kex"} : l # op.pc => launcher'[l] = launcher[l]
  <2>1. op.to \in 1..MaxReleases /\ launcher \in [{"tey", "kex"} -> 1..MaxReleases]
    BY <1>0 DEF Released, TypeOK
  <2>2. launcher' = [launcher EXCEPT ![op.pc] = op.to]
    BY DEF SwapLauncher
  <2> QED BY <1>0, <2>1, <2>2
<1>3. TypeOK'
  BY <1>0, <1>1, <1>2 DEF TypeOK
<1>4. Staged'
  BY <1>0, <1>1 DEF Staged, At
<1>5. Kept'
  BY <1>0, <1>1 DEF Kept
<1>6. Released'
  <2>1. /\ launcher["tey"] \in Nat /\ launcher["kex"] \in Nat /\ op.to \in Nat
        /\ tree["tey"]["prefix"].of \in Nat /\ tree["tey"]["previous"].of \in Nat
    BY <1>0, TreeProper DEF TypeOK, Proper, Tree
  <2>2. CASE op.pc = "tey"
    <3>1. op'.pc = "kex" /\ launcher'["tey"] = op.to /\ launcher'["kex"] = launcher["kex"]
      BY <1>1, <1>2, <2>2
    <3>2. ~returning' => ~returning /\ op.to >= launcher["tey"]
      <4>1. ~returning' => ~returning /\ ~(op.to < launcher[op.pc])
        BY <1>0, Zenon
      <4> QED BY <2>1, <2>2, <4>1
    <3>3. Released /\ UNCHANGED tree /\ op.kind = "upgrade"
      BY <1>0
    <3> QED BY <3>3, <1>1, <2>1, <2>2, <3>1, <3>2 DEF Released
  <2>3. CASE op.pc = "kex"
    <3>1. /\ op'.pc = "dropPrevious" /\ launcher'["kex"] = op.to
          /\ launcher'["tey"] = launcher["tey"]
      BY <1>1, <1>2, <2>3
    <3>2. ~returning' => ~returning
      BY <1>0, Zenon
    <3>3. Released /\ UNCHANGED tree /\ op.kind = "upgrade"
      BY <1>0
    <3> QED BY <3>3, <1>1, <2>1, <2>3, <3>1, <3>2 DEF Released
  <2> QED BY <1>0, <2>2, <2>3
<1> QED BY <1>3, <1>4, <1>5, <1>6 DEF Sound

\* A file operation fails.
LEMMA FailsKeeps ==
    ASSUME Sound, Fails
    PROVE  Sound'
<1>0. /\ TypeOK /\ Staged /\ Kept /\ Released
      /\ op.pc \in DOMAIN FailureAt /\ op.pc # "idle" /\ op.name \in Names
      /\ UNCHANGED <<tree, current, shim, launcher, release, ops, owned, returning>>
      /\ op \in [kind : Kinds, name : Names \cup {None}, pc : Points, replacing : BOOLEAN,
                 to : 0..MaxReleases]
  BY DEF Fails, FailureAt, Sound, Staged, TypeOK
<1>1. /\ faults \in Nat /\ faults' = faults + 1 /\ faults' \in 0..MaxFaults
  BY DEF Fails, Sound, TypeOK
<1>2. /\ FailureAt[op.pc] \in {"abandonUnpacked", "abandonStaged", "back", "failed", "done"}
      /\ FailureAt[op.pc] = "back" => op.pc = "into"
  BY <1>0 DEF FailureAt
<1>3. /\ op'.kind = op.kind /\ op'.name = op.name /\ op'.to = op.to /\ op'.pc = FailureAt[op.pc]
      /\ op' \in [kind : Kinds, name : Names \cup {None}, pc : Points, replacing : BOOLEAN,
                  to : 0..MaxReleases]
  BY <1>0, <1>2 DEF Fails, Goto
<1>4. TypeOK'
  BY <1>0, <1>1, <1>3 DEF TypeOK
<1>5. Staged'
  BY <1>0, <1>2, <1>3 DEF Staged, At
<1>6. Kept'
  BY <1>0, <1>1, <1>2, <1>3 DEF Kept
<1>7. Released'
  <2>1. op.kind = "upgrade" => FailureAt[op.pc] # "done"
    BY <1>0 DEF FailureAt, Staged
  <2> QED BY <1>0, <1>2, <1>3, <2>1 DEF Released
<1> QED BY <1>4, <1>5, <1>6, <1>7 DEF Sound

\* The process dies: whatever its trees are, no command is at work on them.
LEMMA KilledKeeps ==
    ASSUME Sound, Killed
    PROVE  Sound'
<1>0. /\ TypeOK /\ Staged /\ Kept /\ Released
      /\ UNCHANGED <<tree, shim, launcher, release, ops, owned, returning>>
      /\ op' = Idle /\ current' \in Versions \cup {None}
      /\ faults \in Nat /\ faults' = faults + 1 /\ faults' \in 0..MaxFaults
  BY DEF Killed, Sound, TypeOK
<1>1. TypeOK'
  BY <1>0 DEF TypeOK, Idle
<1>2. Staged'
  BY <1>0 DEF Staged, Idle, None
<1>3. Kept'
  BY <1>0 DEF Kept, Idle
<1>4. Released'
  BY <1>0 DEF Released, Idle
<1> QED BY <1>1, <1>2, <1>3, <1>4 DEF Sound

\* A new release: an upgrade under way goes on to the one it began with.
LEMMA ReleaseKeeps ==
    ASSUME Sound, Release
    PROVE  Sound'
<1>0. /\ TypeOK /\ Staged /\ Kept /\ Released
      /\ UNCHANGED <<tree, current, shim, launcher, op, ops, faults, owned, returning>>
      /\ release \in Nat /\ release' = release + 1 /\ release' \in 1..MaxReleases
  BY DEF Release, Sound, TypeOK
<1>1. TypeOK' /\ Staged' /\ Kept'
  BY <1>0 DEF TypeOK, Staged, Kept, At
<1>2. Released'
  BY <1>0 DEF Released, TypeOK
<1> QED BY <1>1, <1>2 DEF Sound

---------------------------------------------------------------------------
(* Every step. *)

LEMMA NextSound == Sound /\ [Next]_vars => Sound'
<1> SUFFICES ASSUME Sound, [Next]_vars PROVE Sound'
  OBVIOUS
<1>1. ASSUME NEW v \in Versions,
             InstallArchive(v) \/ InstallSource(v) \/ Use(v) \/ Uninstall(v)
      PROVE  Sound'
  <2>0. v \in Names /\ v # "tey"
    OBVIOUS
  <2>1. CASE InstallArchive(v)
    BY <2>0, <2>1, BeginKeeps DEF InstallArchive, Begin
  <2>2. CASE InstallSource(v)
    BY <2>0, <2>2, BeginKeeps DEF InstallSource, Begin
  <2>3. CASE Use(v)
    BY <2>0, <2>3, BeginKeeps DEF Use, Begin
  <2>4. CASE Uninstall(v)
    BY <2>0, <2>4, BeginKeeps DEF Uninstall, Begin
  <2> QED BY <1>1, <2>1, <2>2, <2>3, <2>4
<1>2. ASSUME NEW r \in 1..MaxReleases, Upgrade(r) PROVE Sound'
  BY <1>2, BeginKeeps DEF Upgrade
<1>3. CASE Unpack
  BY <1>3, WritingKeeps DEF Unpack
<1>4. CASE Fill
  BY <1>4, WritingKeeps DEF Fill
<1>5. CASE UNCHANGED vars
  BY <1>5 DEF vars, Sound, TypeOK, Staged, Kept, Released, At
<1> QED
  BY <1>1, <1>2, <1>3, <1>4, <1>5, DeleteAllKeeps, MoveKeeps, AsideKeeps, IntoKeeps,
     BackKeeps, SelectionKeeps, SwapLauncherKeeps, FailsKeeps, KilledKeeps, ReleaseKeeps
     DEF Next

---------------------------------------------------------------------------
(* The selection. *)

\* Points at which neither the selection nor an install's result is at stake.
Elsewhere == Points \ {"into", "back", "dropOld", "select", "link", "done", "remove",
                       "unselect", "unlink"}

\* Nothing is installed or selected at the start.
LEMMA InitChosen == Init => Finished /\ Agreed
<1> SUFFICES ASSUME Init PROVE Finished /\ Agreed
  OBVIOUS
<1>1. \A v \in Versions : tree[v]["prefix"] = Gone
  BY DEF Init
<1>2. current = None /\ shim = None /\ op.kind = "use" /\ op.pc = "idle"
  BY DEF Init, Idle
<1> QED BY <1>1, <1>2 DEF Finished, Agreed

\* A command that works on trees beside a prefix, or on nothing, selects nothing.
LEMMA ElsewhereKeeps ==
    ASSUME Sound, Agreed, op.pc \in Elsewhere, op'.pc \in Elsewhere,
           op'.name = op.name, UNCHANGED <<current, shim, faults>>,
           \A v \in Versions : tree'[v]["prefix"] = tree[v]["prefix"]
    PROVE  Finished' /\ Agreed'
<1>1. Finished'
  BY DEF Finished, Elsewhere
<1>2. current \in Versions \cup {None}
  BY DEF Sound, TypeOK
<1>3. Agreed'
  BY <1>2 DEF Agreed, Elsewhere
<1> QED BY <1>1, <1>3

\* A command that begins finds its prefix whole or empty, and selects only a whole one.
LEMMA BeginChooses ==
    ASSUME Sound, Agreed, Ready, NEW kind \in Kinds, NEW v \in Names, NEW pc \in Points,
           NEW to \in 0..MaxReleases, Starts(kind, v, pc, to),
           \/ pc = "clearUnpacked" /\ kind \in {"archive", "upgrade"}
           \/ pc = "clear" /\ kind \in {"source", "adopt"}
           \/ pc = "select" /\ kind = "use" /\ v \in Versions /\ Installed(v)
           \/ pc = "remove" /\ kind = "uninstall"
    PROVE  Finished' /\ Agreed'
<1>1. /\ op' = [kind |-> kind, name |-> v, pc |-> pc, replacing |-> FALSE, to |-> to]
      /\ UNCHANGED <<tree, current, shim, faults>>
      /\ op.pc \in {"idle", "done", "failed"}
  BY DEF Starts, Ready
<1>2. Finished'
  BY <1>1 DEF Finished
<1>3. ASSUME faults = 0, pc = "select" PROVE Whole(tree[v]["prefix"])
  BY <1>1, <1>3 DEF Agreed, Installed, Gone
<1>4. Agreed'
  BY <1>1, <1>3 DEF Agreed, At
<1> QED BY <1>2, <1>4

\* A deletion: what is removed from its prefix is still selected, and an install
\* selects only when the old tree is gone.
LEMMA DeleteAllChooses ==
    ASSUME Sound, Finished, Agreed, DeleteAll
    PROVE  Finished' /\ Agreed'
<1> DEFINE d == Deletion[op.pc]
<1>0. /\ TypeOK /\ Staged
      /\ op.name \in Names /\ op.pc \in DOMAIN Deletion
      /\ UNCHANGED <<current, shim, faults>> /\ current \in Versions \cup {None}
      /\ op \in [kind : Kinds, name : Names \cup {None}, pc : Points, replacing : BOOLEAN,
                 to : 0..MaxReleases]
  <2>1. op.pc \in DOMAIN Deletion /\ op.pc # "idle"
    BY DEF DeleteAll, Deletion
  <2> QED BY <2>1 DEF DeleteAll, Sound, Staged, TypeOK
<1>1. /\ \/ op.pc = "clearUnpacked" /\ d.slot = "unpacked" /\ d.then = "unpack"
         \/ op.pc = "clear" /\ d.slot = "partial" /\ d.then = AfterClearing
         \/ op.pc = "dropUnpacked" /\ d.slot = "unpacked" /\ d.then = AfterUnpacked
         \/ op.pc = "dropPrevious" /\ d.slot = "previous" /\ d.then = "aside"
         \/ /\ op.pc = "dropOld" /\ d.slot = "previous"
            /\ d.then = IF op.kind = "upgrade" THEN "done" ELSE "select"
         \/ op.pc = "remove" /\ d.slot = "prefix" /\ d.then = "unselect"
         \/ /\ op.pc = "abandonUnpacked" /\ d.slot = "unpacked"
            /\ d.then = IF op.kind = "upgrade" THEN "abandonStaged" ELSE "failed"
         \/ op.pc = "abandonStaged" /\ d.slot = "partial" /\ d.then = "failed"
      /\ d.slot \in Slots
  BY <1>0, DeletionAt
<1>2. \/ At(d.slot) = Gone /\ Goto(d.then) /\ UNCHANGED tree
      \/ At(d.slot) # Gone /\ UNCHANGED op
         /\ \E t \in Smaller(At(d.slot)) : Put(d.slot, t)
  BY DEF DeleteAll
<1> HIDE DEF d
<1>3. CASE At(d.slot) = Gone /\ Goto(d.then) /\ UNCHANGED tree
  <2>1. /\ op'.kind = op.kind /\ op'.name = op.name /\ op'.to = op.to /\ op'.pc = d.then
        /\ d.then \in Points /\ UNCHANGED tree
    BY <1>0, <1>1, <1>3 DEF Goto, AfterClearing, AfterUnpacked
  <2>2. CASE op.pc \notin {"dropOld", "remove"}
    BY <1>0, <1>1, <2>1, <2>2, ElsewhereKeeps DEF Elsewhere, AfterClearing, AfterUnpacked
  <2>3. CASE op.pc = "dropOld"
    <3>1. Whole(At("prefix")) /\ At("previous") = Gone
      BY <1>0, <1>1, <1>3, <2>3 DEF Staged
    <3> QED BY <1>0, <1>1, <2>1, <2>3, <3>1 DEF Finished, Agreed, At
  <2>4. CASE op.pc = "remove"
    <3>1. tree[op.name]["prefix"] = Gone /\ op'.pc = "unselect"
      BY <1>1, <1>3, <2>1, <2>4 DEF At
    <3> QED BY <1>0, <2>1, <2>4, <3>1 DEF Finished, Agreed
  <2> QED BY <2>2, <2>3, <2>4
<1>4. CASE At(d.slot) # Gone /\ UNCHANGED op
           /\ \E t \in Smaller(At(d.slot)) : Put(d.slot, t)
  <2>1. PICK t \in Smaller(At(d.slot)) : Put(d.slot, t)
    BY <1>4
  <2>2. /\ t \in Tree /\ t.of = At(d.slot).of
        /\ t.parts = {} \/ "dir" \in t.parts
    BY <1>0, <1>1, <1>4, TreeProper, SmallerProper DEF At
  <2>3. \A n \in Names, s \in Slots :
          ~(n = op.name /\ s = d.slot) => tree'[n][s] = tree[n][s]
    BY <1>0, <1>1, <2>1, <2>2, PutEffect
  <2>4. CASE op.pc \notin {"dropOld", "remove"}
    BY <1>0, <1>1, <1>4, <2>3, <2>4, ElsewhereKeeps DEF Elsewhere
  <2>5. CASE op.pc = "dropOld"
    BY <1>0, <1>1, <1>4, <2>3, <2>5 DEF Finished, Agreed, At
  <2>6. CASE op.pc = "remove"
    BY <1>0, <1>1, <1>4, <2>3, <2>6 DEF Finished, Agreed
  <2> QED BY <2>4, <2>5, <2>6
<1> QED BY <1>2, <1>3, <1>4

\* Filling a tree beside its prefix.
LEMMA StagingChooses ==
    ASSUME Sound, Agreed, Unpack \/ Fill \/ Move
    PROVE  Finished' /\ Agreed'
<1>0. /\ TypeOK /\ op.name \in Names /\ op.pc \in {"unpack", "fill", "move"}
      /\ UNCHANGED <<current, shim, faults>>
      /\ op \in [kind : Kinds, name : Names \cup {None}, pc : Points, replacing : BOOLEAN,
                 to : 0..MaxReleases]
  BY DEF Unpack, Fill, Move, Writing, Sound, Staged, TypeOK
<1>1. op'.name = op.name /\ op'.to = op.to /\ op'.pc \in Elsewhere
  BY <1>0 DEF Unpack, Fill, Move, Writing, Goto, FillNext, Elsewhere
<1>2. ASSUME NEW slot \in {"partial", "unpacked"}, NEW then, Writing(slot, then)
      PROVE  \A v \in Versions : tree'[v]["prefix"] = tree[v]["prefix"]
  <2>1. CASE UNCHANGED tree
    BY <2>1
  <2>2. CASE \E t \in Larger(At(slot)) : Put(slot, t)
    BY <1>0, <1>2, <2>2 DEF Put, TypeOK
  <2> QED BY <1>2, <2>1, <2>2 DEF Writing
<1>3. Move => \A v \in Versions : tree'[v]["prefix"] = tree[v]["prefix"]
  BY <1>0 DEF Move, TypeOK
<1> QED BY <1>0, <1>1, <1>2, <1>3, ElsewhereKeeps DEF Unpack, Fill, Elsewhere

\* A selected version has an empty prefix only until publish puts the new tree there.
LEMMA PublishChooses ==
    ASSUME Sound, Agreed, Aside \/ Into
    PROVE  Finished' /\ Agreed'
<1>0. /\ TypeOK /\ Staged /\ op.name \in Names /\ op.pc \in {"aside", "into"}
      /\ UNCHANGED <<current, shim, faults>> /\ current \in Versions \cup {None}
      /\ op \in [kind : Kinds, name : Names \cup {None}, pc : Points, replacing : BOOLEAN,
                 to : 0..MaxReleases]
  BY DEF Aside, Into, Sound, Staged, TypeOK
<1>1. CASE Aside
  <2>1. op.pc = "aside" /\ op'.kind = op.kind /\ op'.name = op.name /\ op'.to = op.to /\ op'.pc = "into"
    BY <1>0, <1>1 DEF Aside
  <2>2. /\ tree'[op.name]["prefix"] = Gone
        /\ \A n \in Names : n # op.name => tree'[n]["prefix"] = tree[n]["prefix"]
    <3>1. CASE "dir" \in At("prefix").parts
      <4>1. Moved("prefix", "previous")
        BY <1>1, <3>1 DEF Aside
      <4> QED BY <1>0, <4>1, MovedEffect
    <3>2. CASE "dir" \notin At("prefix").parts
      <4>1. UNCHANGED tree
        BY <1>1, <3>2 DEF Aside
      <4>2. tree[op.name]["prefix"] = Gone
        BY <1>0, <3>2, TreeProper DEF At, Proper
      <4> QED BY <4>1, <4>2
    <3> QED BY <3>1, <3>2
  <2> QED BY <1>0, <2>1, <2>2 DEF Finished, Agreed
<1>2. CASE Into
  <2>1. op.pc = "into" /\ op'.kind = op.kind /\ op'.name = op.name /\ op'.to = op.to /\ op'.pc = "dropOld"
    BY <1>0, <1>2 DEF Into, Goto
  <2>2. /\ tree'[op.name]["partial"] = Gone /\ Whole(tree'[op.name]["prefix"])
        /\ \A n \in Names : n # op.name => tree'[n]["prefix"] = tree[n]["prefix"]
    <3>1. Moved("partial", "prefix")
      BY <1>2 DEF Into
    <3> QED BY <1>0, <1>2, <3>1, MovedEffect, IntoKeeps
  <2> QED BY <1>0, <2>1, <2>2 DEF Finished, Agreed, At
<1> QED BY <1>1, <1>2

\* The selection and the link are set one after the other, to the same whole toolchain.
LEMMA SelectionChooses ==
    ASSUME Sound, Finished, Agreed, Select \/ Link \/ Unselect \/ Unlink
    PROVE  Finished' /\ Agreed'
<1>0. /\ op.name \in Names /\ op.name # None /\ UNCHANGED <<tree, faults>>
      /\ current \in Versions \cup {None}
      /\ op \in [kind : Kinds, name : Names \cup {None}, pc : Points, replacing : BOOLEAN,
                 to : 0..MaxReleases]
  BY DEF Select, Link, Unselect, Unlink, Sound, Staged, TypeOK, None
<1>1. CASE Select
  <2>1. /\ op.pc = "select" /\ op'.kind = op.kind /\ op'.name = op.name /\ op'.to = op.to
        /\ op'.pc = "link" /\ current' = op.name
    BY <1>0, <1>1 DEF Select, Goto
  <2> QED BY <1>0, <2>1 DEF Finished, Agreed, At
<1>2. CASE Link
  <2>1. /\ op.pc = "link" /\ op'.kind = op.kind /\ op'.name = op.name /\ op'.to = op.to
        /\ op'.pc = "done" /\ current' = current
        /\ Installed(op.name) => shim' = op.name
    BY <1>0, <1>2 DEF Link, Goto
  <2>2. Whole(tree[op.name]["prefix"]) => Installed(op.name)
    BY DEF Whole, Installed, Parts
  <2> QED BY <1>0, <2>1, <2>2 DEF Finished, Agreed, At
<1>3. CASE Unselect
  <2>1. /\ op.pc = "unselect" /\ op'.kind = op.kind /\ op'.name = op.name /\ op'.to = op.to
        /\ op'.pc = IF current = op.name THEN "unlink" ELSE "done"
        /\ current' = IF current = op.name THEN None ELSE current
        /\ shim' = shim
    BY <1>0, <1>3 DEF Unselect, Goto
  <2> QED BY <1>0, <2>1 DEF Finished, Agreed
<1>4. CASE Unlink
  <2>1. /\ op.pc = "unlink" /\ op'.kind = op.kind /\ op'.name = op.name /\ op'.to = op.to
        /\ op'.pc = "done" /\ current' = current /\ shim' = None
    BY <1>0, <1>4 DEF Unlink, Goto
  <2> QED BY <1>0, <2>1 DEF Finished, Agreed
<1> QED BY <1>1, <1>2, <1>3, <1>4

\* A fault excuses the selection, and leaves no install done but one that only
\* could not make its link.
LEMMA FaultChooses ==
    ASSUME Sound, Finished, Agreed, Fails \/ Killed \/ Back
    PROVE  Finished' /\ Agreed'
<1>1. CASE Back
  <2>1. op'.pc = "abandonStaged" /\ faults # 0 /\ UNCHANGED faults
    BY <1>1 DEF Back, Goto, Agreed, Sound, TypeOK
  <2> QED BY <2>1 DEF Finished, Agreed
<1>2. ASSUME Fails \/ Killed PROVE Agreed'
  <2>1. faults \in Nat /\ faults' = faults + 1
    BY <1>2 DEF Fails, Killed, Sound, TypeOK
  <2> QED BY <2>1 DEF Agreed
<1>3. CASE Fails
  <2>1. /\ op.pc \in DOMAIN FailureAt /\ UNCHANGED <<tree, current>>
        /\ op'.kind = op.kind /\ op'.name = op.name /\ op'.to = op.to /\ op'.pc = FailureAt[op.pc]
    BY <1>3 DEF Fails, Goto, Sound, TypeOK
  <2>2. /\ op'.pc \notin {"dropOld", "select", "link", "remove", "unselect", "unlink"}
        /\ op'.pc = "done" => op.pc = "link"
    BY <2>1 DEF FailureAt
  <2>3. Finished'
    BY <2>1, <2>2 DEF Finished, At
  <2> QED BY <1>2, <1>3, <2>3
<1>4. CASE Killed
  <2>1. op'.kind = "use"
    BY <1>4 DEF Killed, Idle
  <2>2. Finished'
    BY <2>1 DEF Finished
  <2> QED BY <1>2, <1>4, <2>2
<1> QED BY <1>1, <1>3, <1>4

\* Every step keeps what a command has done, and what is selected.
LEMMA NextChosen ==
    ASSUME Sound, Finished, Agreed, [Next]_vars
    PROVE  Finished' /\ Agreed'
<1>1. ASSUME NEW v \in Versions,
             InstallArchive(v) \/ InstallSource(v) \/ Use(v) \/ Uninstall(v)
      PROVE  Finished' /\ Agreed'
  <2>0. v \in Names
    OBVIOUS
  <2>1. CASE InstallArchive(v)
    BY <2>0, <2>1, BeginChooses DEF InstallArchive, Begin
  <2>2. CASE InstallSource(v)
    BY <2>0, <2>2, BeginChooses DEF InstallSource, Begin
  <2>3. CASE Use(v)
    BY <2>0, <2>3, BeginChooses DEF Use, Begin
  <2>4. CASE Uninstall(v)
    BY <2>0, <2>4, BeginChooses DEF Uninstall, Begin
  <2> QED BY <1>1, <2>1, <2>2, <2>3, <2>4
<1>2. ASSUME NEW r \in 1..MaxReleases, Upgrade(r) PROVE Finished' /\ Agreed'
  BY <1>2, BeginChooses DEF Upgrade
<1>3. CASE SwapLauncher
  <2>1. /\ op.pc \in Elsewhere /\ op'.pc \in Elsewhere /\ op'.name = op.name /\ op'.to = op.to
        /\ UNCHANGED <<tree, current, shim, faults>>
    BY <1>3 DEF SwapLauncher, Goto, Elsewhere, Sound, TypeOK
  <2> QED BY <2>1, ElsewhereKeeps
<1>4. CASE Release \/ UNCHANGED vars
  BY <1>4 DEF Release, vars, Finished, Agreed, At
<1> QED
  BY <1>1, <1>2, <1>3, <1>4, DeleteAllChooses, StagingChooses, PublishChooses,
     SelectionChooses, FaultChooses DEF Next

---------------------------------------------------------------------------
(* The theorems. *)

\* Where a command is says what lies in its trees and what is selected, in every state.
THEOREM AlwaysConsistent == Spec => []Consistent
<1>1. Init => Consistent
  BY InitSound, InitChosen DEF Sound, Consistent
<1>2. Consistent /\ [Next]_vars => Consistent'
  BY NextSound, NextChosen DEF Sound, Consistent
<1> QED BY <1>1, <1>2, PTL DEF Spec

\* An install that says it succeeded left its toolchain whole and selected with
\* nothing beside it; and between commands that met no fault the selection and
\* the shim name one whole toolchain, or none.
THEOREM SelectionHolds == Spec => []Selection
<1>1. Consistent => Selection
  <2> SUFFICES ASSUME Consistent PROVE InstallDone /\ SelectedRuns
    BY DEF Selection
  <2>1. InstallDone
    BY DEF Consistent, Finished, InstallDone, At
  <2>2. SelectedRuns
    BY DEF Consistent, Agreed, SelectedRuns
  <2> QED BY <2>1, <2>2
<1> QED BY <1>1, AlwaysConsistent, PTL

\* A version that was installed and not removed survives any one fault.
THEOREM OneFaultLosesNothing == Spec => []NotLost
<1>1. Consistent => NotLost
  <2> SUFFICES ASSUME Consistent, faults <= 1, NEW v \in owned
               PROVE  \E slot \in {"prefix", "previous", "partial"} : Whole(tree[v][slot])
    BY DEF NotLost
  <2> QED BY DEF Consistent, Kept, Staged, At
<1> QED BY <1>1, AlwaysConsistent, PTL

\* An upgrade that succeeds leaves everything of the release it was asked for; and
\* however one ends, tey is not older than kex, nor kex than what both run, unless
\* a return to an older release was cut short.
THEOREM UpgradesInOrder == Spec => []UpgradeOrder
<1>1. Consistent => UpgradeOrder
  BY TreeProper DEF Consistent, TypeOK, Released, UpgradeOrder, Proper, Tree
<1> QED BY <1>1, AlwaysConsistent, PTL

\* Staging, the selection, the launchers and faults leave every prefix alone.
LEMMA PrefixKept ==
    ASSUME Sound, [Next]_vars, NEW n \in Names,
           tree'[n]["prefix"] # tree[n]["prefix"]
    PROVE  DeleteAll \/ Aside \/ Into \/ Back
<1>1. TypeOK /\ (op.pc # "idle" => op.name \in Names)
  BY DEF Sound, Staged
<1>2. CASE UNCHANGED tree
  BY <1>2
<1>3. ASSUME NEW slot \in {"partial", "unpacked"}, NEW then, Writing(slot, then),
             op.pc # "idle"
      PROVE  FALSE
  <2>1. PICK t \in Larger(At(slot)) : Put(slot, t)
    BY <1>3 DEF Writing
  <2>2. tree' = [tree EXCEPT ![op.name][slot] = IF t.parts = {} THEN Gone ELSE t]
    BY <2>1 DEF Put
  <2> QED BY <1>1, <1>3, <2>2 DEF TypeOK
<1>4. CASE Move
  <2>1. tree' = [tree EXCEPT ![op.name]["partial"] = At("unpacked"),
                             ![op.name]["unpacked"] = [Gone EXCEPT !.parts = {"dir"}]]
    BY <1>4 DEF Move
  <2> QED BY <1>1, <2>1 DEF TypeOK
<1> QED
  BY <1>2, <1>3, <1>4
     DEF Next, vars, Unpack, Fill, InstallArchive, InstallSource, Use, Uninstall, Upgrade,
         Ready, Select, Link, Unselect, Unlink, SwapLauncher, Fails, Killed, Release

\* A deletion only takes parts of a prefix, and putting it aside takes all.
LEMMA PrefixShrinks ==
    ASSUME Sound, DeleteAll \/ Aside, NEW n \in Names
    PROVE  /\ tree'[n]["prefix"].parts \subseteq tree[n]["prefix"].parts
           /\ tree'[n]["prefix"].of \in {0, tree[n]["prefix"].of}
<1>1. TypeOK /\ (op.pc # "idle" => op.name \in Names)
  BY DEF Sound, Staged
<1>2. CASE Aside
  <2>1. CASE "dir" \in At("prefix").parts
    <3>1. Moved("prefix", "previous") /\ op.name \in Names
      BY <1>1, <1>2, <2>1 DEF Aside
    <3>2. tree'[n]["prefix"] = IF n = op.name THEN Gone ELSE tree[n]["prefix"]
      BY <1>1, <3>1, MovedEffect
    <3> QED BY <3>2 DEF Gone
  <2>2. CASE "dir" \notin At("prefix").parts
    BY <1>2, <2>2 DEF Aside
  <2> QED BY <2>1, <2>2
<1>3. CASE DeleteAll
  <2> DEFINE d == Deletion[op.pc]
  <2>1. d.slot \in Slots /\ op.name \in Names
    <3>1. op.pc \in DOMAIN Deletion /\ op.pc # "idle"
      BY <1>3 DEF DeleteAll, Deletion
    <3> QED BY <1>1, <3>1, DeletionAt
  <2>2. \/ UNCHANGED tree
        \/ At(d.slot) # Gone /\ \E t \in Smaller(At(d.slot)) : Put(d.slot, t)
    BY <1>3 DEF DeleteAll
  <2> HIDE DEF d
  <2>3. CASE At(d.slot) # Gone /\ \E t \in Smaller(At(d.slot)) : Put(d.slot, t)
    <3>1. PICK t \in Smaller(At(d.slot)) : Put(d.slot, t)
      BY <2>3
    <3>2. /\ t \in Tree /\ t.of = At(d.slot).of /\ t.parts \subseteq At(d.slot).parts
          /\ t.parts = {} \/ "dir" \in t.parts
      BY <1>1, <2>1, <2>3, TreeProper, SmallerProper DEF At
    <3>3. /\ tree'[op.name][d.slot] = IF t.parts = {} THEN Gone ELSE t
          /\ \A s \in Slots :
               ~(n = op.name /\ s = d.slot) => tree'[n][s] = tree[n][s]
      BY <1>1, <2>1, <3>1, <3>2, PutEffect
    <3> QED BY <3>2, <3>3 DEF At, Gone
  <2> QED BY <2>2, <2>3
<1> QED BY <1>2, <1>3

\* What a step puts at a prefix is a whole tree, or the one that stood there.
THEOREM OnlyWholeIsPublished == Spec => PublishedWhole
<1>1. Consistent => Sound
  BY DEF Consistent, Sound
<1>2. Sound /\ [Next]_vars => [Published]_vars
  <2> SUFFICES ASSUME Sound, [Next]_vars, NEW n \in Names,
                      tree'[n]["prefix"] # tree[n]["prefix"]
               PROVE  \/ /\ tree'[n]["prefix"].parts \subseteq tree[n]["prefix"].parts
                         /\ tree'[n]["prefix"].of \in {0, tree[n]["prefix"].of}
                      \/ Whole(tree'[n]["prefix"])
                      \/ /\ tree[n]["prefix"] = Gone /\ op.pc = "back"
                         /\ tree'[n]["prefix"] = tree[n]["previous"]
    BY DEF Published
  <2>1. DeleteAll \/ Aside \/ Into \/ Back
    BY PrefixKept DEF Next, vars
  <2>2. CASE DeleteAll \/ Aside
    BY <2>2, PrefixShrinks
  <2>3. CASE Into
    BY <2>3, IntoKeeps
  <2>4. CASE Back
    BY <2>4, BackKeeps DEF Back
  <2> QED BY <2>1, <2>2, <2>3, <2>4
<1> QED BY <1>1, <1>2, AlwaysConsistent, PTL DEF Spec, PublishedWhole
=============================================================================
