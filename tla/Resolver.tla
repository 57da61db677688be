------------------------------ MODULE Resolver ------------------------------
(***************************************************************************)
(* How Tey turns the dependencies a project declares into pinned packages  *)
(* (tey/src/tey/resolver.kex with semver.kex and git.kex): breadth first   *)
(* over the graph, one package per name, each pinned when it is first met  *)
(* and checked against every range asked for after that.                   *)
(*                                                                         *)
(* A workspace resolves several lists, what its members ask for and what   *)
(* each package at a local path does, one after the other and each from    *)
(* nothing; what they pin is then merged.  A package's own dependencies    *)
(* are known once its checkout is read: which it has is chosen then, once  *)
(* and for all.                                                            *)
(*                                                                         *)
(* A version is a number, some of them pre-releases; a requirement is the  *)
(* set of its clauses.  A tag names a version, alone or after the name of  *)
(* one package of its repository; a commit has one tag at most, and no     *)
(* repository changes while Tey resolves.                                  *)
(***************************************************************************)
EXTENDS Integers, Sequences, FiniteSets, SequencesExt

CONSTANTS
    Packages,     \* package names
    Begins,       \* the <<n, m>> where the tags m-v... of m begin with n-v too
    Tags,         \* of each repository, the tags it publishes
    PreReleases,  \* the versions that are pre-releases
    Offers,       \* the dependencies a package may declare
    RootLists,    \* the lists a project may begin from
    MaxDeclared,  \* bound: dependencies a fetched package declares
    MaxFaults     \* bound: git commands and fetches that fail

Repositories == DOMAIN Tags

\* A commit: its repository and the tag it has, or a number if it has none.
Commit ==
    (Repositories \cup {"none"}) \X (Packages \cup {"none", "untagged"}) \X Nat
\* The clause "name" is a text that is no version.
Clause == [op : {">=", "<", "=", "name"}, version : Nat]
\* What a manifest asks for: a range of tags, or one tag, branch or ref.  Of the
\* latter, named is the version its name is read as, and commit is where it points.
Dependency ==
    [name : Packages, source : {"git", "workspace", "path"}, repo : Repositories,
     selector : {"range", "tag", "branch", "ref", "none"}, clauses : SUBSET Clause,
     named : Nat, commit : Commit, grouped : BOOLEAN]
Pin == [name : Packages, repo : Repositories, version : Nat, commit : Commit]
\* The git dependencies of a project, or of a package at a local path.
List == [of : {"root", "path"}, wants : Seq(Offers)]

ASSUME ResolverAssumption ==
    /\ \A r \in Repositories :
          Tags[r] \subseteq [scope : Packages \cup {"none"}, version : Nat \ {0}]
    /\ Offers \subseteq Dependency
    /\ Begins \subseteq Packages \X Packages
    /\ RootLists \subseteq Seq(List) \ {<<>>}
    /\ {"root", "path", "none", "untagged"} \cap Packages = {} /\ "none" \notin Repositories
    /\ MaxDeclared \in Nat /\ MaxFaults \in Nat

NoVersion == 0  \* what a text is read as that is no version

---------------------------------------------------------------------------
(* Requirements.  Whatever is asked for becomes a clause, the name of a    *)
(* branch too: one that is read as a version is met by that version, any   *)
(* other by nothing. *)

SatisfiesClause(v, c) ==
    CASE c.op = ">=" -> v >= c.version
      [] c.op = "<"  -> v < c.version
      [] c.op = "="  -> v = c.version
      [] OTHER       -> FALSE

AsksForPreRelease(clauses) == \E c \in clauses : c.version \in PreReleases

Satisfies(v, clauses) ==
    /\ v # NoVersion
    /\ v \in PreReleases => clauses = {} \/ AsksForPreRelease(clauses)
    /\ \A c \in clauses : SatisfiesClause(v, c)

Intersect(a, b) == a \cup b

---------------------------------------------------------------------------
VARIABLES
    lists,     \* root lists that are still to be resolved
    queue,     \* dependencies of this list not yet looked at, and who asks
    resolved,  \* what this list has pinned, in order
    wanted,    \* of each name, the clauses asked so far
    gits,      \* of each name, the repository asked so far
    locked,    \* what the lists before this one pinned
    manifest,  \* of each checkout read, the dependencies it declares
    faults,    \* git commands and fetches that have failed
    result,    \* none, ok or error
    asked      \* history: who asked what, of all lists

vars == <<lists, queue, resolved, wanted, gits, locked, manifest, faults,
          result, asked>>

Names(pins) == {pin.name : pin \in ToSet(pins)}
PinOf(pins, name) == CHOOSE pin \in ToSet(pins) : pin.name = name

\* Who asks: a package, a project's own manifest, or that of a local path.
Entry == [dependency : Dependency, by : Packages \cup {"root", "path"}]

TypeOK ==
    /\ result \in {"none", "ok", "error"} /\ faults \in 0..MaxFaults
    /\ lists \in Seq(List) /\ queue \in Seq(Entry) /\ asked \subseteq Entry
    /\ resolved \in Seq(Pin) /\ locked \in Seq(Pin)
    /\ wanted \in [Packages -> SUBSET Clause]
    /\ gits \in [Packages -> Repositories \cup {"none"}]
    /\ DOMAIN manifest \subseteq Packages \X Commit
    /\ \A at \in DOMAIN manifest : manifest[at] \in Seq(Offers)
    /\ \A pin \in ToSet(resolved) \cup ToSet(locked) :
          <<pin.name, pin.commit>> \in DOMAIN manifest

---------------------------------------------------------------------------
(* What to pin. *)

\* Faulty: every tag of the repository is a candidate.
ChooseFromAllTags(name, repo, clauses) ==
    {t \in Tags[repo] :
        /\ Satisfies(t.version, clauses)
        /\ \A u \in Tags[repo] : Satisfies(u.version, clauses) => u.version <= t.version}
\* What the code takes for a package's own tag: it begins with the name and "-v".
Own(name, scope) == scope = name \/ <<name, scope>> \in Begins

(* chooseFromTags: the newest that satisfies the requirement, of the       *)
(* package's own tags if it has any, of all tags if it has none.  A tag    *)
(* that is nothing but its version comes before one with a name in front;  *)
(* of two with names either may.                                           *)
ChooseFromTags(name, repo, clauses) ==
    LET scoped     == {t \in Tags[repo] : Own(name, t.scope)}
        candidates == IF scoped = {} THEN Tags[repo] ELSE scoped
        matching   == {t \in candidates : Satisfies(t.version, clauses)}
        newest     == {t \in matching : \A u \in matching : u.version <= t.version}
        plain      == {t \in newest : t.scope = "none"}
    IN  IF plain = {} THEN newest ELSE plain

(* The pins a dependency may get: of a range, what chooseTag and then      *)
(* pinRef find; of a tag, a branch or a ref, the commit it points at, if   *)
(* there is such a tag.                                                    *)
Pins(d) ==
    CASE d.selector = "range" ->
           {[version |-> t.version, commit |-> <<d.repo, t.scope, t.version>>] :
               t \in ChooseFromTags(d.name, d.repo, d.clauses)}
      [] d.selector = "tag" ->
           {[version |-> t.version, commit |-> d.commit] :
               t \in {t \in Tags[d.repo] : d.commit = <<d.repo, t.scope, t.version>>}}
      [] d.selector \in {"branch", "ref"} -> {[version |-> d.named, commit |-> d.commit]}
      [] OTHER -> {}

---------------------------------------------------------------------------
(* One dependency off the queue. *)

\* What a package declares may be anything on offer, but a checkout says the
\* same each time it is read.
Declared(name, commit) ==
    IF <<name, commit>> \in DOMAIN manifest
    THEN {manifest[<<name, commit>>]}
    ELSE SeqOf(Offers, MaxDeclared)

Read(name, commit, ds) ==
    [at \in DOMAIN manifest \cup {<<name, commit>>} |->
        IF at = <<name, commit>> THEN ds ELSE manifest[at]]

\* A sibling in the same repository is asked for at the same commit.
Externalized(d, pin) ==
    IF d.source # "workspace" THEN d
    ELSE [d EXCEPT !.source = "git", !.repo = pin.repo, !.selector = "ref",
                   !.named = NoVersion, !.commit = pin.commit,
                   !.clauses = {[op |-> "name", version |-> NoVersion]}]

\* The elements of s at some places, in their order.
KeepOnly(s, places) ==
    LET kept[i \in 0..Len(s)] ==
            IF i = 0 THEN <<>>
            ELSE IF i \in places THEN Append(kept[i - 1], s[i]) ELSE kept[i - 1]
    IN  kept[Len(s)]

\* Faulty: the dependencies of its groups are a dependency's own too.
InheritedWithGroups(ds, pin) ==
    [i \in DOMAIN ds |-> [dependency |-> Externalized(ds[i], pin), by |-> pin.name]]
Inherited(ds, pin) ==
    LET inherited == KeepOnly(ds, {i \in DOMAIN ds : ~ds[i].grouped})
    IN  [i \in DOMAIN inherited |->
            [dependency |-> Externalized(inherited[i], pin), by |-> pin.name]]

Fail ==
    /\ result' = "error"
    /\ UNCHANGED <<lists, queue, resolved, wanted, gits, locked, manifest,
                   faults, asked>>

\* Faulty: what is pinned already is not looked at again.
MetAnyway(d, pin, combined) == TRUE
(* Only a range of tags is checked against what is pinned already, by the  *)
(* version in the name of the tag, branch or ref that was pinned, and      *)
(* together with all that was asked before it.                             *)
Met(d, pin, combined) == d.selector = "range" => Satisfies(pin.version, combined)

\* Faulty: the repository asked for first is kept, whatever the next one is.
SameRepositoryAlways(d) == TRUE
SameRepository(d) == gits[d.name] \in {"none", d.repo}

\* Faulty: a package met again has its dependencies looked at again.
TakeAgain ==
    /\ result = "none" /\ queue # <<>>
    /\ LET d == Head(queue).dependency
           combined == Intersect(wanted[d.name], d.clauses)
       IN  /\ d.source = "git" => SameRepository(d)
           /\ wanted' = [wanted EXCEPT ![d.name] = combined]
           /\ gits' = [gits EXCEPT ![d.name] = IF d.source = "git" THEN d.repo ELSE @]
           /\ asked' = asked \cup {[dependency |-> d, by |-> Head(queue).by]}
           /\ \/ /\ d.name \in Names(resolved)
                 /\ Met(d, PinOf(resolved, d.name), combined)
                 /\ LET pin == PinOf(resolved, d.name)
                    IN  queue' = Tail(queue) \o Inherited(manifest[<<pin.name, pin.commit>>], pin)
                 /\ UNCHANGED <<resolved, manifest>>
              \/ /\ d.name \notin Names(resolved)
                 /\ d.source = "git"
                 /\ \E p \in Pins(d) : \E ds \in Declared(d.name, p.commit) :
                      LET pin == [name |-> d.name, repo |-> d.repo,
                                  version |-> p.version, commit |-> p.commit]
                      IN  /\ resolved' = Append(resolved, pin)
                          /\ manifest' = Read(d.name, p.commit, ds)
                          /\ queue' = Tail(queue) \o Inherited(ds, pin)
    /\ UNCHANGED <<lists, locked, faults, result>>
(* The whole handling of one entry: conflict of repositories, the          *)
(* combined requirement, then either the check of what is pinned or the    *)
(* pin and the package's own dependencies.                                 *)
Take ==
    /\ result = "none" /\ queue # <<>>
    /\ LET d == Head(queue).dependency
           combined == Intersect(wanted[d.name], d.clauses)
       IN  /\ d.source = "git" => SameRepository(d)
           /\ wanted' = [wanted EXCEPT ![d.name] = combined]
           /\ gits' = [gits EXCEPT ![d.name] = IF d.source = "git" THEN d.repo ELSE @]
           /\ asked' = asked \cup {[dependency |-> d, by |-> Head(queue).by]}
           /\ \/ /\ d.name \in Names(resolved)
                 /\ Met(d, PinOf(resolved, d.name), combined)
                 /\ queue' = Tail(queue)
                 /\ UNCHANGED <<resolved, manifest>>
              \/ /\ d.name \notin Names(resolved)
                 /\ d.source = "git"
                 /\ \E p \in Pins(d) : \E ds \in Declared(d.name, p.commit) :
                      LET pin == [name |-> d.name, repo |-> d.repo,
                                  version |-> p.version, commit |-> p.commit]
                      IN  /\ resolved' = Append(resolved, pin)
                          /\ manifest' = Read(d.name, p.commit, ds)
                          /\ queue' = Tail(queue) \o Inherited(ds, pin)
    /\ UNCHANGED <<lists, locked, faults, result>>

(* The entry cannot be resolved: two repositories for one name, a range    *)
(* that what is pinned does not meet, no tag that satisfies it, or a       *)
(* source only the declaring project can resolve.                          *)
Conflict ==
    /\ result = "none" /\ queue # <<>>
    /\ LET d == Head(queue).dependency
       IN  \/ d.source = "git" /\ ~SameRepository(d)
           \/ /\ d.name \in Names(resolved)
              /\ ~Met(d, PinOf(resolved, d.name), Intersect(wanted[d.name], d.clauses))
           \/ /\ d.name \notin Names(resolved)
              /\ d.source # "git" \/ Pins(d) = {}
    /\ Fail

(* git does not answer, or the checkout is not the package it should be.   *)
Unavailable ==
    /\ result = "none" /\ queue # <<>>
    /\ Head(queue).dependency.name \notin Names(resolved)
    /\ faults < MaxFaults /\ faults' = faults + 1
    /\ result' = "error"
    /\ UNCHANGED <<lists, queue, resolved, wanted, gits, locked, manifest, asked>>

---------------------------------------------------------------------------
(* From one list to the next, and the merge. *)

(* A list that comes to be resolved.  Nobody looks at the groups in it:    *)
(* not of a project's own dependencies, nor of those of a local path.      *)
Roots(list) ==
    [i \in DOMAIN list.wants |-> [dependency |-> list.wants[i], by |-> list.of]]
NoneAsked == [n \in Packages |-> {}]
NoGits == [n \in Packages |-> "none"]

NextList ==
    /\ result = "none" /\ queue = <<>> /\ lists # <<>>
    /\ locked' = locked \o resolved
    /\ queue' = Roots(Head(lists)) /\ lists' = Tail(lists)
    /\ resolved' = <<>> /\ wanted' = NoneAsked /\ gits' = NoGits
    /\ UNCHANGED <<manifest, faults, result, asked>>

\* Faulty: the name alone decides.
UniqueByName(pins) == TRUE
(* uniqueDependencies: what two lists pinned under one name must be the    *)
(* same commit of the same repository; the first of them is kept.          *)
Unique(pins) ==
    \A i, j \in DOMAIN pins :
        pins[i].name = pins[j].name =>
            pins[i].repo = pins[j].repo /\ pins[i].commit = pins[j].commit
FirstOfEach(pins) ==
    KeepOnly(pins, {i \in DOMAIN pins : \A j \in 1..(i - 1) : pins[j].name # pins[i].name})

Merge ==
    /\ result = "none" /\ queue = <<>> /\ lists = <<>>
    /\ LET all == locked \o resolved
       IN  IF Unique(all)
           THEN result' = "ok" /\ locked' = FirstOfEach(all) /\ resolved' = <<>>
           ELSE result' = "error" /\ UNCHANGED <<locked, resolved>>
    /\ UNCHANGED <<lists, queue, wanted, gits, manifest, faults, asked>>

Init ==
    /\ \E all \in RootLists :
          queue = Roots(Head(all)) /\ lists = Tail(all)
    /\ resolved = <<>> /\ locked = <<>>
    /\ wanted = NoneAsked /\ gits = NoGits
    /\ manifest = <<>>
    /\ faults = 0
    /\ result = "none"
    /\ asked = {}

Next == Take \/ Conflict \/ Unavailable \/ NextList \/ Merge

Spec == Init /\ [][Next]_vars /\ WF_vars(Next)

---------------------------------------------------------------------------
(* Properties of what is written to the lockfile. *)

Asked(name) == {a.dependency : a \in {a \in asked : a.dependency.name = name}}
Pinned == ToSet(locked) \cup ToSet(resolved)
Needs(pin) ==
    {d.name : d \in {d \in ToSet(manifest[<<pin.name, pin.commit>>]) : ~d.grouped}}

\* The version the commit of a pin is tagged with, if any; and the versions in
\* the names it was asked for by.
VersionAt(pin) == IF pin.commit[2] = "untagged" THEN NoVersion ELSE pin.commit[3]
NamedAs(pin) ==
    {VersionAt(pin)} \cup
    {d.named : d \in {d \in Asked(pin.name) : d.selector # "range" /\ d.commit = pin.commit}}

MetBy(pin, d) ==
    \E v \in NamedAs(pin) :
        /\ v # NoVersion
        /\ \A c \in d.clauses : SatisfiesClause(v, c)
        /\ v \in PreReleases =>
              \E e \in Asked(pin.name) : e.clauses = {} \/ AsksForPreRelease(e.clauses)

(* Every range anybody in the graph asked for is met in the end by the     *)
(* version the pinned commit is tagged with, or by one in the name of the  *)
(* branch, tag or ref that somebody asked for that commit by; and by a     *)
(* pre-release only if somebody asked for one.                             *)
RangesMet ==
    result = "ok" =>
        \A pin \in ToSet(locked) : \A d \in Asked(pin.name) :
            d.selector = "range" => MetBy(pin, d)

(* The graph is closed: all that a pinned package needs is pinned, and     *)
(* nothing is pinned that no pinned package, no project and no package at  *)
(* a local path needs: the groups of a fetched package are not installed.  *)
ByProject(a) == a.by \in {"root", "path"}
Closed ==
    result = "ok" =>
        LET roots == {a.dependency.name : a \in {a \in asked : ByProject(a)}}
        IN  Names(locked) = roots \cup UNION {Needs(pin) : pin \in ToSet(locked)}

(* One name is one package, of one repository, whoever asked for it and in *)
(* whichever list.                                                         *)
OnePackage ==
    result = "ok" =>
        /\ Cardinality(Names(locked)) = Len(locked)
        /\ \A pin \in ToSet(locked) : \A d \in Asked(pin.name) :
              d.source = "git" => d.repo = pin.repo

(* Within a list, before the merge: one pin for each name, of the          *)
(* repository that was asked for; and nothing is left to do in the end.    *)
OnePin ==
    /\ \A i, j \in DOMAIN resolved : resolved[i].name = resolved[j].name => i = j
    /\ \A pin \in ToSet(resolved) : gits[pin.name] = pin.repo
    /\ result = "ok" => queue = <<>> /\ resolved = <<>>

(* Whatever was asked so far has a pin, one of the repository and one of a *)
(* version that it asked for.                                              *)
AskedPinned ==
    \A a \in asked : LET d == a.dependency IN
        /\ \E pin \in Pinned : pin.name = d.name
        /\ d.source = "git" =>
              \E pin \in Pinned : pin.name = d.name /\ pin.repo = d.repo
        /\ d.selector = "range" =>
              \E pin \in Pinned : pin.name = d.name /\ MetBy(pin, d)

(* The combined requirement has nothing in it that nobody asked for, and a *)
(* pin's version is in the name of its commit or of what was asked for.    *)
WantedAsked ==
    /\ \A n \in Packages : \A c \in wanted[n] : \E d \in Asked(n) : c \in d.clauses
    /\ \A pin \in Pinned : pin.version \in NamedAs(pin)

(* What a pinned package needs is pinned or queued.                        *)
NeedsPinned ==
    /\ \A pin \in ToSet(locked) : Needs(pin) \subseteq Names(locked)
    /\ \A pin \in ToSet(resolved) :
          Needs(pin) \subseteq Names(resolved) \cup {e.dependency.name : e \in ToSet(queue)}

(* What is pinned or queued a project or a pinned package needs.           *)
PinnedNeeded ==
    /\ \A pin \in Pinned :
          \/ \E a \in asked : ByProject(a) /\ a.dependency.name = pin.name
          \/ \E other \in Pinned : pin.name \in Needs(other)
    /\ \A e \in ToSet(queue) :
          \/ ByProject(e)
          \/ \E pin \in ToSet(resolved) : pin.name = e.by /\ e.dependency.name \in Needs(pin)

Consistent ==
    /\ TypeOK /\ OnePackage /\ Closed
    /\ OnePin /\ AskedPinned /\ WantedAsked /\ NeedsPinned /\ PinnedNeeded

(* A package whose repository has tags that count as its own is pinned at  *)
(* any other commit only when somebody asked for that very commit, by its  *)
(* tag or by a branch or ref, or as a sibling of a package there.          *)
OwnTag ==
    \A pin \in Pinned :
        (\E t \in Tags[pin.repo] : Own(pin.name, t.scope)) =>
            \/ Own(pin.name, pin.commit[2])
            \/ \E d \in Asked(pin.name) : d.selector # "range" /\ d.commit = pin.commit

(* Resolving ends, however the packages depend on one another. *)
Ends == <>(result # "none")

(* Whatever was asked for a name is what was pinned, exact tags included:  *)
(* the second requirement of a name is combined with the first.  An exact  *)
(* tag asked second is not compared with the pin: TLC refutes this, and    *)
(* no run checks it.                                                       *)
AllMet ==
    result = "ok" =>
        \A pin \in ToSet(locked) : \A d \in Asked(pin.name) :
            d.selector = "tag" => d.commit = pin.commit

(* A sibling of a package, in its repository, is pinned at exactly the same*)
(* commit.  One whose name was pinned before is left where it is: TLC      *)
(* refutes this, and no run checks it.                                     *)
SiblingsTogether ==
    result = "ok" =>
        \A pin \in ToSet(locked) : \A d \in Asked(pin.name) :
            d.selector = "ref" => d.commit = pin.commit

(* Two requirements together are satisfied only by versions that satisfy   *)
(* each of them.  A pre-release that one of them asks for passes for the   *)
(* other too: TLC refutes this, and no run checks it.                      *)
EachMet ==
    result = "ok" =>
        \A pin \in ToSet(locked) : \A d \in Asked(pin.name) :
            d.selector = "range" => \E v \in NamedAs(pin) : Satisfies(v, d.clauses)

(* A branch name or a commit satisfies nothing and so never claims to meet *)
(* a range.  A branch called v1 is read as that version: TLC refutes this, *)
(* and no run checks it.                                                   *)
RangesByTags ==
    result = "ok" =>
        \A pin \in ToSet(locked) : \A d \in Asked(pin.name) :
            d.selector = "range" => \A c \in d.clauses : SatisfiesClause(VersionAt(pin), c)

(* A range is answered from the package's own namespace of tags when there *)
(* is one.  The tags of a package whose name goes on with -v are taken for *)
(* its own: TLC refutes this, and no run checks it.                        *)
NotAnothers ==
    \A pin \in Pinned :
        (\E t \in Tags[pin.repo] : Own(pin.name, t.scope)) =>
            \/ pin.commit[2] = pin.name
            \/ \E d \in Asked(pin.name) : d.selector # "range" /\ d.commit = pin.commit

(* Only the root package's groups apply, so a dependency's group :dev block*)
(* is skipped.  That of a package at a local path is not: TLC refutes this,*)
(* and no run checks it.                                                   *)
OnlyRootGroups == \A a \in asked : a.dependency.grouped => a.by = "root"
=============================================================================
