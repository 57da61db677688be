---- MODULE MCResolver ----
(* Instances of Resolver for TLC: two repositories, the first one holding  *)
(* two packages of which one has tags of its own, the second one a fork of *)
(* the other and a package whose tags are taken for the fork's.            *)
EXTENDS Resolver

Tag(scope, version) == [scope |-> scope, version |-> version]
MCTags == [r1 |-> {Tag("none", 1), Tag("none", 2), Tag("none", 3), Tag("b", 2)},
           r2 |-> {Tag("none", 1), Tag("c", 2)}]
MCBegins == {<<"a", "c">>}

ClauseOf(op, version) == [op |-> op, version |-> version]
DependencyOn(name, repo, selector, clauses, named, commit) ==
    [name |-> name, source |-> "git", repo |-> repo, selector |-> selector,
     clauses |-> clauses, named |-> named, commit |-> commit, grouped |-> FALSE]
TagRange(name, repo, clauses) ==
    DependencyOn(name, repo, "range", clauses, NoVersion, <<"none", "none", 0>>)
AName == {ClauseOf("name", NoVersion)}

AtLeast1 == TagRange("a", "r1", {ClauseOf(">=", 1)})
Below2   == TagRange("a", "r1", {ClauseOf("<", 2)})
AnyVersion == TagRange("a", "r1", {})
PreOnly  == TagRange("a", "r1", {ClauseOf(">=", 3)})
Exact1   == DependencyOn("a", "r1", "tag", {ClauseOf("=", 1)}, 1, <<"r1", "none", 1>>)
Branch   == DependencyOn("a", "r1", "branch", AName, NoVersion, <<"r1", "none", 2>>)
BranchV1 == DependencyOn("a", "r1", "branch", {ClauseOf("=", 1)}, 1, <<"r1", "untagged", 1>>)
Fork     == TagRange("a", "r2", {ClauseOf(">=", 1)})
B        == TagRange("b", "r1", {ClauseOf(">=", 1)})
ExactB   == DependencyOn("b", "r1", "tag", {ClauseOf("=", 2)}, 2, <<"r1", "none", 2>>)
OwnB     == DependencyOn("b", "r1", "tag", AName, 2, <<"r1", "b", 2>>)
Local(source) == [B EXCEPT !.source = source, !.selector = "none", !.clauses = {}]
Sibling  == Local("workspace")
Path     == Local("path")
Grouped  == [B EXCEPT !.grouped = TRUE]

MCOffers == {AtLeast1, Below2, AnyVersion, PreOnly, Exact1, Branch, BranchV1, Fork,
             B, ExactB, OwnB, Sibling, Path, Grouped}
MCRoots  == MCOffers \ {Sibling, Path}
FewRoots == {PreOnly, BranchV1, B, Grouped}
ListOf(of, wants) == [of |-> of, wants |-> wants]
MCRootLists ==
    {<<ListOf("root", <<d, e>>)>> : d, e \in MCRoots}
    \cup {<<ListOf("root", <<d>>), ListOf("path", <<e>>)>> : d, e \in MCRoots}
    \cup {<<ListOf("root", <<d, e>>), ListOf("path", <<f>>)>> : d, e, f \in FewRoots}

(* The numbers of Resolver stand for versions: TLC evaluates that Semver   *)
(* orders a ladder of versions as its steps, and that the two modules say  *)
(* the same of every requirement. *)
V == INSTANCE Semver

Release(major, minor) ==
    [major |-> major, minor |-> minor, patch |-> 0,
     stable |-> TRUE, channel |-> "other", number |-> 0]
Pre(version, channel, number) ==
    [version EXCEPT !.stable = FALSE, !.channel = channel, !.number = number]

Ladder == <<Release(0, 9), Pre(Release(1, 0), "other", 7), Pre(Release(1, 0), "prealpha", 2),
            Pre(Release(1, 0), "alpha", 1), Pre(Release(1, 0), "beta", 9),
            Pre(Release(1, 0), "rc", 1), Pre(Release(1, 0), "rc", 2), Release(1, 0),
            [Release(1, 0) EXCEPT !.patch = 1], Release(1, 1), Pre(Release(2, 0), "rc", 1)>>
ASSUME LadderAscends ==
    \A i, j \in DOMAIN Ladder : V!Compare(Ladder[i], Ladder[j]) = V!Order(i, j)

VersionText(v) ==
    [parses |-> TRUE, version |-> <<Release(1, 0), Release(1, 1), Pre(Release(2, 0), "rc", 1)>>[v]]
ASSUME SameRequirements ==
    \A v \in 1..3 : \A cs \in SUBSET {ClauseOf(op, w) : op \in {">=", "<", "="}, w \in 1..3} :
        Satisfies(v, cs)
            <=> V!Satisfies(VersionText(v), {[op |-> c.op, wanted |-> VersionText(c.version)] : c \in cs})
====
