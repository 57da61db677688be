------------------------------- MODULE Semver -------------------------------
(***************************************************************************)
(* The order of versions and what a requirement asks of them               *)
(* (tey/src/tey/semver.kex): functions only.                               *)
(*                                                                         *)
(* A version is what parseVersion makes of a text; a text that is none     *)
(* does not parse.  A pre-release is its channel and its number, however   *)
(* it is spelled: rc.1 and rc1 are one.  A requirement is the set of its   *)
(* clauses.                                                                *)
(***************************************************************************)
EXTENDS Integers

Channels == {"prealpha", "alpha", "beta", "rc", "other"}
Version == [major : Nat, minor : Nat, patch : Nat,
            stable : BOOLEAN, channel : Channels, number : Nat]
Text == [parses : BOOLEAN, version : Version]
Clause == [op : {">=", "<=", ">", "<", "=", "^", "~>"}, wanted : Text]

(* channelRank: a channel the code does not name comes before all others.  *)
ChannelRank == [prealpha |-> 1, alpha |-> 2, beta |-> 3, rc |-> 4, other |-> 0]

Order(x, y) == IF x < y THEN "Less" ELSE IF x > y THEN "Greater" ELSE "Equal"

ComparePreRelease(a, b) ==
    LET rank == Order(ChannelRank[a.channel], ChannelRank[b.channel])
    IN  IF rank # "Equal" THEN rank ELSE Order(a.number, b.number)

Compare(a, b) ==
    CASE a.major # b.major -> Order(a.major, b.major)
      [] a.major = b.major /\ a.minor # b.minor -> Order(a.minor, b.minor)
      [] a.major = b.major /\ a.minor = b.minor /\ a.patch # b.patch ->
           Order(a.patch, b.patch)
      [] OTHER ->
           IF a.stable \/ b.stable
           THEN IF a.stable = b.stable THEN "Equal"
                ELSE IF a.stable THEN "Greater" ELSE "Less"
           ELSE ComparePreRelease(a, b)

(* newer?, by which newestFirst sorts: what is no version comes last.      *)
Newer(s, t) ==
    s.parses /\ (t.parses => Compare(s.version, t.version) = "Greater")

SameMinor(v, w) == v.major = w.major /\ v.minor = w.minor

SatisfiesClause(v, c) ==
    LET w     == c.wanted.version
        order == Compare(v, w)
    IN  /\ c.wanted.parses
        /\ c.op \in {">=", "^", "~>"} => order # "Less"
        /\ c.op = "<=" => order # "Greater"
        /\ c.op = ">" => order = "Greater"
        /\ c.op = "<" => order = "Less"
        /\ c.op = "=" => order = "Equal"
        /\ c.op = "^" => v.major = w.major
        /\ c.op = "~>" => SameMinor(v, w)

AsksForPreRelease(clauses) == \E c \in clauses : c.wanted.parses /\ ~c.wanted.version.stable

Satisfies(t, clauses) ==
    /\ t.parses
    /\ clauses # {} /\ ~t.version.stable => AsksForPreRelease(clauses)
    /\ \A c \in clauses : SatisfiesClause(t.version, c)

(* Two requirements in one: all the clauses of both.                       *)
Intersect(a, b) == a \cup b
=============================================================================
