------------------------------ MODULE Versions -------------------------------
(***************************************************************************)
(* versionAtLeast (version.go).  A version is the sequence of its          *)
(* components, as strings.Split(s, ".") returns them, and a component a    *)
(* sequence of characters: numbers that compare as Go compares bytes.      *)
(***************************************************************************)
EXTENDS Naturals, Sequences, SequencesExt

Zero == 48
Nine == 57
Digits == Zero .. Nine
LetterV == 118

\* strings.TrimPrefix(s, "v"): s always has a first component, maybe an empty one.
TrimV(s) == IF s[1] # <<>> /\ s[1][1] = LetterV THEN [s EXCEPT ![1] = Tail(@)] ELSE s

\* The shorter of the two lists is filled up with "0".
Component(parts, i) == IF i <= Len(parts) THEN parts[i] ELSE <<Zero>>

\* Mutant: nothing is padded with zeros.
NoPad(s, width) == s

ZeroPad(s, width) ==
  IF Len(s) < width THEN [i \in 1 .. width - Len(s) |-> Zero] \o s ELSE s

\* Go's < on strings.
StringLess(s, t) ==
  \/ IsStrictPrefix(s, t)
  \/ \E i \in DOMAIN s \cap DOMAIN t :
       s[i] < t[i] /\ \A j \in 1 .. i - 1 : s[j] = t[j]

\* The first component that differs decides.
VersionAtLeast(have, want) ==
  LET hp == TrimV(have)
      wp == TrimV(want)
      h(i) == ZeroPad(Component(hp, i), Len(Component(wp, i)))
      w(i) == ZeroPad(Component(wp, i), Len(Component(hp, i)))
      all == DOMAIN hp \cup DOMAIN wp
  IN  \A i \in all :
        StringLess(h(i), w(i)) => \E j \in 1 .. i - 1 : StringLess(w(j), h(j))

-----------------------------------------------------------------------------
(* The reference: a version of numbers, missing ones being zero.            *)

Number(part) ==
  LET upTo[i \in 0 .. Len(part)] ==
        IF i = 0 THEN 0 ELSE 10 * upTo[i - 1] + (part[i] - Zero)
  IN  upTo[Len(part)]

NewerOrEqual(have, want) ==
  LET n(s, i) == Number(Component(TrimV(s), i))
      all == DOMAIN have \cup DOMAIN want
  IN  \A i \in all : n(have, i) < n(want, i) =>
                     \E j \in 1 .. i - 1 : n(have, j) > n(want, j)

\* All components are numbers; strings.Split never returns an empty list.
IsNumeric(version) == version # <<>> /\ TrimV(version) \in Seq(Seq(Digits))
=============================================================================
