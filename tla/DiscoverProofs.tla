--------------------------- MODULE DiscoverProofs ----------------------------
(* Theorems about Discover, for any peers, limit and answers of the nodes.  *)
EXTENDS Discover, FiniteSetTheorems, SequenceTheorems, WellFoundedInduction, TLAPS

-----------------------------------------------------------------------------
(* The inductive invariant.                                                *)

Results == [peer : Peers, ok : BOOLEAN]

\* Every result there is, received or not, in the order of the sending.
AllSent == taken \o results

\* The goroutines that hold a token.
Holders == {p \in Peers : task[p] \in {"asking", "sending", "leaving"}}

\* The loop starts the goroutines in order; afterwards all are started.
StartedInOrder ==
  /\ \A p \in Peers : task[p] = "idle" <=> p >= next
  /\ pc \in {"list", "failed"} => next = 1
  /\ pc \in {"collect", "returned"} => next = NumPeers + 1

\* Every goroutine between Acquire and Release holds exactly one token.
TokenPerHolder == sem = Cardinality(Holders)

\* A node has answered exactly when its goroutine is past Ask.
Answered ==
  \A p \in Peers : answer[p] = None <=> task[p] \in {"idle", "spawned", "asking"}

\* A result is what its peer's answer says, and no peer sends two.
SentTruly ==
  \A k \in 1 .. Len(AllSent) :
    /\ task[AllSent[k].peer] \in {"leaving", "done"}
    /\ AllSent[k].ok <=> Lists(answer[AllSent[k].peer])

SentOnce ==
  \A k, l \in 1 .. Len(AllSent) : AllSent[k].peer = AllSent[l].peer => k = l

\* found has the peers of the received results that are ok, each once.
FoundSoFar ==
  /\ \A p \in Peers : p \in Range(found) <=>
       \E k \in 1 .. Len(taken) : taken[k].peer = p /\ taken[k].ok
  /\ \A k, l \in 1 .. Len(found) : found[k] = found[l] => k = l

ReturnsAll == pc = "returned" => Len(taken) = NumPeers

IInv ==
  /\ TypeOK
  /\ StartedInOrder
  /\ TokenPerHolder
  /\ Answered
  /\ SentTruly
  /\ SentOnce
  /\ FoundSoFar
  /\ ReturnsAll

-----------------------------------------------------------------------------
(* Lemmas about sequences and counting.                                     *)

(* Receiving the head of the channel leaves the results there are as they   *)
(* are.                                                                    *)
LEMMA MoveHead ==
  ASSUME NEW S, NEW s \in Seq(S), NEW t \in Seq(S), t # <<>>
  PROVE  Append(s, Head(t)) \o Tail(t) = s \o t
<1>1. Head(t) \in S /\ Head(t) = t[1] /\ Tail(t) \in Seq(S)
  BY HeadTailProperties
<1>2. <<Head(t)>> \in Seq(S)
  BY <1>1
<1>3. Len(t) \in Nat \ {0}
  BY EmptySeq
<1>4. SubSeq(t, 1, Len(t)) = <<t[1]>> \o SubSeq(t, 1 + 1, Len(t))
  BY <1>3, SubSeqRecursiveFirst
<1>5. SubSeq(t, 1, Len(t)) = t /\ SubSeq(t, 2, Len(t)) = Tail(t)
  BY SubSeqFull, TailIsSubSeq
<1>6. t = <<Head(t)>> \o Tail(t)
  BY <1>1, <1>4, <1>5
<1>7. Append(s, Head(t)) = s \o <<Head(t)>>
  BY <1>1, AppendIsConcat
<1>8. (s \o <<Head(t)>>) \o Tail(t) = s \o (<<Head(t)>> \o Tail(t))
  BY <1>1, <1>2, ConcatAssociative
<1> QED
  BY <1>6, <1>7, <1>8

(* Sending a result puts it behind those there are.                         *)
LEMMA SendLast ==
  ASSUME NEW S, NEW s \in Seq(S), NEW t \in Seq(S), NEW e \in S
  PROVE  s \o Append(t, e) = Append(s \o t, e)
<1>1. <<e>> \in Seq(S)
  OBVIOUS
<1>2. Append(t, e) = t \o <<e>>
  BY AppendIsConcat
<1>3. s \o t \in Seq(S)
  BY ConcatProperties
<1>4. Append(s \o t, e) = (s \o t) \o <<e>>
  BY <1>3, AppendIsConcat
<1> QED
  BY <1>1, <1>2, <1>4, ConcatAssociative

(* A sequence of N entries out of 1 .. N, none of them twice, has them all. *)
LEMMA AllOccur ==
  ASSUME NEW N \in Nat, NEW f \in [1 .. N -> 1 .. N],
         \A k, l \in 1 .. N : f[k] = f[l] => k = l,
         NEW p \in 1 .. N
  PROVE  \E k \in 1 .. N : f[k] = p
<1>1. IsFiniteSet(1 .. N)
  BY FS_Interval
<1>2. f \in Injection(1 .. N, 1 .. N)
  BY DEF Injection, IsInjective
<1>3. f \in Surjection(1 .. N, 1 .. N)
  BY <1>1, <1>2, FS_Injection
<1> QED
  BY <1>3 DEF Surjection

(* A sequence without repetition is as long as its range is large.          *)
LEMMA LengthIsRange ==
  ASSUME NEW S, NEW s \in Seq(S), \A k, l \in 1 .. Len(s) : s[k] = s[l] => k = l
  PROVE  Len(s) = Cardinality(Range(s))
<1>1. Len(s) \in Nat /\ DOMAIN s = 1 .. Len(s) /\ s \in [1 .. Len(s) -> S]
  BY LenProperties
<1>2. s \in [1 .. Len(s) -> Range(s)] /\ \A r \in Range(s) : \E k \in 1 .. Len(s) : s[k] = r
  BY <1>1 DEF Range
<1>3. s \in Bijection(1 .. Len(s), Range(s))
  BY <1>2 DEF Bijection, Injection, Surjection, IsInjective
<1>4. ExistsBijection(1 .. Len(s), Range(s))
  BY <1>3 DEF ExistsBijection
<1> QED
  BY <1>1, <1>4, FS_CountingElements

(* A goroutine that takes the semaphore adds a token, and one that leaves   *)
(* takes its own away.                                                     *)
LEMMA FiniteHolders == IsFiniteSet(Holders) /\ Cardinality(Holders) \in Nat
<1>1. IsFiniteSet(Peers)
  BY FS_Interval, DiscoverAssumption DEF Peers
<1>2. Holders \in SUBSET Peers
  BY DEF Holders
<1> QED
  BY <1>1, <1>2, FS_Subset, FS_CardinalityType

-----------------------------------------------------------------------------
(* The invariant holds initially and is preserved by every action.          *)

LEMMA InitIInv == Init => IInv
<1> SUFFICES ASSUME Init PROVE IInv
  OBVIOUS
<1> USE DiscoverAssumption DEF Init
<1>1. <<>> \in Seq(Results) /\ <<>> \in Seq(Peers) /\ Len(<<>>) = 0
  OBVIOUS
<1>2. TypeOK
  BY <1>1 DEF TypeOK, Results
<1>3. AllSent = <<>>
  BY <1>1, ConcatEmptySeq DEF AllSent
<1>4. TokenPerHolder
  <2>1. Holders = {}
    BY DEF Holders
  <2> QED
    BY <2>1, FS_EmptySet DEF TokenPerHolder
<1>5. StartedInOrder /\ Answered /\ ReturnsAll
  BY DEF StartedInOrder, Answered, ReturnsAll, Peers
<1>6. SentTruly /\ SentOnce
  BY <1>3 DEF SentTruly, SentOnce
<1>7. FoundSoFar
  BY DEF FoundSoFar, Range
<1> QED
  BY <1>2, <1>4, <1>5, <1>6, <1>7 DEF IInv

(* The results there are, as a sequence.                                    *)
LEMMA AllSentType ==
  ASSUME TypeOK
  PROVE  /\ AllSent \in Seq(Results)
         /\ Len(taken) \in Nat /\ Len(results) \in Nat
         /\ Len(AllSent) = Len(taken) + Len(results)
         /\ \A k \in 1 .. Len(taken) : AllSent[k] = taken[k]
         /\ \A k \in 1 .. Len(AllSent) : AllSent[k] \in Results
<1>1. taken \in Seq(Results) /\ results \in Seq(Results)
  BY DEF TypeOK, Results
<1>2. Len(taken) \in Nat /\ Len(results) \in Nat
  BY <1>1, LenProperties
<1>3. /\ AllSent \in Seq(Results)
      /\ Len(AllSent) = Len(taken) + Len(results)
      /\ \A k \in 1 .. Len(taken) + Len(results) :
           AllSent[k] = IF k <= Len(taken) THEN taken[k] ELSE results[k - Len(taken)]
  BY <1>1, ConcatProperties DEF AllSent
<1>4. \A k \in 1 .. Len(AllSent) : AllSent[k] \in Results
  BY <1>3, ElementOfSeq
<1> QED
  BY <1>2, <1>3, <1>4

(* A step of the goroutine of p that sends nothing leaves what is known of  *)
(* the results as it is; if the results are not its own, so is its task.    *)
LEMMA QuietStep ==
  ASSUME IInv, NEW p \in Peers, NEW from, NEW to, GoTo(p, from, to),
         UNCHANGED results,
         answer' # answer => from = "asking" /\ \E a : answer' = [answer EXCEPT ![p] = a],
         from \in {"leaving", "done"} => to \in {"leaving", "done"}
  PROVE  SentTruly' /\ SentOnce' /\ FoundSoFar' /\ ReturnsAll'
<1> USE DEF GoTo
<1>1. AllSent' = AllSent
  BY DEF AllSent
<1>2. SentOnce' /\ FoundSoFar' /\ ReturnsAll'
  BY <1>1 DEF IInv, SentOnce, FoundSoFar, ReturnsAll
<1>3. SentTruly'
  <2> SUFFICES ASSUME NEW k \in 1 .. Len(AllSent)
               PROVE  /\ task'[AllSent[k].peer] \in {"leaving", "done"}
                      /\ AllSent[k].ok <=> Lists(answer'[AllSent[k].peer])
    BY <1>1 DEF SentTruly, Lists, Suits
  <2> DEFINE q == AllSent[k].peer
  <2>1. q \in Peers
    BY AllSentType DEF IInv, Results
  <2>2. task[q] \in {"leaving", "done"} /\ (AllSent[k].ok <=> Lists(answer[q]))
    BY DEF IInv, SentTruly
  <2> HIDE DEF q
  <2>3. task'[q] \in {"leaving", "done"}
    BY <2>1, <2>2 DEF IInv, TypeOK
  <2>4. answer'[q] = answer[q]
    BY <2>1, <2>2 DEF IInv, TypeOK
  <2> QED
    BY <2>2, <2>3, <2>4 DEF q
<1> QED
  BY <1>2, <1>3

(* Every step of the specification preserves the invariant.                 *)
LEMMA NextIInv == IInv /\ [Next]_vars => IInv'
<1> SUFFICES ASSUME IInv, [Next]_vars PROVE IInv'
  OBVIOUS
<1> USE DiscoverAssumption DEF IInv
<1>1. ASSUME NEW p \in Peers, Acquire(p) PROVE IInv'
  <2> USE <1>1 DEF Acquire
  <2>1. Holders' = Holders \cup {p} /\ p \notin Holders
    BY DEF GoTo, TypeOK, Holders
  <2>2. Cardinality(Holders') = Cardinality(Holders) + 1
    BY <2>1, FiniteHolders, FS_AddElement
  <2>3. TokenPerHolder'
    BY <2>2 DEF TokenPerHolder
  <2>4. TypeOK' /\ StartedInOrder' /\ Answered'
    BY DEF GoTo, TypeOK, StartedInOrder, Answered
  <2>5. SentTruly' /\ SentOnce' /\ FoundSoFar' /\ ReturnsAll'
    BY QuietStep
  <2> QED
    BY <2>3, <2>4, <2>5
<1>2. ASSUME NEW p \in Peers, Ask(p) PROVE IInv'
  <2> USE <1>2 DEF Ask
  <2>1. PICK a \in ToolLists \cup {Error} : answer' = [answer EXCEPT ![p] = a]
    OBVIOUS
  <2>2. Holders' = Holders
    BY DEF GoTo, TypeOK, Holders
  <2>3. TypeOK' /\ StartedInOrder' /\ Answered' /\ TokenPerHolder'
    BY <2>1, <2>2 DEF GoTo, TypeOK, StartedInOrder, Answered, TokenPerHolder
  <2>4. SentTruly' /\ SentOnce' /\ FoundSoFar' /\ ReturnsAll'
    BY <2>1, QuietStep
  <2> QED
    BY <2>3, <2>4
<1>3. ASSUME NEW p \in Peers, Send(p) PROVE IInv'
  <2> USE <1>3 DEF Send
  <2>1. Holders' = Holders
    BY DEF GoTo, TypeOK, Holders
  <2>2. Result(p) \in Results
    BY DEF Result, Results, Lists
  <2>3. TypeOK' /\ StartedInOrder' /\ Answered' /\ TokenPerHolder' /\ ReturnsAll'
    BY <2>1, <2>2, AppendProperties
       DEF GoTo, TypeOK, StartedInOrder, Answered, TokenPerHolder, ReturnsAll, Results
  <2>4. FoundSoFar'
    BY DEF FoundSoFar, GoTo
  <2>5. AllSent' = Append(AllSent, Result(p))
    BY <2>2, SendLast DEF AllSent, TypeOK, GoTo, Results
  <2>6. /\ Len(AllSent') = Len(AllSent) + 1
        /\ \A k \in 1 .. Len(AllSent) : AllSent'[k] = AllSent[k]
        /\ AllSent'[Len(AllSent) + 1] = Result(p)
    BY <2>2, <2>5, AllSentType, AppendProperties
  <2>7. Len(AllSent) \in Nat
    BY AllSentType
  <2>8. \A k \in 1 .. Len(AllSent) :
          /\ AllSent[k].peer \in Peers \ {p}
          /\ task'[AllSent[k].peer] \in {"leaving", "done"}
    BY AllSentType DEF SentTruly, TypeOK, Results, GoTo
  <2>9. Result(p).peer = p /\ (Result(p).ok <=> Lists(answer[p])) /\ task'[p] = "leaving"
    BY DEF Result, GoTo, TypeOK
  <2>10. SentTruly'
    <3> SUFFICES ASSUME NEW k \in 1 .. Len(AllSent) + 1
                 PROVE  /\ task'[AllSent'[k].peer] \in {"leaving", "done"}
                        /\ AllSent'[k].ok <=> Lists(answer[AllSent'[k].peer])
      BY <2>6 DEF SentTruly, Lists, Suits
    <3>1. CASE k = Len(AllSent) + 1
      BY <3>1, <2>6, <2>9
    <3>2. CASE k \in 1 .. Len(AllSent)
      BY <3>2, <2>6, <2>8 DEF SentTruly
    <3> QED
      BY <3>1, <3>2, <2>7
  <2>11. SentOnce'
    BY <2>6, <2>7, <2>8, <2>9 DEF SentOnce
  <2> QED
    BY <2>3, <2>4, <2>10, <2>11
<1>4. ASSUME NEW p \in Peers, Release(p) PROVE IInv'
  <2> USE <1>4 DEF Release
  <2>1. Holders' = Holders \ {p} /\ p \in Holders
    BY DEF GoTo, TypeOK, Holders
  <2>2. Cardinality(Holders') = Cardinality(Holders) - 1 /\ Cardinality(Holders') \in Nat
    BY <2>1, FiniteHolders, FS_RemoveElement, FS_CardinalityType
  <2>3. TokenPerHolder'
    BY <2>2 DEF TokenPerHolder
  <2>4. sem' \in 0 .. Limit
    BY <2>2, <2>3 DEF TokenPerHolder, TypeOK
  <2>5. TypeOK' /\ StartedInOrder' /\ Answered'
    BY <2>4 DEF GoTo, TypeOK, StartedInOrder, Answered
  <2>6. SentTruly' /\ SentOnce' /\ FoundSoFar' /\ ReturnsAll'
    BY QuietStep
  <2> QED
    BY <2>3, <2>5, <2>6
<1>5. CASE ListPeers \/ EndSpawn
  <2> USE <1>5 DEF ListPeers, EndSpawn
  <2>1. Holders' = Holders /\ AllSent' = AllSent
    BY DEF Holders, AllSent
  <2>2. TypeOK' /\ StartedInOrder' /\ TokenPerHolder' /\ Answered' /\ ReturnsAll'
    BY <2>1 DEF TypeOK, StartedInOrder, TokenPerHolder, Answered, ReturnsAll
  <2>3. SentTruly' /\ SentOnce' /\ FoundSoFar'
    BY <2>1 DEF SentTruly, Lists, Suits, SentOnce, FoundSoFar
  <2> QED
    BY <2>2, <2>3
<1>6. CASE Spawn
  <2> USE <1>6 DEF Spawn
  <2>1. next \in Peers /\ task[next] = "idle"
    BY DEF TypeOK, StartedInOrder, Peers
  <2>2. Holders' = Holders /\ AllSent' = AllSent
    BY <2>1 DEF Holders, AllSent, TypeOK
  <2>3. TypeOK' /\ TokenPerHolder' /\ Answered' /\ ReturnsAll'
    BY <2>1, <2>2 DEF TypeOK, TokenPerHolder, Answered, ReturnsAll, Peers
  <2>4. StartedInOrder'
    BY <2>1 DEF TypeOK, StartedInOrder, Peers
  <2>5. SentTruly'
    BY <2>1, <2>2, AllSentType DEF SentTruly, Lists, Suits, TypeOK, Results
  <2>6. SentOnce' /\ FoundSoFar'
    BY <2>2 DEF SentOnce, FoundSoFar
  <2> QED
    BY <2>3, <2>4, <2>5, <2>6
<1>7. CASE Collect
  <2> USE <1>7 DEF Collect
  <2> DEFINE r == Head(results)
  <2>0. results \in Seq(Results) /\ taken \in Seq(Results)
    BY DEF TypeOK, Results
  <2>1. r \in Results /\ Tail(results) \in Seq(Results) /\ r = results[1]
    BY <2>0, HeadTailProperties
  <2>2. Holders' = Holders /\ AllSent' = AllSent
    BY <2>0, MoveHead DEF Holders, AllSent
  <2>3. /\ taken' \in Seq(Results) /\ Len(taken') = Len(taken) + 1
        /\ \A k \in 1 .. Len(taken) : taken'[k] = taken[k]
        /\ taken'[Len(taken) + 1] = r
    BY <2>0, <2>1, AppendProperties
  <2>4. Len(taken) \in Nat /\ Len(taken) + 1 \in 1 .. Len(AllSent)
        /\ AllSent[Len(taken) + 1] = r
    <3>1. Len(results) \in Nat \ {0} /\ Len(taken) \in Nat
      BY <2>0, EmptySeq, LenProperties
    <3>2. Len(AllSent) = Len(taken) + Len(results)
      BY AllSentType
    <3>3. AllSent[Len(taken) + 1] = results[1]
      BY <2>0, <3>1, ConcatProperties DEF AllSent
    <3> QED
      BY <3>1, <3>2, <3>3, <2>1
  <2>5. \A k \in 1 .. Len(taken) : taken[k].peer # r.peer
    BY <2>4, AllSentType DEF SentOnce
  <2>6. found \in Seq(Peers) /\ Len(found) \in Nat /\ DOMAIN found = 1 .. Len(found)
    BY LenProperties DEF TypeOK
  <2>7. r.peer \in Peers /\ r.ok \in BOOLEAN
    BY <2>1 DEF Results
  <2> HIDE DEF r
  <2>8. FoundSoFar' /\ found' \in Seq(Peers)
    <3>1. CASE r.ok
      <4>1. found' = Append(found, r.peer)
        BY <3>1 DEF r
      <4>2. /\ found' \in Seq(Peers) /\ Len(found') = Len(found) + 1
            /\ \A k \in 1 .. Len(found) : found'[k] = found[k]
            /\ found'[Len(found) + 1] = r.peer
        BY <4>1, <2>6, <2>7, AppendProperties
      <4>3. DOMAIN found' = 1 .. Len(found) + 1
        BY <4>2, LenProperties
      <4>4. \A p : p \in Range(found') <=> p \in Range(found) \/ p = r.peer
        BY <4>2, <4>3, <2>6 DEF Range
      <4>5. \A k \in 1 .. Len(found) : found[k] # r.peer
        <5> SUFFICES ASSUME NEW k \in 1 .. Len(found), found[k] = r.peer PROVE FALSE
          OBVIOUS
        <5>1. r.peer \in Range(found)
          BY <2>6 DEF Range
        <5> QED
          BY <5>1, <2>5, <2>7 DEF FoundSoFar
      <4>6. \A k, l \in 1 .. Len(found') : found'[k] = found'[l] => k = l
        BY <4>2, <4>5, <2>6 DEF FoundSoFar
      <4>7. \A p \in Peers : p \in Range(found') <=>
              \E k \in 1 .. Len(taken') : taken'[k].peer = p /\ taken'[k].ok
        BY <4>4, <3>1, <2>3, <2>4 DEF FoundSoFar
      <4> QED
        BY <4>2, <4>6, <4>7 DEF FoundSoFar
    <3>2. CASE ~r.ok
      <4>1. found' = found
        BY <3>2 DEF r
      <4>2. \A p \in Peers :
              (\E k \in 1 .. Len(taken') : taken'[k].peer = p /\ taken'[k].ok)
              <=> \E k \in 1 .. Len(taken) : taken[k].peer = p /\ taken[k].ok
        BY <3>2, <2>3, <2>4
      <4>3. \A p \in Peers : p \in Range(found') <=>
              \E k \in 1 .. Len(taken') : taken'[k].peer = p /\ taken'[k].ok
        BY <4>1, <4>2 DEF FoundSoFar
      <4>4. \A k, l \in 1 .. Len(found') : found'[k] = found'[l] => k = l
        BY <4>1 DEF FoundSoFar
      <4> QED
        BY <4>1, <4>3, <4>4, <2>6 DEF FoundSoFar
    <3> QED
      BY <3>1, <3>2
  <2>9. TypeOK'
    BY <2>1, <2>3, <2>8 DEF TypeOK, Results
  <2>10. StartedInOrder' /\ TokenPerHolder' /\ Answered' /\ ReturnsAll'
    BY <2>2 DEF StartedInOrder, TokenPerHolder, Answered, ReturnsAll
  <2>11. SentTruly' /\ SentOnce'
    BY <2>2 DEF SentTruly, Lists, Suits, SentOnce
  <2> QED
    BY <2>8, <2>9, <2>10, <2>11
<1>8. CASE Return \/ UNCHANGED vars
  <2> USE <1>8 DEF Return, vars
  <2>1. Holders' = Holders /\ AllSent' = AllSent
    BY DEF Holders, AllSent
  <2>2. TypeOK' /\ StartedInOrder' /\ TokenPerHolder' /\ Answered' /\ ReturnsAll'
    BY <2>1 DEF TypeOK, StartedInOrder, TokenPerHolder, Answered, ReturnsAll
  <2>3. SentTruly' /\ SentOnce' /\ FoundSoFar'
    BY <2>1 DEF SentTruly, Lists, Suits, SentOnce, FoundSoFar
  <2> QED
    BY <2>2, <2>3
<1> QED
  BY <1>1, <1>2, <1>3, <1>4, <1>5, <1>6, <1>7, <1>8 DEF Next, DiscoverVersion, Step

LEMMA Invariance == Spec => []IInv
BY InitIInv, NextIInv, PTL DEF Spec

-----------------------------------------------------------------------------
(* versionAtLeast.  Number is recursive: what is proved of it for every     *)
(* component is proved by looking at the least position where it fails.     *)

(* A set of natural numbers that is not empty has a least element.          *)
LEMMA LeastNat ==
  ASSUME NEW T \in SUBSET Nat, T # {}
  PROVE  \E n \in T : \A m \in T : n <= m
<1>1. PICK n \in T : \A m \in T : ~ (<<m, n>> \in OpToRel(<, Nat))
  BY NatLessThanWellFounded, WFMin
<1>2. ASSUME NEW m \in T PROVE n <= m
  <2>1. m \in Nat /\ n \in Nat
    OBVIOUS
  <2>2. ~ (m < n)
    BY <1>1, <2>1 DEF OpToRel
  <2> QED
    BY <2>1, <2>2
<1> QED
  BY <1>2

(* Induction up to L, for the set of what would be its counterexamples.     *)
LEMMA NoLeast ==
  ASSUME NEW L \in Nat, NEW T \in SUBSET (0 .. L),
         0 \notin T, \A n \in 0 .. L - 1 : n + 1 \in T => n \in T
  PROVE  T = {}
<1> SUFFICES ASSUME T # {} PROVE FALSE
  OBVIOUS
<1>1. T \in SUBSET Nat
  OBVIOUS
<1>2. PICK n \in T : \A m \in T : n <= m
  BY <1>1, LeastNat
<1>3. n \in 1 .. L
  OBVIOUS
<1>4. n - 1 \in 0 .. L - 1 /\ (n - 1) + 1 = n
  BY <1>3
<1>5. n - 1 \in T
  BY <1>4
<1> QED
  BY <1>2, <1>3, <1>5

\* The number x with the digit d after it.
WithDigit(x, d) == 10 * x + (d - Zero)

(* It is a number, and compares as its parts do.                            *)
LEMMA AppendDigits ==
  ASSUME NEW x \in Nat, NEW y \in Nat, NEW d \in Digits, NEW e \in Digits
  PROVE  /\ WithDigit(x, d) \in Nat
         /\ WithDigit(x, d) < WithDigit(y, e) <=> (x < y \/ (x = y /\ d < e))
         /\ WithDigit(x, d) = WithDigit(y, e) <=> (x = y /\ d = e)
<1> DEFINE x1 == WithDigit(x, d)
           y1 == WithDigit(y, e)
<1>1. d \in 48 .. 57 /\ e \in 48 .. 57
  BY DEF Digits, Zero, Nine
<1>2. x1 = 10 * x + d - 48 /\ y1 = 10 * y + e - 48
  BY <1>1 DEF Zero, WithDigit
<1> HIDE DEF x1, y1
<1>3. x1 \in Nat
  BY <1>1, <1>2
<1>4. x1 < y1 <=> (x < y \/ (x = y /\ d < e))
  BY <1>1, <1>2
<1>5. x1 = y1 <=> (x = y /\ d = e)
  BY <1>1, <1>2
<1> QED
  BY <1>3, <1>4, <1>5 DEF x1, y1

\* u is the recursive function of Number.
SoFar(part, u) ==
  u = [i \in 0 .. Len(part) |-> IF i = 0 THEN 0 ELSE 10 * u[i - 1] + (part[i] - Zero)]

(* There is such a function: the numbers of longer and longer beginnings.   *)
LEMMA SoFarExists ==
  ASSUME NEW part \in Seq(Digits)
  PROVE  \E u \in [0 .. Len(part) -> Nat] : SoFar(part, u)
<1> DEFINE L == Len(part)
           Upto(n, u) == u[0] = 0 /\ \A i \in 1 .. n : u[i] = 10 * u[i - 1] + (part[i] - Zero)
           Has(n) == \E u \in [0 .. n -> Nat] : Upto(n, u)
           T == {n \in 0 .. L : ~ Has(n)}
<1>0. L \in Nat
  OBVIOUS
<1>1. 0 \notin T
  <2> DEFINE z == [i \in 0 .. 0 |-> 0]
  <2>1. z \in [0 .. 0 -> Nat] /\ z[0] = 0
    OBVIOUS
  <2>2. Upto(0, z)
    BY <2>1
  <2> QED
    BY <2>1, <2>2
<1>2. ASSUME NEW n \in 0 .. L - 1, n \notin T PROVE n + 1 \notin T
  <2>0. Has(n) /\ n \in 0 .. L /\ n + 1 \in 1 .. L
    <3> HIDE DEF Has
    <3> QED
      BY <1>0, <1>2
  <2>1. PICK u \in [0 .. n -> Nat] : Upto(n, u)
    BY <2>0
  <2> DEFINE d == part[n + 1] - Zero
             v == [i \in 0 .. n + 1 |-> IF i = n + 1 THEN 10 * u[n] + d ELSE u[i]]
  <2>2. d \in Nat
    <3>1. part[n + 1] \in Digits
      BY <2>0
    <3> QED
      BY <3>1 DEF Digits, Zero, Nine
  <2>3. v \in [0 .. n + 1 -> Nat]
    BY <2>2
  <2>4. v[0] = 0
    BY <2>1
  <2>5. ASSUME NEW i \in 1 .. n + 1 PROVE v[i] = 10 * v[i - 1] + (part[i] - Zero)
    <3>1. CASE i = n + 1
      <4>1. i - 1 = n /\ n # n + 1 /\ n \in 0 .. n + 1
        BY <3>1
      <4>2. v[i - 1] = u[n]
        BY <4>1
      <4>3. v[i] = 10 * u[n] + d
        BY <3>1
      <4> QED
        BY <3>1, <4>2, <4>3
    <3>2. CASE i # n + 1
      <4>1. i \in 1 .. n /\ i - 1 \in 0 .. n /\ i - 1 # n + 1
        BY <3>2
      <4>2. v[i] = u[i] /\ v[i - 1] = u[i - 1]
        BY <4>1
      <4> QED
        BY <2>1, <4>1, <4>2
    <3> QED
      BY <3>1, <3>2
  <2>6. Upto(n + 1, v)
    BY <2>4, <2>5
  <2> QED
    BY <2>3, <2>6
<1>3. T = {}
  <2>1. T \in SUBSET (0 .. L)
    OBVIOUS
  <2> HIDE DEF T
  <2> QED
    BY <1>0, <1>1, <1>2, <2>1, NoLeast
<1>4. PICK u \in [0 .. L -> Nat] : Upto(L, u)
  <2>1. Has(L)
    <3> HIDE DEF Has
    <3> QED
      BY <1>0, <1>3
  <2> QED
    BY <2>1
<1>5. \A i \in 0 .. L : u[i] = IF i = 0 THEN 0 ELSE 10 * u[i - 1] + (part[i] - Zero)
  BY <1>0, <1>4
<1>6. u = [i \in 0 .. L |-> u[i]]
  OBVIOUS
<1>7. SoFar(part, u)
  BY <1>5, <1>6 DEF SoFar
<1> QED
  BY <1>4, <1>7

(* What Number is, step by step.                                            *)
LEMMA NumberOf ==
  ASSUME NEW part \in Seq(Digits)
  PROVE  \E u \in [0 .. Len(part) -> Nat] :
           /\ Number(part) = u[Len(part)]
           /\ u[0] = 0
           /\ \A i \in 1 .. Len(part) : u[i] = 10 * u[i - 1] + (part[i] - Zero)
<1> DEFINE U(u) == SoFar(part, u)
           c == CHOOSE u : U(u)
           L == Len(part)
<1>0. L \in Nat
  OBVIOUS
<1>1. U(c)
  BY SoFarExists
<1>2. Number(part) = c[Len(part)]
  BY DEF Number, SoFar
<1> HIDE DEF c
<1>3. DOMAIN c = 0 .. L /\ c[0] = 0
  BY <1>0, <1>1 DEF SoFar
<1>4. \A i \in 1 .. L : c[i] = 10 * c[i - 1] + (part[i] - Zero)
  BY <1>0, <1>1 DEF SoFar
<1> DEFINE T == {n \in 0 .. L : c[n] \notin Nat}
<1>5. 0 \notin T
  BY <1>3
<1>6. ASSUME NEW n \in 0 .. L - 1, n \notin T PROVE n + 1 \notin T
  <2>1. n \in 0 .. L /\ n + 1 \in 1 .. L /\ (n + 1) - 1 = n
    BY <1>0
  <2>2. c[n] \in Nat
    BY <1>6, <2>1
  <2>3. part[n + 1] \in Digits
    BY <2>1
  <2>4. c[n + 1] = 10 * c[n] + (part[n + 1] - Zero)
    BY <1>4, <2>1
  <2>5. c[n + 1] \in Nat
    BY <2>2, <2>3, <2>4, AppendDigits DEF WithDigit
  <2> QED
    BY <2>5
<1>7. T = {}
  <2>1. T \in SUBSET (0 .. L)
    OBVIOUS
  <2> HIDE DEF T
  <2> QED
    BY <1>0, <1>5, <1>6, <2>1, NoLeast
<1>8. \A n \in 0 .. L : c[n] \in Nat
  BY <1>7
<1>9. c = [i \in 0 .. L |-> c[i]]
  BY <1>1 DEF SoFar
<1>10. c \in [0 .. L -> Nat]
  BY <1>8, <1>9
<1> QED
  BY <1>2, <1>3, <1>4, <1>10

(* Of two sequences of digits of one length, the first one to differ        *)
(* decides which number is greater.                                         *)
LEMMA FirstDigitDecides ==
  ASSUME NEW a \in Seq(Digits), NEW b \in Seq(Digits), Len(a) = Len(b)
  PROVE  Number(a) < Number(b) <=>
           \E i \in 1 .. Len(a) : a[i] < b[i] /\ \A j \in 1 .. i - 1 : a[j] = b[j]
<1>0. \A x, y \in Nat : \A d, e \in Digits :
         /\ WithDigit(x, d) < WithDigit(y, e) <=> (x < y \/ (x = y /\ d < e))
         /\ WithDigit(x, d) = WithDigit(y, e) <=> (x = y /\ d = e)
  BY AppendDigits
<1> DEFINE L == Len(a)
           Before(n) == \E i \in 1 .. n : a[i] < b[i] /\ \A j \in 1 .. i - 1 : a[j] = b[j]
           Same(n) == \A i \in 1 .. n : a[i] = b[i]
<1>1. L \in Nat /\ L = Len(b)
  OBVIOUS
<1>2. PICK u \in [0 .. L -> Nat] :
        /\ Number(a) = u[L] /\ u[0] = 0
        /\ \A i \in 1 .. L : u[i] = 10 * u[i - 1] + (a[i] - Zero)
  BY NumberOf
<1>3. PICK v \in [0 .. L -> Nat] :
        /\ Number(b) = v[L] /\ v[0] = 0
        /\ \A i \in 1 .. L : v[i] = 10 * v[i - 1] + (b[i] - Zero)
  BY <1>1, NumberOf
<1> DEFINE Agree(n) == (u[n] < v[n] <=> Before(n)) /\ (u[n] = v[n] <=> Same(n))
           T == {n \in 0 .. L : ~ Agree(n)}
<1>4. 0 \notin T
  BY <1>2, <1>3
<1>5. ASSUME NEW n \in 0 .. L - 1, n \notin T PROVE n + 1 \notin T
  <2>1. n \in 0 .. L /\ n + 1 \in 1 .. L /\ (n + 1) - 1 = n /\ n \in Nat
    BY <1>1
  <2>2. Agree(n)
    <3> HIDE DEF Agree
    <3> QED
      BY <1>5, <2>1
  <2>3. a[n + 1] \in Digits /\ b[n + 1] \in Digits
    BY <1>1, <2>1
  <2>4. u[n] \in Nat /\ v[n] \in Nat
    BY <2>1
  <2>5. u[n + 1] = 10 * u[n] + (a[n + 1] - Zero) /\ v[n + 1] = 10 * v[n] + (b[n + 1] - Zero)
    BY <1>2, <1>3, <2>1
  <2>6. /\ u[n + 1] < v[n + 1] <=> (u[n] < v[n] \/ (u[n] = v[n] /\ a[n + 1] < b[n + 1]))
        /\ u[n + 1] = v[n + 1] <=> (u[n] = v[n] /\ a[n + 1] = b[n + 1])
    <3>1. u[n + 1] = WithDigit(u[n], a[n + 1]) /\ v[n + 1] = WithDigit(v[n], b[n + 1])
      BY <2>5 DEF WithDigit
    <3>2. /\ WithDigit(u[n], a[n + 1]) < WithDigit(v[n], b[n + 1])
               <=> (u[n] < v[n] \/ (u[n] = v[n] /\ a[n + 1] < b[n + 1]))
          /\ WithDigit(u[n], a[n + 1]) = WithDigit(v[n], b[n + 1])
               <=> (u[n] = v[n] /\ a[n + 1] = b[n + 1])
      BY <1>0, <2>3, <2>4
    <3> QED
      BY <3>1, <3>2
  <2>7. Same(n + 1) <=> (Same(n) /\ a[n + 1] = b[n + 1])
    <3>1. \A i : i \in 1 .. n + 1 <=> i \in 1 .. n \/ i = n + 1
      BY <2>1
    <3> QED
      BY <3>1
  <2>8. Before(n + 1) <=> (Before(n) \/ (Same(n) /\ a[n + 1] < b[n + 1]))
    <3>1. \A i : i \in 1 .. n + 1 <=> i \in 1 .. n \/ i = n + 1
      BY <2>1
    <3> DEFINE First(i) == a[i] < b[i] /\ \A j \in 1 .. i - 1 : a[j] = b[j]
    <3>2. First(n + 1) <=> (Same(n) /\ a[n + 1] < b[n + 1])
      BY <2>1
    <3>3. Before(n + 1) <=> \E i \in 1 .. n + 1 : First(i)
      OBVIOUS
    <3>4. Before(n) <=> \E i \in 1 .. n : First(i)
      OBVIOUS
    <3> HIDE DEF First, Before
    <3> QED
      BY <3>1, <3>2, <3>3, <3>4
  <2>9. Agree(n + 1)
    <3> HIDE DEF Before, Same
    <3> QED
      BY <2>2, <2>6, <2>7, <2>8
  <2> QED
    BY <2>9
<1>6. T = {}
  <2>1. T \in SUBSET (0 .. L)
    OBVIOUS
  <2> HIDE DEF T
  <2> QED
    BY <1>1, <1>4, <1>5, <2>1, NoLeast
<1>7. Agree(L)
  <2> HIDE DEF Agree
  <2> QED
    BY <1>1, <1>6
<1> QED
  BY <1>2, <1>3, <1>7

(* Zeros in front change no number. *)
LEMMA PaddingKeepsNumber ==
  ASSUME NEW s \in Seq(Digits), NEW width \in Nat
  PROVE  /\ ZeroPad(s, width) \in Seq(Digits)
         /\ Len(ZeroPad(s, width)) = IF Len(s) < width THEN width ELSE Len(s)
         /\ Number(ZeroPad(s, width)) = Number(s)
<1>1. CASE ~ (Len(s) < width)
  BY <1>1 DEF ZeroPad
<1>2. CASE Len(s) < width
  <2> DEFINE L == Len(s)
             k == width - L
             zeros == [i \in 1 .. k |-> Zero]
             p == zeros \o s
  <2>1. L \in Nat /\ k \in Nat \ {0} /\ ZeroPad(s, width) = p
    BY <1>2 DEF ZeroPad
  <2>2. zeros \in Seq(Digits) /\ Len(zeros) = k
    BY <2>1 DEF Digits, Zero, Nine
  <2>3. p \in Seq(Digits) /\ Len(p) = width
    <3> HIDE DEF zeros
    <3> QED
      BY <2>1, <2>2
  <2>4. \A i \in 1 .. width : p[i] = IF i <= k THEN Zero ELSE s[i - k]
    BY <2>1, <2>2
  <2> HIDE DEF p, zeros
  <2>5. PICK u \in [0 .. L -> Nat] :
          /\ Number(s) = u[L] /\ u[0] = 0
          /\ \A i \in 1 .. L : u[i] = 10 * u[i - 1] + (s[i] - Zero)
    BY NumberOf
  <2>6. PICK v \in [0 .. width -> Nat] :
          /\ Number(p) = v[width] /\ v[0] = 0
          /\ \A i \in 1 .. width : v[i] = 10 * v[i - 1] + (p[i] - Zero)
    BY <2>3, NumberOf
  <2> DEFINE w(n) == IF n <= k THEN 0 ELSE u[n - k]
             T == {n \in 0 .. width : v[n] # w(n)}
  <2>7. 0 \notin T
    BY <2>1, <2>6
  <2>8. ASSUME NEW n \in 0 .. width - 1, n \notin T PROVE n + 1 \notin T
    <3>1. n \in 0 .. width /\ n + 1 \in 1 .. width /\ (n + 1) - 1 = n /\ n \in Nat
      OBVIOUS
    <3>2. v[n] = w(n)
      BY <2>8, <3>1
    <3>3. v[n + 1] = 10 * v[n] + (p[n + 1] - Zero)
      BY <2>6, <3>1
    <3>4. CASE n + 1 <= k
      <4>1. v[n] = 0
        BY <2>1, <3>1, <3>2, <3>4
      <4>2. p[n + 1] = Zero
        BY <2>4, <3>1, <3>4
      <4> QED
        BY <2>1, <3>1, <3>3, <3>4, <4>1, <4>2 DEF Zero
    <3>5. CASE ~ (n + 1 <= k)
      <4>1. n >= k /\ n - k \in 0 .. L /\ n + 1 - k \in 1 .. L /\ (n + 1 - k) - 1 = n - k
        BY <2>1, <3>1, <3>5
      <4>2. p[n + 1] = s[n + 1 - k]
        BY <2>4, <3>1, <3>5
      <4>3. v[n] = u[n - k]
        BY <2>1, <2>5, <3>1, <3>2, <4>1
      <4>4. u[n + 1 - k] = 10 * u[n - k] + (s[n + 1 - k] - Zero)
        BY <2>5, <4>1
      <4>5. v[n + 1] = w(n + 1)
        BY <3>3, <3>5, <4>2, <4>3, <4>4
      <4> QED
        BY <4>5
    <3> QED
      BY <3>4, <3>5
  <2>9. T = {}
    <3>1. T \in SUBSET (0 .. width)
      OBVIOUS
    <3> HIDE DEF T
    <3> QED
      BY <2>7, <2>8, <3>1, NoLeast
  <2>10. v[width] = w(width)
    <3>1. width \in 0 .. width
      OBVIOUS
    <3> HIDE DEF w
    <3> QED
      BY <2>9, <3>1
  <2>11. w(width) = u[L]
    BY <2>1, <2>5
  <2> QED
    BY <1>2, <2>1, <2>3, <2>5, <2>6, <2>10, <2>11
<1> QED
  BY <1>1, <1>2

(* A padded component is less than another exactly if its number is.        *)
LEMMA ComponentsCompare ==
  ASSUME NEW p \in Seq(Digits), NEW q \in Seq(Digits)
  PROVE  StringLess(ZeroPad(p, Len(q)), ZeroPad(q, Len(p))) <=> Number(p) < Number(q)
<1> DEFINE a == ZeroPad(p, Len(q))
           b == ZeroPad(q, Len(p))
<1>1. a \in Seq(Digits) /\ b \in Seq(Digits) /\ Len(a) = Len(b)
  BY PaddingKeepsNumber
<1>2. Number(a) = Number(p) /\ Number(b) = Number(q)
  BY PaddingKeepsNumber
<1> HIDE DEF a, b
<1>3. ~ IsStrictPrefix(a, b)
  <2> SUFFICES ASSUME IsPrefix(a, b) PROVE a = b
    BY DEF IsStrictPrefix
  <2>1. SubSeq(a, 1, Len(a)) = SubSeq(b, 1, Len(a))
    BY DEF IsPrefix
  <2>2. SubSeq(a, 1, Len(a)) = a /\ SubSeq(b, 1, Len(a)) = b
    BY <1>1
  <2> QED
    BY <2>1, <2>2
<1>4. DOMAIN a \cap DOMAIN b = 1 .. Len(a)
  BY <1>1
<1>5. StringLess(a, b) <=>
        \E i \in 1 .. Len(a) : a[i] < b[i] /\ \A j \in 1 .. i - 1 : a[j] = b[j]
  BY <1>3, <1>4 DEF StringLess
<1>6. StringLess(a, b) <=> Number(a) < Number(b)
  BY <1>1, <1>5, FirstDigitDecides
<1> QED
  BY <1>2, <1>6 DEF a, b

(* versionAtLeast orders versions of numbers as the numbers are ordered,    *)
(* component by component, whatever their lengths, leading zeros and "v".   *)
THEOREM VersionsCompareAsNumbers ==
  ASSUME NEW have, NEW want, IsNumeric(have), IsNumeric(want)
  PROVE  VersionAtLeast(have, want) <=> NewerOrEqual(have, want)
<1> DEFINE hp == TrimV(have)
           wp == TrimV(want)
           hc(i) == Component(hp, i)
           wc(i) == Component(wp, i)
           all == DOMAIN hp \cup DOMAIN wp
           h(i) == ZeroPad(hc(i), Len(wc(i)))
           w(i) == ZeroPad(wc(i), Len(hc(i)))
<1>1. DOMAIN hp = DOMAIN have /\ DOMAIN wp = DOMAIN want
  BY DEF IsNumeric, TrimV
<1>2. hp \in Seq(Seq(Digits)) /\ wp \in Seq(Seq(Digits))
  BY DEF IsNumeric
<1>3. \A i \in 1 .. Len(hp) : hp[i] \in Seq(Digits)
  BY <1>2
<1>4. \A i \in 1 .. Len(wp) : wp[i] \in Seq(Digits)
  BY <1>2
<1>5. <<Zero>> \in Seq(Digits)
  BY DEF Digits, Zero, Nine
<1>6. DOMAIN hp = 1 .. Len(hp) /\ DOMAIN wp = 1 .. Len(wp) /\ Len(hp) \in Nat /\ Len(wp) \in Nat
  BY <1>2
<1>7. \A i \in Nat \ {0} : hc(i) \in Seq(Digits) /\ wc(i) \in Seq(Digits)
  BY <1>3, <1>4, <1>5, <1>6 DEF Component
<1>8. \A i \in all : i \in Nat \ {0}
  BY <1>6
<1>9. \A i \in Nat \ {0} : \A j \in 1 .. i - 1 : j \in Nat \ {0}
  OBVIOUS
<1> HIDE DEF hc, wc
<1>10. \A i \in Nat \ {0} :
         /\ StringLess(h(i), w(i)) <=> Number(hc(i)) < Number(wc(i))
         /\ StringLess(w(i), h(i)) <=> Number(wc(i)) < Number(hc(i))
  BY <1>7, ComponentsCompare
<1>11. \A i \in Nat \ {0} : Number(hc(i)) > Number(wc(i)) <=> Number(wc(i)) < Number(hc(i))
  OBVIOUS
<1>12. VersionAtLeast(have, want) <=>
         \A i \in all : StringLess(h(i), w(i)) => \E j \in 1 .. i - 1 : StringLess(w(j), h(j))
  BY DEF VersionAtLeast, hc, wc
<1>13. NewerOrEqual(have, want) <=>
         \A i \in all : Number(hc(i)) < Number(wc(i)) =>
                        \E j \in 1 .. i - 1 : Number(hc(j)) > Number(wc(j))
  BY <1>1 DEF NewerOrEqual, hc, wc
<1> HIDE DEF all, h, w
<1> QED
  BY <1>8, <1>9, <1>10, <1>11, <1>12, <1>13

-----------------------------------------------------------------------------
(* The theorems.                                                            *)

(* Every variable of DiscoverVersion has its type; in particular the        *)
(* semaphore never holds more tokens than its capacity.                     *)
THEOREM TypeCorrect == Spec => []TypeOK
<1>1. IInv => TypeOK
  BY DEF IInv
<1> QED
  BY <1>1, Invariance, PTL

(* DiscoverVersion asks at most Limit nodes at a time, for any number of    *)
(* peers: a goroutine asks only while it holds a token.                     *)
THEOREM RequestsAreBounded == Spec => []RequestsBounded
<1>1. IInv => RequestsBounded
  <2> SUFFICES ASSUME IInv PROVE RequestsBounded
    OBVIOUS
  <2> DEFINE Asking == {p \in Peers : task[p] = "asking"}
  <2>1. Asking \in SUBSET Holders
    BY DEF Holders
  <2>2. Cardinality(Asking) <= Cardinality(Holders) /\ IsFiniteSet(Asking)
    BY <2>1, FiniteHolders, FS_Subset
  <2>3. Cardinality(Asking) \in Nat
    BY <2>2, FS_CardinalityType
  <2>4. Cardinality(Holders) <= Limit
    BY DEF IInv, TokenPerHolder, TypeOK
  <2> QED
    BY <2>2, <2>3, <2>4, FiniteHolders, DiscoverAssumption DEF RequestsBounded
<1> QED
  BY <1>1, Invariance, PTL

(* If the minimum and the versions of the tool are numbers, DiscoverVersion *)
(* returns the peers whose answer has the tool in a version recent enough,  *)
(* each once, and no other: no interleaving loses, doubles or mixes up a    *)
(* result.  All peers have sent theirs because the caller has received as   *)
(* many as there are peers, and none sends two.                             *)
THEOREM FoundIsExact ==
  ASSUME VersionsAreNumbers
  PROVE  Spec => []FoundExactly
<1>0. ASSUME NEW a \in ToolLists, NEW t \in a, t.name = ToolName, MinVersion # <<>>
      PROVE  VersionAtLeast(t.version, MinVersion) <=> NewerOrEqual(t.version, MinVersion)
  <2>1. IsNumeric(t.version) /\ IsNumeric(MinVersion)
    BY <1>0, VersionsAreNumbers DEF VersionsAreNumbers
  <2> QED
    BY <2>1, VersionsCompareAsNumbers
<1>1. IInv => FoundExactly
  <2> SUFFICES ASSUME IInv, pc = "returned" PROVE FoundExactly
    BY DEF FoundExactly
  <2>1. Len(taken) = NumPeers /\ NumPeers \in Nat
    BY DiscoverAssumption DEF IInv, ReturnsAll
  <2>2. \A k \in 1 .. NumPeers :
          /\ taken[k] = AllSent[k] /\ k \in 1 .. Len(AllSent)
          /\ taken[k].peer \in Peers
          /\ taken[k].ok <=> Lists(answer[taken[k].peer])
          /\ task[taken[k].peer] \in {"leaving", "done"}
    BY <2>1, AllSentType DEF IInv, SentTruly, Results
  <2>3. \A p \in Peers : \E k \in 1 .. NumPeers : taken[k].peer = p
    <3> DEFINE f == [k \in 1 .. NumPeers |-> taken[k].peer]
    <3>1. f \in [1 .. NumPeers -> 1 .. NumPeers]
      BY <2>2 DEF Peers
    <3>2. \A k, l \in 1 .. NumPeers : f[k] = f[l] => k = l
      BY <2>2 DEF IInv, SentOnce
    <3>3. \A k \in 1 .. NumPeers : f[k] = taken[k].peer
      OBVIOUS
    <3> HIDE DEF f
    <3>4. \A p \in 1 .. NumPeers : \E k \in 1 .. NumPeers : f[k] = p
      BY <3>1, <3>2, <2>1, AllOccur
    <3> QED
      BY <3>3, <3>4 DEF Peers
  <2>4. ASSUME NEW p \in Peers PROVE HasTool(p) <=> p \in Range(found)
    <3>1. PICK k \in 1 .. NumPeers : taken[k].peer = p
      BY <2>3
    <3>2. taken[k].ok <=> Lists(answer[p])
      BY <3>1, <2>2
    <3>3. answer[p] # None /\ answer[p] \in ToolLists \cup {None, Error}
      BY <3>1, <2>2 DEF IInv, Answered, TypeOK
    <3>4. HasTool(p) <=> taken[k].ok
      BY <1>0, <3>2, <3>3 DEF HasTool, Lists, Suits
    <3>5. \A l \in 1 .. NumPeers : taken[l].peer = p => l = k
      BY <3>1, <2>2 DEF IInv, SentOnce
    <3>6. p \in Range(found) <=> taken[k].ok
      BY <3>1, <3>5, <2>1 DEF IInv, FoundSoFar
    <3> QED
      BY <3>4, <3>6
  <2>5. Len(found) = Cardinality(Range(found))
    BY LengthIsRange DEF IInv, FoundSoFar, TypeOK
  <2> QED
    BY <2>4, <2>5 DEF FoundExactly
<1> QED
  BY <1>1, Invariance, PTL

-----------------------------------------------------------------------------

(* What every wait of Discover is for is there, or somebody will bring it   *)
(* who does not wait himself: the buffer has room for every result that is  *)
(* still to be sent; a goroutine waits for the semaphore only while another *)
(* is past it; the loop that collects waits only while a goroutine has its  *)
(* result still to send.                                                    *)
EveryWaitEnds ==
  /\ \A p \in Peers : task[p] = "sending" => Len(results) < NumPeers
  /\ \A p \in Peers : task[p] = "spawned" =>
       sem < Limit \/ \E q \in Peers : task[q] \in {"asking", "sending", "leaving"}
  /\ pc = "collect" =>
       \/ results # <<>> \/ Len(taken) = NumPeers
       \/ \E p \in Peers : task[p] \in {"spawned", "asking", "sending"}

\* A goroutine that is past Send has sent a result.
AllAccounted ==
  \A p \in Peers : task[p] \in {"leaving", "done"} =>
    \E k \in 1 .. Len(AllSent) : AllSent[k].peer = p

LEMMA NextAccounted == IInv /\ AllAccounted /\ [Next]_vars => AllAccounted'
<1> SUFFICES ASSUME IInv, AllAccounted, [Next]_vars PROVE AllAccounted'
  OBVIOUS
<1> USE DEF IInv
<1>1. ASSUME AllSent' = AllSent,
             \A p \in Peers : task'[p] \in {"leaving", "done"} => task[p] \in {"leaving", "done"}
      PROVE  AllAccounted'
  BY <1>1 DEF AllAccounted
<1>2. ASSUME NEW p \in Peers, Acquire(p) \/ Ask(p) \/ Release(p) PROVE AllAccounted'
  <2>1. AllSent' = AllSent
    BY <1>2 DEF Acquire, Ask, Release, GoTo, AllSent
  <2>2. \A q \in Peers : task'[q] \in {"leaving", "done"} => task[q] \in {"leaving", "done"}
    BY <1>2 DEF Acquire, Ask, Release, GoTo, TypeOK
  <2> QED
    BY <1>1, <2>1, <2>2
<1>3. ASSUME NEW p \in Peers, Send(p) PROVE AllAccounted'
  <2> USE <1>3 DEF Send
  <2>1. Result(p) \in Results /\ Result(p).peer = p
    BY DEF Result, Results, Lists
  <2>2. AllSent' = Append(AllSent, Result(p))
    BY <2>1, SendLast DEF AllSent, TypeOK, GoTo, Results
  <2>3. /\ Len(AllSent') = Len(AllSent) + 1 /\ Len(AllSent) \in Nat
        /\ \A k \in 1 .. Len(AllSent) : AllSent'[k] = AllSent[k]
        /\ AllSent'[Len(AllSent) + 1] = Result(p)
    BY <2>1, <2>2, AllSentType, AppendProperties
  <2>4. ASSUME NEW q \in Peers, task'[q] \in {"leaving", "done"}
        PROVE  \E k \in 1 .. Len(AllSent') : AllSent'[k].peer = q
    <3>1. CASE q = p
      <4>1. Len(AllSent) + 1 \in 1 .. Len(AllSent')
        BY <2>3
      <4> QED
        BY <2>1, <2>3, <3>1, <4>1
    <3>2. CASE q # p
      <4>1. task[q] \in {"leaving", "done"}
        BY <2>4, <3>2 DEF GoTo, TypeOK
      <4>2. PICK k \in 1 .. Len(AllSent) : AllSent[k].peer = q
        BY <4>1 DEF AllAccounted
      <4>3. k \in 1 .. Len(AllSent') /\ AllSent'[k].peer = q
        BY <2>3, <4>2
      <4> QED
        BY <4>3
    <3> QED
      BY <3>1, <3>2
  <2> QED
    BY <2>4 DEF AllAccounted
<1>4. CASE Spawn
  <2>1. AllSent' = AllSent
    BY <1>4 DEF Spawn, AllSent
  <2>2. \A q \in Peers : task'[q] \in {"leaving", "done"} => task[q] \in {"leaving", "done"}
    BY <1>4 DEF Spawn, TypeOK
  <2> QED
    BY <1>1, <2>1, <2>2
<1>5. CASE Collect
  <2>1. AllSent' = AllSent
    BY <1>5, MoveHead DEF Collect, AllSent, TypeOK
  <2> QED
    BY <1>1, <1>5, <2>1 DEF Collect
<1>6. CASE ListPeers \/ EndSpawn \/ Return \/ UNCHANGED vars
  <2>1. AllSent' = AllSent /\ task' = task
    BY <1>6 DEF ListPeers, EndSpawn, Return, vars, AllSent
  <2> QED
    BY <1>1, <2>1
<1> QED
  BY <1>2, <1>3, <1>4, <1>5, <1>6 DEF Next, DiscoverVersion, Step

(* Discover never comes to a state in which the semaphore, the results      *)
(* channel and the collecting loop wait for each other, whatever the number *)
(* of peers and the limit.                                                  *)
THEOREM NobodyWaitsForever == Spec => []EveryWaitEnds
<1>1. Init => AllAccounted
  BY DEF Init, AllAccounted
<1>2. IInv /\ AllAccounted => EveryWaitEnds
  <2> SUFFICES ASSUME IInv, AllAccounted PROVE EveryWaitEnds
    OBVIOUS
  <2> USE DiscoverAssumption
  <2> DEFINE L == Len(AllSent)
             sender == [k \in 1 .. L |-> AllSent[k].peer]
  <2>1. L \in Nat /\ L = Len(taken) + Len(results) /\ Len(taken) \in Nat /\ Len(results) \in Nat
    BY AllSentType DEF IInv
  <2>2. \A k \in 1 .. L : AllSent[k].peer \in Peers /\ task[AllSent[k].peer] \in {"leaving", "done"}
    BY AllSentType DEF IInv, SentTruly, Results
  <2>3. \A k, l \in 1 .. L : AllSent[k].peer = AllSent[l].peer => k = l
    BY DEF IInv, SentOnce
  <2>4. IsFiniteSet(Peers) /\ Cardinality(Peers) = NumPeers
    BY FS_Interval DEF Peers
  <2>5. IsFiniteSet(1 .. L) /\ Cardinality(1 .. L) = L
    BY <2>1, FS_Interval
  <2> HIDE DEF L
  <2>6. ASSUME NEW p \in Peers, task[p] = "sending" PROVE Len(results) < NumPeers
    <3>1. sender \in Injection(1 .. L, Peers \ {p})
      <4>1. sender \in [1 .. L -> Peers \ {p}]
        BY <2>2, <2>6
      <4>2. \A k, l \in 1 .. L : sender[k] = sender[l] => k = l
        BY <2>3
      <4> QED
        BY <4>1, <4>2 DEF Injection, IsInjective
    <3>2. IsFiniteSet(Peers \ {p}) /\ Cardinality(Peers \ {p}) = NumPeers - 1
      BY <2>4, FS_RemoveElement
    <3>3. L <= NumPeers - 1
      BY <2>5, <3>1, <3>2, FS_Injection
    <3> QED
      BY <2>1, <3>3
  <2>7. ASSUME NEW p \in Peers, task[p] = "spawned", ~ (sem < Limit)
        PROVE  \E q \in Peers : task[q] \in {"asking", "sending", "leaving"}
    <3>1. Cardinality(Holders) # 0
      BY <2>7 DEF IInv, TokenPerHolder, TypeOK
    <3>2. Holders # {}
      BY <3>1, FS_EmptySet
    <3> QED
      BY <3>2 DEF Holders
  <2>8. ASSUME pc = "collect", results = <<>>,
               ~ \E p \in Peers : task[p] \in {"spawned", "asking", "sending"}
        PROVE  Len(taken) = NumPeers
    <3>1. \A p \in Peers : task[p] \in {"leaving", "done"}
      BY <2>8 DEF IInv, TypeOK, StartedInOrder, Peers
    <3>2. sender \in [1 .. L -> Peers] /\ \A k, l \in 1 .. L : sender[k] = sender[l] => k = l
      BY <2>2, <2>3
    <3>3. \A p \in Peers : \E k \in 1 .. L : sender[k] = p
      BY <3>1 DEF AllAccounted, L
    <3>4. sender \in Injection(1 .. L, Peers) /\ sender \in Surjection(1 .. L, Peers)
      BY <3>2, <3>3 DEF Injection, Surjection, IsInjective
    <3>5. L = NumPeers
      BY <2>4, <2>5, <3>4, FS_Injection
    <3> QED
      BY <2>1, <2>8, <3>5
  <2> QED
    BY <2>6, <2>7, <2>8 DEF EveryWaitEnds
<1>3. Spec => []AllAccounted
  BY <1>1, NextAccounted, Invariance, PTL DEF Spec
<1> QED
  BY <1>2, <1>3, Invariance, PTL
=============================================================================
