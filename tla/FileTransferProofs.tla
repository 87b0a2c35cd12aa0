------------------------- MODULE FileTransferProofs --------------------------
(* Theorems about FileTransfer, for any files, contents and number of       *)
(* requests under way.                                                      *)
EXTENDS FileTransfer, SequenceTheorems, TLAPS

-----------------------------------------------------------------------------
(* The inductive invariant.                                                *)

Requesting == {"post", "sent", "accepted", "rejected"}

Sending == Requesting \cup {"read"}

Downloading == {"get", "create", "write"}

Pieces == UNION {Range(c) : c \in Contents}

\* The sequence s is the beginning of t.
Begins(s, t) == Len(s) <= Len(t) /\ \A i \in 1 .. Len(s) : s[i] = t[i]

\* Which call is at which step, and what it has in hand.
CallShape ==
  /\ pc \in Sending => op # "Download"
  /\ pc \in Downloading => op = "Download"
  /\ pc \in Requesting \cup {"get"} => todo # <<>>
  /\ pc \in {"idle", "read", "get"} => data = None
  /\ pc = "idle" \/ op = "Download" => results = <<>>

\* No two requests go to the same place.
Apart(reqs) == \A k, l \in 1 .. Len(reqs) : reqs[k].dest = reqs[l].dest => k = l

\* The results are those of the first requests, todo holds the others, and no
\* two go to the same place.
Order ==
  pc # "idle" /\ op # "Download" =>
    /\ Len(walked) = Len(results) + Len(todo)
    /\ \A k \in 1 .. Len(results) : results[k].req = walked[k]
    /\ \A k \in 1 .. Len(todo) : todo[k] = walked[Len(results) + k]
    /\ DistinctPlaces => Apart(walked)

\* What may still arrive was given up before the call, or has failed in it.
LateOnes ==
  pc # "idle" =>
    \A r \in late :
      \/ r \in stale
      \/ \E k \in 1 .. Len(results) : results[k].req.dest = r.dest /\ ~results[k].success

AcceptedIsOnNode ==
  DistinctPlaces /\ pc = "accepted" =>
    remote[Head(todo).dest] \in {data} \cup GivenUp(Head(todo).dest)

\* A download holds a beginning of what was served, and writes one of that.
DownloadSoFar ==
  /\ pc \in {"create", "write"} =>
       data \in Seq(Pieces) /\ served \in Seq(Pieces) /\ Begins(data, served)
  /\ pc = "write" => copy \in Seq(Pieces) /\ Begins(copy, data)
  /\ op = "Download" /\ pc = "done" =>
       copy \in Seq(Pieces) /\ served \in Seq(Pieces) /\ Begins(copy, served)

IInv ==
  /\ TypeOK
  /\ CallShape
  /\ Order
  /\ LateOnes
  /\ AcceptedIsOnNode
  /\ SuccessIsOnNode
  /\ DownloadSoFar

-----------------------------------------------------------------------------
(* Lemmas.                                                                  *)

(* Contents are sequences of pieces.                                        *)
LEMMA ContentsArePieces ==
  ASSUME NEW c \in Contents
  PROVE  c \in Seq(Pieces)
<1>1. c \in Seq(Range(c))
  BY FileTransferAssumption
<1>2. Range(c) \subseteq Pieces
  BY DEF Pieces
<1> QED
  BY <1>1, <1>2, SeqMonotonic

(* What Begins says of two sequences is what IsPrefix says.                 *)
LEMMA BeginsIsPrefix ==
  ASSUME NEW S, NEW s \in Seq(S), NEW t \in Seq(S), Begins(s, t)
  PROVE  IsPrefix(s, t)
<1>1. Len(s) \in Nat /\ Len(t) \in Nat /\ Len(s) <= Len(t)
  BY LenProperties DEF Begins
<1>2. \A i \in 1 .. Len(s) : s[i] \in S /\ t[i] \in S /\ s[i] = t[i]
  BY <1>1, ElementOfSeq DEF Begins
<1>3. /\ SubSeq(s, 1, Len(s)) \in Seq(S)
      /\ Len(SubSeq(s, 1, Len(s))) = Len(s)
      /\ \A i \in 1 .. Len(s) : SubSeq(s, 1, Len(s))[i] = s[i]
  BY <1>1, <1>2, SubSeqProperties
<1>4. /\ SubSeq(t, 1, Len(s)) \in Seq(S)
      /\ Len(SubSeq(t, 1, Len(s))) = Len(s)
      /\ \A i \in 1 .. Len(s) : SubSeq(t, 1, Len(s))[i] = t[i]
  BY <1>1, <1>2, SubSeqProperties
<1>5. SubSeq(s, 1, Len(s)) = SubSeq(t, 1, Len(s))
  BY <1>2, <1>3, <1>4, SeqEqual
<1> QED
  BY <1>1, <1>5 DEF IsPrefix

(* A part of a sequence from its first place on begins it.                  *)
LEMMA CutBegins ==
  ASSUME NEW S, NEW t \in Seq(S), NEW n \in 0 .. Len(t)
  PROVE  SubSeq(t, 1, n) \in Seq(S) /\ Begins(SubSeq(t, 1, n), t)
<1>1. Len(t) \in Nat
  BY LenProperties
<1>2. \A i \in 1 .. n : t[i] \in S
  BY <1>1, ElementOfSeq
<1>3. /\ SubSeq(t, 1, n) \in Seq(S)
      /\ Len(SubSeq(t, 1, n)) = n
      /\ \A i \in 1 .. n : SubSeq(t, 1, n)[i] = t[i]
  BY <1>1, <1>2, SubSeqProperties
<1> QED
  BY <1>1, <1>3 DEF Begins

(* The first piece that is missing makes the beginning longer.              *)
LEMMA AppendBegins ==
  ASSUME NEW S, NEW s \in Seq(S), NEW t \in Seq(S), Begins(s, t), Len(s) < Len(t)
  PROVE  LET longer == Append(s, t[Len(s) + 1])
         IN  longer \in Seq(S) /\ Begins(longer, t)
<1>1. Len(s) \in Nat /\ Len(t) \in Nat
  BY LenProperties
<1>2. t[Len(s) + 1] \in S
  BY <1>1, ElementOfSeq
<1> DEFINE longer == Append(s, t[Len(s) + 1])
<1>3. /\ longer \in Seq(S) /\ Len(longer) = Len(s) + 1
      /\ \A i \in 1 .. Len(s) : longer[i] = s[i]
      /\ longer[Len(s) + 1] = t[Len(s) + 1]
  BY <1>2, AppendProperties
<1> HIDE DEF longer
<1>4. \A i \in 1 .. Len(longer) : longer[i] = t[i]
  BY <1>1, <1>3 DEF Begins
<1>5. longer \in Seq(S) /\ Begins(longer, t)
  BY <1>1, <1>3, <1>4 DEF Begins
<1> QED
  BY <1>5 DEF longer

(* What a call deals with is a request of its own.                          *)
LEMMA HeadIsRequest ==
  ASSUME TypeOK, todo # <<>>
  PROVE  /\ Head(todo) \in Requests /\ Head(todo) = todo[1]
         /\ Head(todo).file \in Files /\ Head(todo).dest \in Places
<1>1. Head(todo) \in Requests /\ Head(todo) = todo[1]
  BY HeadTailProperties DEF TypeOK
<1> QED
  BY <1>1 DEF Requests

(* The place a call turns to has no result yet.                             *)
LEMMA HeadIsNew ==
  ASSUME IInv, DistinctPlaces, pc \in Sending, todo # <<>>
  PROVE  \A k \in 1 .. Len(results) : results[k].req.dest # Head(todo).dest
<1>1. Head(todo) = todo[1] /\ Len(todo) \in Nat \ {0}
  BY HeadIsRequest, EmptySeq, LenProperties DEF IInv, TypeOK
<1>2. Len(results) \in Nat /\ Len(walked) \in Nat
  BY LenProperties DEF IInv, TypeOK
<1>3. pc # "idle" /\ op # "Download"
  BY DEF IInv, CallShape, Sending, Requesting
<1>4. Head(todo) = walked[Len(results) + 1] /\ Len(results) + 1 \in 1 .. Len(walked)
  BY <1>1, <1>2, <1>3 DEF IInv, Order
<1>5. ASSUME NEW k \in 1 .. Len(results) PROVE results[k].req.dest # Head(todo).dest
  BY <1>2, <1>3, <1>4 DEF IInv, Order, Apart
<1> QED
  BY <1>5

-----------------------------------------------------------------------------
(* The invariant holds initially and is preserved by every action.          *)

LEMMA InitIInv == Init => IInv
<1> SUFFICES ASSUME Init PROVE IInv
  OBVIOUS
<1> USE DEF Init
<1>1. TypeOK
  <2>1. local \in [Files -> Contents \cup {None}]
    BY DEF Contents
  <2>2. remote \in [Places -> Contents \cup {None}]
    OBVIOUS
  <2>3. todo \in Seq(Requests) /\ results \in Seq(Results) /\ walked \in Seq(Requests)
    OBVIOUS
  <2> QED
    BY <2>1, <2>2, <2>3 DEF TypeOK
<1>2. CallShape /\ Order /\ LateOnes /\ AcceptedIsOnNode /\ DownloadSoFar
  BY DEF CallShape, Order, LateOnes, AcceptedIsOnNode, DownloadSoFar,
         Sending, Requesting, Downloading
<1>3. SuccessIsOnNode
  BY DEF SuccessIsOnNode
<1> QED
  BY <1>1, <1>2, <1>3 DEF IInv

(* A call begins with no results, and knows who may still write.            *)
LEMMA BeginIInv ==
  ASSUME IInv, NEW what, NEW step, NEW reqs \in Seq(Requests),
         what \in {"Send", "SendDir", "Download"}, step \in {"read", "failed", "get"},
         what = "Download" <=> step = "get", step = "get" => reqs # <<>>,
         DistinctPlaces => Apart(reqs),
         Begin(what, step, reqs)
  PROVE  IInv'
<1> USE DEF IInv, Begin
<1>1. TypeOK'
  <2>1. stale' \subseteq Late
    BY DEF TypeOK
  <2> QED
    BY <2>1 DEF TypeOK, Requesting, world
<1>2. results = <<>> /\ data = None
  BY DEF CallShape
<1>3. CallShape'
  BY <1>2 DEF CallShape, Sending, Requesting, Downloading
<1>4. Order'
  <2>1. Len(reqs) \in Nat
    BY LenProperties
  <2> QED
    BY <1>2, <2>1 DEF Order
<1>5. LateOnes'
  BY DEF LateOnes, world
<1>6. AcceptedIsOnNode' /\ SuccessIsOnNode' /\ DownloadSoFar'
  BY <1>2 DEF AcceptedIsOnNode, SuccessIsOnNode, DownloadSoFar
<1> QED
  BY <1>1, <1>3, <1>4, <1>5, <1>6

(* The call files a result and turns to the next file: a success only when  *)
(* the node has accepted the file, and if the request is still under way    *)
(* the result is a failure.                                                 *)
LEMMA CollectIInv ==
  ASSUME IInv, NEW success \in BOOLEAN, Collect(success),
         pc \in Sending, todo # <<>>, success => pc = "accepted",
         UNCHANGED <<local, remote, ctxDone, op, copy, history>>,
         \/ late' = late
         \/ /\ ~success /\ pc = "sent"
            /\ late' = late \cup {[dest |-> Head(todo).dest, data |-> data]}
  PROVE  IInv'
<1> USE DEF IInv, Collect, history
<1> DEFINE r == [req |-> Head(todo), success |-> success, data |-> data]
<1>1. /\ Head(todo) \in Requests /\ Head(todo) = todo[1] /\ Head(todo).dest \in Places
      /\ Tail(todo) \in Seq(Requests) /\ Len(Tail(todo)) = Len(todo) - 1
      /\ \A k \in 1 .. Len(Tail(todo)) : Tail(todo)[k] = todo[k + 1]
  BY HeadIsRequest, HeadTailProperties DEF TypeOK
<1>2. Len(todo) \in Nat \ {0} /\ Len(results) \in Nat
  BY EmptySeq, LenProperties DEF TypeOK
<1>3. data \in Contents \cup {None}
  BY DEF TypeOK, CallShape, Sending, Requesting
<1>4. r \in Results
  BY <1>1, <1>3 DEF Results
<1>5. r.req = Head(todo) /\ (r.success <=> success) /\ r.data = data
  OBVIOUS
<1> HIDE DEF r
<1>6. results' = Append(results, r)
  BY DEF r
<1>7. /\ results' \in Seq(Results) /\ Len(results') = Len(results) + 1
      /\ \A k \in 1 .. Len(results) : results'[k] = results[k]
      /\ results'[Len(results) + 1] = r
  BY <1>4, <1>6, AppendProperties DEF TypeOK
<1>8. pc' = "read" /\ pc # "idle" /\ op # "Download" /\ data' = None
  BY DEF CallShape, Sending, Requesting
<1>9. TypeOK'
  <2>1. late' \subseteq Late
    BY <1>1 DEF TypeOK, Late, Requesting
  <2> QED
    BY <1>1, <1>7, <1>8, <2>1 DEF TypeOK, Requesting
<1>10. CallShape' /\ AcceptedIsOnNode' /\ DownloadSoFar'
  BY <1>8 DEF CallShape, AcceptedIsOnNode, DownloadSoFar, Sending, Requesting, Downloading
<1>11. Order'
  <2>1. /\ Len(walked) = Len(results) + Len(todo)
        /\ \A k \in 1 .. Len(results) : results[k].req = walked[k]
        /\ \A k \in 1 .. Len(todo) : todo[k] = walked[Len(results) + k]
        /\ DistinctPlaces => Apart(walked)
    BY <1>8 DEF Order
  <2>2. Len(walked) = Len(results') + Len(Tail(todo))
    BY <1>1, <1>2, <1>7, <2>1
  <2>3. \A k \in 1 .. Len(results') : results'[k].req = walked[k]
    BY <1>1, <1>2, <1>5, <1>7, <2>1
  <2>4. ASSUME NEW k \in 1 .. Len(Tail(todo))
        PROVE  Tail(todo)[k] = walked[Len(results') + k]
    <3>1. k + 1 \in 1 .. Len(todo) /\ Len(results) + (k + 1) = Len(results') + k
      <4>1. k \in Nat /\ k >= 1 /\ k <= Len(todo) - 1
        BY <1>1, <1>2
      <4>2. Len(results') = Len(results) + 1
        BY <1>7
      <4> HIDE DEF IInv, Collect
      <4> QED
        BY <4>1, <4>2, <1>2
    <3> QED
      BY <3>1, <1>1, <2>1
  <2>5. walked' = walked /\ todo' = Tail(todo)
    OBVIOUS
  <2> QED
    BY <2>1, <2>2, <2>3, <2>4, <2>5 DEF Order
<1>12. LateOnes'
  <2> SUFFICES ASSUME NEW q \in late'
               PROVE  \/ q \in stale
                      \/ \E k \in 1 .. Len(results) + 1 :
                           results'[k].req.dest = q.dest /\ ~results'[k].success
    BY <1>7, <1>8 DEF LateOnes
  <2>1. CASE q \in late
    BY <2>1, <1>2, <1>7, <1>8 DEF LateOnes
  <2>2. CASE q = [dest |-> Head(todo).dest, data |-> data] /\ ~success
    <3>1. q.dest = Head(todo).dest
      BY <2>2
    <3> QED
      BY <3>1, <2>2, <1>2, <1>5, <1>7
  <2> QED
    BY <2>1, <2>2
<1>13. SuccessIsOnNode'
  <2> SUFFICES ASSUME DistinctPlaces,
                      NEW k \in 1 .. Len(results) + 1, results'[k].success
               PROVE  remote[results'[k].req.dest]
                        \in {results'[k].data} \cup GivenUp(results'[k].req.dest)
    <3>1. DOMAIN results' = 1 .. Len(results) + 1
      BY <1>7, LenProperties
    <3> QED
      BY <3>1 DEF SuccessIsOnNode, GivenUp
  <2>1. CASE k \in 1 .. Len(results)
    <3>1. k \in DOMAIN results
      BY <2>1, LenProperties DEF TypeOK
    <3> QED
      BY <3>1, <2>1, <1>7 DEF SuccessIsOnNode
  <2>2. CASE k = Len(results) + 1
    BY <2>2, <1>5, <1>7 DEF AcceptedIsOnNode
  <2> QED
    BY <2>1, <2>2, <1>2
<1> QED
  BY <1>9, <1>10, <1>11, <1>12, <1>13

(* Every step of the specification preserves the invariant.                 *)
LEMMA NextIInv == IInv /\ [Next]_vars => IInv'
<1> SUFFICES ASSUME IInv, [Next]_vars PROVE IInv'
  OBVIOUS
<1> USE DEF IInv
\* The environment.
<1>1. CASE Edit \/ Cancel \/ UNCHANGED vars
  <2>1. /\ local' \in [Files -> Contents \cup {None}] /\ ctxDone' \in BOOLEAN
        /\ UNCHANGED <<remote, late, pc, op, todo, data, results, copy, walked, served, stale>>
    <3>1. CASE Edit
      <4>1. PICK f \in Files, c \in Contents \cup {None} : local' = [local EXCEPT ![f] = c]
        BY <3>1 DEF Edit, Contents
      <4> QED
        BY <3>1, <4>1 DEF Edit, history, TypeOK
    <3>2. CASE Cancel \/ UNCHANGED vars
      BY <3>2 DEF Cancel, vars, world, history, TypeOK
    <3> QED
      BY <1>1, <3>1, <3>2
  <2>2. TypeOK' /\ CallShape' /\ Order' /\ LateOnes'
    BY <2>1 DEF TypeOK, CallShape, Order, LateOnes
  <2>3. AcceptedIsOnNode' /\ SuccessIsOnNode' /\ DownloadSoFar'
    BY <2>1 DEF AcceptedIsOnNode, SuccessIsOnNode, GivenUp, DownloadSoFar
  <2> QED
    BY <2>2, <2>3
<1>2. CASE LateArrival
  <2>1. PICK r \in late :
          /\ late' = late \ {r}
          /\ UNCHANGED remote \/ remote' = [remote EXCEPT ![r.dest] = r.data]
          /\ UNCHANGED <<local, ctxDone, pc, op, todo, data, results, copy, walked, served, stale>>
    BY <1>2 DEF LateArrival, history
  <2>2. r.dest \in Places /\ r.data \in Contents
    BY DEF TypeOK, Late
  <2>3. \A d \in Places : remote'[d] = remote[d] \/ (d = r.dest /\ remote'[d] = r.data)
    BY <2>1, <2>2 DEF TypeOK
  <2>4. TypeOK' /\ CallShape' /\ Order' /\ LateOnes' /\ DownloadSoFar'
    BY <2>1, <2>2 DEF TypeOK, CallShape, Order, LateOnes, DownloadSoFar
  <2>5. \A d : GivenUp(d)' = GivenUp(d)
    BY <2>1 DEF GivenUp
  \* Where nothing of this call has failed, only what earlier ones gave up arrives.
  <2>6. ASSUME NEW d \in Places, NEW c, pc # "idle", remote[d] \in {c} \cup GivenUp(d),
               \A k \in 1 .. Len(results) : results[k].req.dest = d => results[k].success
        PROVE  remote'[d] \in {c} \cup GivenUp(d)
    <3>1. CASE remote'[d] = remote[d]
      BY <3>1, <2>6
    <3>2. CASE d = r.dest /\ remote'[d] = r.data
      <4>1. r \in stale
        BY <3>2, <2>6 DEF LateOnes
      <4> QED
        BY <3>2, <4>1 DEF GivenUp
    <3> QED
      BY <3>1, <3>2, <2>3
  <2>7. AcceptedIsOnNode'
    <3> SUFFICES ASSUME DistinctPlaces, pc = "accepted"
                 PROVE  remote'[Head(todo).dest] \in {data} \cup GivenUp(Head(todo).dest)
      BY <2>1, <2>5 DEF AcceptedIsOnNode
    <3>1. \A k \in 1 .. Len(results) : results[k].req.dest # Head(todo).dest
      BY HeadIsNew DEF CallShape, Sending, Requesting
    <3>2. Head(todo).dest \in Places
      BY HeadIsRequest DEF CallShape, Requesting
    <3> QED
      BY <2>6, <3>1, <3>2 DEF AcceptedIsOnNode
  <2>8. SuccessIsOnNode'
    <3> SUFFICES ASSUME DistinctPlaces, NEW k \in DOMAIN results, results[k].success
                 PROVE  remote'[results[k].req.dest]
                          \in {results[k].data} \cup GivenUp(results[k].req.dest)
      BY <2>1, <2>5 DEF SuccessIsOnNode
    <3>1. k \in 1 .. Len(results) /\ results[k] \in Results /\ results # <<>>
      BY LenProperties, ElementOfSeq DEF TypeOK
    <3>2. results[k].req.dest \in Places
      BY <3>1 DEF Results, Requests
    <3>3. pc # "idle" /\ op # "Download"
      BY <3>1 DEF CallShape
    <3>4. ASSUME NEW l \in 1 .. Len(results), results[l].req.dest = results[k].req.dest
          PROVE  results[l].success
      <4>1. /\ k \in 1 .. Len(walked) /\ l \in 1 .. Len(walked)
            /\ walked[k].dest = walked[l].dest
        BY <3>1, <3>3, <3>4, LenProperties DEF Order, TypeOK
      <4>2. k = l
        BY <3>3, <4>1 DEF Order, Apart
      <4> QED
        BY <4>2
    <3>5. remote[results[k].req.dest] \in {results[k].data} \cup GivenUp(results[k].req.dest)
      BY DEF SuccessIsOnNode
    <3> QED
      BY <2>6, <3>2, <3>3, <3>4, <3>5
  <2> QED
    BY <2>4, <2>7, <2>8
\* A call begins, or returns.
<1>3. CASE Send
  <2>1. PICK r \in Requests : Begin("Send", "read", <<r>>)
    BY <1>3 DEF Send
  <2>2. <<r>> \in Seq(Requests) /\ Apart(<<r>>)
    BY DEF Apart
  <2> HIDE DEF IInv
  <2> QED
    BY <2>1, <2>2, BeginIInv
<1>4. CASE Download
  <2>1. PICK f \in Files : Begin("Download", "get", <<Request(f)>>)
    BY <1>4 DEF Download
  <2>2. Request(f) \in Requests
    BY DEF Request, Requests, Places
  <2>3. <<Request(f)>> \in Seq(Requests) /\ <<Request(f)>> # <<>> /\ Apart(<<Request(f)>>)
    BY <2>2 DEF Apart
  <2>4. PICK w \in Seq(Requests) : w # <<>> /\ Apart(w) /\ Begin("Download", "get", w)
    BY <2>1, <2>3
  <2> HIDE DEF IInv
  <2> QED
    BY <2>4, BeginIInv
<1>5. CASE SendDir
  <2>1. ASSUME NEW w \in Walks, Begin("SendDir", "read", [k \in DOMAIN w |-> Request(w[k])])
        PROVE  IInv'
    <3> DEFINE reqs == [k \in DOMAIN w |-> Request(w[k])]
    <3>1. PICK n \in 0 .. NumFiles : w \in [1 .. n -> Files]
      BY DEF Walks
    <3>2. n \in Nat /\ DOMAIN w = 1 .. n
      BY <3>1, FileTransferAssumption
    <3>3. \A i, j \in 1 .. n : i < j => w[i] < w[j]
      BY <3>1, <3>2 DEF Walks
    <3>4. \A i \in 1 .. n : w[i] \in Nat
      BY <3>1, <3>2 DEF Files
    <3>5. \A i, j \in 1 .. n : w[i] = w[j] => i = j
      BY <3>2, <3>3, <3>4
    <3>6. \A f \in Files : Request(f) \in Requests /\ Request(f).dest = Destination(f)
      BY DEF Request, Requests, Places
    <3>7. reqs \in Seq(Requests) /\ Len(reqs) = n
      BY <3>1, <3>2, <3>6
    <3>8. \A k \in 1 .. n : reqs[k].dest = Destination(w[k])
      BY <3>1, <3>2, <3>6
    <3>9. DistinctPlaces => Apart(reqs)
      BY <3>1, <3>5, <3>7, <3>8 DEF DistinctPlaces, Apart
    <3> HIDE DEF reqs, IInv
    <3>10. Begin("SendDir", "read", reqs)
      BY <2>1 DEF reqs
    <3> QED
      BY <3>7, <3>9, <3>10, BeginIInv
  <2>2. CASE Begin("SendDir", "failed", <<>>)
    <3>1. <<>> \in Seq(Requests) /\ Apart(<<>>)
      BY DEF Apart
    <3> HIDE DEF IInv
    <3> QED
      BY <2>2, <3>1, BeginIInv
  <2> QED
    BY <1>5, <2>1, <2>2 DEF SendDir
<1>6. CASE Return
  <2>1. /\ pc' = "idle" /\ todo' = <<>> /\ data' = None /\ results' = <<>> /\ walked' = <<>>
        /\ stale' = {} /\ op' = None /\ UNCHANGED <<local, remote, late, ctxDone>>
    BY <1>6 DEF Return, world
  <2>2. TypeOK'
    BY <2>1 DEF TypeOK
  <2>3. CallShape' /\ Order' /\ LateOnes' /\ AcceptedIsOnNode' /\ SuccessIsOnNode' /\ DownloadSoFar'
    BY <2>1 DEF CallShape, Order, LateOnes, AcceptedIsOnNode, SuccessIsOnNode, DownloadSoFar,
                Sending, Requesting, Downloading
  <2> QED
    BY <2>2, <2>3
\* Steps of a Send or SendDir.
<1>7. CASE ReadLocalFile \/ Post \/ Reject \/ Finish
  <2>1. /\ pc \in Sending /\ pc' \in {"post", "sent", "rejected", "done"}
        /\ UNCHANGED <<local, remote, late, ctxDone, op, todo, results, copy, walked, served, stale>>
    BY <1>7 DEF ReadLocalFile, Post, Reject, Finish, Sending, Requesting, world, history
  <2>2. pc' \in Requesting => data' \in Contents /\ todo # <<>>
    <3>1. CASE ReadLocalFile
      <4>1. Head(todo).file \in Files
        BY <3>1, HeadIsRequest DEF ReadLocalFile
      <4> QED
        BY <3>1, <4>1 DEF ReadLocalFile, TypeOK
    <3>2. CASE Post \/ Reject
      BY <3>2 DEF Post, Reject, TypeOK, CallShape, Requesting
    <3> QED
      BY <1>7, <3>1, <3>2 DEF Finish, Requesting
  <2>3. TypeOK'
    BY <2>1, <2>2 DEF TypeOK, Requesting
  <2>4. CallShape'
    BY <2>1, <2>2 DEF CallShape, Sending, Requesting, Downloading
  <2>5. Order' /\ LateOnes' /\ AcceptedIsOnNode' /\ SuccessIsOnNode' /\ DownloadSoFar'
    BY <2>1 DEF CallShape, Order, LateOnes, AcceptedIsOnNode, SuccessIsOnNode, GivenUp,
                DownloadSoFar, Sending, Requesting
  <2> QED
    BY <2>3, <2>4, <2>5
<1>8. CASE Accept
  <2> USE <1>8 DEF Accept, history
  <2>1. /\ Head(todo).dest \in Places
        /\ DistinctPlaces =>
             \A k \in 1 .. Len(results) : results[k].req.dest # Head(todo).dest
    BY HeadIsRequest, HeadIsNew DEF CallShape, Sending, Requesting
  <2>2. data \in Contents /\ pc = "sent" /\ op # "Download" /\ todo # <<>>
    BY DEF TypeOK, CallShape, Sending, Requesting
  <2>3. TypeOK'
    BY <2>1, <2>2 DEF TypeOK
  <2>4. CallShape' /\ Order' /\ LateOnes' /\ DownloadSoFar'
    BY <2>2 DEF CallShape, Order, LateOnes, DownloadSoFar, Sending, Requesting, Downloading
  <2>5. /\ remote'[Head(todo).dest] = data
        /\ \A d \in Places : d # Head(todo).dest => remote'[d] = remote[d]
    BY <2>1 DEF TypeOK
  <2>6. AcceptedIsOnNode'
    BY <2>5 DEF AcceptedIsOnNode
  <2>7. SuccessIsOnNode'
    <3> SUFFICES ASSUME DistinctPlaces, NEW k \in DOMAIN results, results[k].success
                 PROVE  remote'[results[k].req.dest]
                          \in {results[k].data} \cup GivenUp(results[k].req.dest)
      BY DEF SuccessIsOnNode, GivenUp
    <3>1. k \in 1 .. Len(results) /\ results[k] \in Results
      BY LenProperties, ElementOfSeq DEF TypeOK
    <3>2. results[k].req.dest \in Places /\ results[k].req.dest # Head(todo).dest
      BY <2>1, <3>1 DEF Results, Requests
    <3>3. remote[results[k].req.dest] \in {results[k].data} \cup GivenUp(results[k].req.dest)
      BY DEF SuccessIsOnNode
    <3> QED
      BY <2>5, <3>2, <3>3
  <2> QED
    BY <2>3, <2>4, <2>6, <2>7
<1>9. CASE ReadFails \/ SendFails \/ Sent
  <2>1. pc \in Sending /\ todo # <<>>
    BY <1>9 DEF ReadFails, SendFails, Sent, CallShape, Sending, Requesting
  <2>2. CASE ReadFails
    BY <2>1, <2>2, CollectIInv DEF ReadFails, world
  <2>3. CASE SendFails
    BY <2>1, <2>3, CollectIInv DEF SendFails
  <2>4. CASE Sent
    BY <2>1, <2>4, CollectIInv DEF Sent, world
  <2> QED
    BY <1>9, <2>2, <2>3, <2>4
\* Steps of a Download.
<1>10. CASE GetFails \/ ReadBody \/ CreateFails \/ Create \/ WriteSome \/ WriteFails \/ Written
  <2>1. /\ op = "Download" /\ pc \in Downloading
        /\ pc' \in {"create", "write", "done", "failed"}
        /\ UNCHANGED <<local, remote, late, ctxDone, op, todo, results, walked, stale>>
    BY <1>10 DEF GetFails, ReadBody, CreateFails, Create, WriteSome, WriteFails, Written,
                 CallShape, Downloading, world, history
  <2>2. TypeOK' /\ CallShape' /\ Order' /\ LateOnes'
    BY <2>1 DEF TypeOK, CallShape, Order, LateOnes, Sending, Requesting, Downloading
  <2>3. AcceptedIsOnNode' /\ SuccessIsOnNode'
    BY <2>1 DEF AcceptedIsOnNode, SuccessIsOnNode, GivenUp
  <2>4. DownloadSoFar'
    <3>1. CASE ReadBody
      <4>1. Head(todo).dest \in Places
        BY <3>1, HeadIsRequest DEF ReadBody, CallShape, Requesting
      <4>2. remote[Head(todo).dest] \in Seq(Pieces)
        BY <3>1, <4>1, ContentsArePieces DEF ReadBody, TypeOK
      <4>3. PICK n \in 0 .. Len(remote[Head(todo).dest]) :
              data' = SubSeq(remote[Head(todo).dest], 1, n)
        BY <3>1 DEF ReadBody
      <4>4. data' \in Seq(Pieces) /\ Begins(data', remote[Head(todo).dest])
        BY <4>2, <4>3, CutBegins
      <4> QED
        BY <3>1, <4>2, <4>4 DEF ReadBody, DownloadSoFar, Begins
    <3>2. CASE Create
      <4>1. copy' \in Seq(Pieces) /\ Begins(copy', data) /\ UNCHANGED <<data, served>>
        <5>1. Len(data) \in Nat
          BY <3>2, LenProperties DEF Create, DownloadSoFar
        <5> QED
          BY <3>2, <5>1 DEF Create, Begins, history
      <4> QED
        BY <3>2, <4>1 DEF Create, DownloadSoFar, Begins
    <3>3. CASE WriteSome
      <4>1. copy' \in Seq(Pieces) /\ Begins(copy', data) /\ UNCHANGED <<data, served>>
        BY <3>3, AppendBegins DEF WriteSome, DownloadSoFar, history
      <4> QED
        BY <3>3, <4>1 DEF WriteSome, DownloadSoFar, Begins
    <3>4. CASE Written
      <4>1. /\ copy \in Seq(Pieces) /\ data \in Seq(Pieces) /\ served \in Seq(Pieces)
            /\ Begins(copy, data) /\ Begins(data, served)
        BY <3>4 DEF Written, DownloadSoFar
      <4>2. Len(copy) \in Nat /\ Len(data) \in Nat /\ Len(served) \in Nat
        BY <4>1, LenProperties
      <4>3. Begins(copy, served)
        BY <4>1, <4>2 DEF Begins
      <4> QED
        BY <3>4, <4>1, <4>3 DEF Written, DownloadSoFar, Begins, history
    <3>5. CASE GetFails \/ CreateFails \/ WriteFails
      BY <3>5 DEF GetFails, CreateFails, WriteFails, DownloadSoFar
    <3> QED
      BY <1>10, <3>1, <3>2, <3>3, <3>4, <3>5
  <2> QED
    BY <2>2, <2>3, <2>4
<1> QED
  BY <1>1, <1>2, <1>3, <1>4, <1>5, <1>6, <1>7, <1>8, <1>9, <1>10 DEF Next, Caller, Node

LEMMA Invariance == Spec => []IInv
BY InitIInv, NextIInv, PTL DEF Spec

-----------------------------------------------------------------------------
(* The theorems.                                                            *)

(* Every variable of the transfers has its type.                            *)
THEOREM TypeCorrect == Spec => []TypeOK
<1>1. IInv => TypeOK
  BY DEF IInv
<1> QED
  BY <1>1, Invariance, PTL

(* If no two files of the directory go to the same place, a reported        *)
(* success is true: no late request of this call, and no result of another  *)
(* file, can make the node hold something else than what was sent, for any  *)
(* files and any number of requests under way; only what an earlier call    *)
(* sent there and gave up can.                                              *)
THEOREM SuccessesAreTrue == Spec => []SuccessIsOnNode
<1>1. IInv => SuccessIsOnNode
  BY DEF IInv
<1> QED
  BY <1>1, Invariance, PTL

(* SendDir has one result for every file it found, in order, whichever of   *)
(* them fail.                                                               *)
THEOREM EveryFileIsTried == Spec => []EveryFileTried
<1>1. IInv => EveryFileTried
  <2> SUFFICES ASSUME IInv, pc # "idle", op # "Download"
               PROVE  [k \in DOMAIN results |-> results[k].req] \o todo = walked
    BY DEF EveryFileTried
  <2> DEFINE done == [k \in DOMAIN results |-> results[k].req]
  <2>1. /\ todo \in Seq(Requests) /\ walked \in Seq(Requests) /\ Len(results) \in Nat
        /\ DOMAIN results = 1 .. Len(results)
        /\ \A k \in 1 .. Len(results) : results[k].req \in Requests
    <3>1. results \in Seq(Results) /\ todo \in Seq(Requests) /\ walked \in Seq(Requests)
      BY DEF IInv, TypeOK
    <3>2. \A k \in 1 .. Len(results) : results[k] \in Results
      BY <3>1, ElementOfSeq
    <3> QED
      BY <3>1, <3>2, LenProperties DEF Results
  <2>2. /\ Len(walked) = Len(results) + Len(todo)
        /\ \A k \in 1 .. Len(results) : results[k].req = walked[k]
        /\ \A k \in 1 .. Len(todo) : todo[k] = walked[Len(results) + k]
    BY DEF IInv, Order
  <2>3. /\ done \in Seq(Requests) /\ Len(done) = Len(results)
        /\ \A k \in 1 .. Len(results) : done[k] = results[k].req
    BY <2>1
  <2> HIDE DEF done
  <2>4. /\ done \o todo \in Seq(Requests) /\ Len(done \o todo) = Len(walked)
        /\ \A k \in 1 .. Len(walked) : (done \o todo)[k] =
             IF k <= Len(results) THEN done[k] ELSE todo[k - Len(results)]
    <3>1. /\ done \o todo \in Seq(Requests) /\ Len(done \o todo) = Len(done) + Len(todo)
          /\ \A k \in 1 .. Len(done) + Len(todo) : (done \o todo)[k] =
               IF k <= Len(done) THEN done[k] ELSE todo[k - Len(done)]
      BY <2>1, <2>3, ConcatProperties
    <3> QED
      BY <3>1, <2>2, <2>3
  <2>5. Len(todo) \in Nat /\ Len(walked) \in Nat
    BY <2>1, LenProperties
  <2>6. ASSUME NEW k \in 1 .. Len(walked) PROVE (done \o todo)[k] = walked[k]
    <3>1. CASE k <= Len(results)
      BY <3>1, <2>1, <2>2, <2>3, <2>4
    <3>2. CASE k > Len(results)
      <4>1. /\ k - Len(results) \in 1 .. Len(todo)
            /\ Len(results) + (k - Len(results)) = k
        BY <3>2, <2>1, <2>2, <2>5
      <4> QED
        BY <3>2, <4>1, <2>1, <2>2, <2>4
    <3>3. k <= Len(results) \/ k > Len(results)
      BY <2>1, <2>5
    <3> QED
      BY <3>1, <3>2, <3>3
  <2>7. done \o todo = walked
    BY <2>1, <2>4, <2>6, SeqEqual
  <2> QED
    BY <2>7 DEF done
<1> QED
  BY <1>1, Invariance, PTL

(* At every step of the rewriting of the local file, and after a download   *)
(* without an error, it is the beginning of what the node served: nothing   *)
(* of what it held before is left.                                          *)
THEOREM DownloadsArePrefixes == Spec => []DownloadIsPrefix
<1>1. IInv => DownloadIsPrefix
  <2> SUFFICES ASSUME DownloadSoFar, op = "Download", pc \in {"write", "done"}
               PROVE  IsPrefix(copy, served)
    BY DEF IInv, DownloadIsPrefix
  <2>1. copy \in Seq(Pieces) /\ served \in Seq(Pieces) /\ Begins(copy, served)
    <3>1. CASE pc = "done"
      BY <3>1 DEF DownloadSoFar
    <3>2. CASE pc = "write"
      <4>1. /\ copy \in Seq(Pieces) /\ data \in Seq(Pieces) /\ served \in Seq(Pieces)
            /\ Begins(copy, data) /\ Begins(data, served)
        BY <3>2 DEF DownloadSoFar
      <4>2. Len(copy) \in Nat /\ Len(data) \in Nat /\ Len(served) \in Nat
        BY <4>1, LenProperties
      <4> QED
        BY <4>1, <4>2 DEF Begins
    <3> QED
      BY <3>1, <3>2
  <2> QED
    BY <2>1, BeginsIsPrefix
<1> QED
  BY <1>1, Invariance, PTL
=============================================================================
