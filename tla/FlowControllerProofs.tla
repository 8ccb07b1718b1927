------------------------ MODULE FlowControllerProofs ------------------------
(* Proofs about the flow controller, for every finite set of requests, every  *)
(* set of lanes and all limits.                                               *)
EXTENDS FlowController, FiniteSetTheorems, SequenceTheorems, TLAPS

\* What the wait queues need of a sequence: which elements it has, and that it
\* has each of them once.
Elems(s) == {s[i] : i \in DOMAIN s}
Distinct(s) == \A i, j \in DOMAIN s : s[i] = s[j] => i = j

----------------------------------------------------------------------------
\* A waiter is linked behind the tail of a queue.
LEMMA AppendElems ==
    ASSUME NEW S, NEW s \in Seq(S), NEW x \in S, Distinct(s), x \notin Elems(s)
    PROVE  /\ Append(s, x) \in Seq(S) /\ Append(s, x) # <<>>
           /\ Elems(Append(s, x)) = Elems(s) \cup {x}
           /\ Distinct(Append(s, x))
  <1>1. /\ Append(s, x) \in Seq(S)
        /\ Append(s, x) # <<>>
        /\ Len(Append(s, x)) = Len(s) + 1
        /\ \A i \in 1..Len(s) : Append(s, x)[i] = s[i]
        /\ Append(s, x)[Len(s) + 1] = x
    BY AppendProperties
  <1>2. /\ DOMAIN s = 1..Len(s) /\ Len(s) \in Nat
        /\ DOMAIN Append(s, x) = 1..(Len(s) + 1)
    BY <1>1, LenProperties
  <1>3. Elems(Append(s, x)) = Elems(s) \cup {x}
    BY <1>1, <1>2 DEF Elems
  <1>4. Distinct(Append(s, x))
    BY <1>1, <1>2 DEF Elems, Distinct
  <1> QED BY <1>1, <1>3, <1>4

\* The oldest waiter is taken out of a queue.
LEMMA TailElems ==
    ASSUME NEW S, NEW s \in Seq(S), s # <<>>, Distinct(s)
    PROVE  /\ Tail(s) \in Seq(S) /\ Head(s) \in Elems(s)
           /\ Elems(Tail(s)) = Elems(s) \ {Head(s)}
           /\ Distinct(Tail(s))
           /\ Tail(s) = <<>> <=> ~(Len(s) > 1)
  <1>1. /\ Tail(s) \in Seq(S)
        /\ Len(Tail(s)) = Len(s) - 1
        /\ \A i \in 1..(Len(s) - 1) : Tail(s)[i] = s[i + 1]
    BY HeadTailProperties
  <1>2. /\ DOMAIN s = 1..Len(s) /\ Len(s) \in Nat \ {0}
        /\ DOMAIN Tail(s) = 1..(Len(s) - 1)
        /\ Head(s) = s[1]
    BY <1>1, LenProperties, EmptySeq
  <1>3. Elems(Tail(s)) = Elems(s) \ {Head(s)}
    <2>1. ASSUME NEW i \in 2..Len(s) PROVE i - 1 \in DOMAIN Tail(s) /\ Tail(s)[i - 1] = s[i]
      BY <1>1, <1>2
    <2>2. ASSUME NEW x \in Elems(s) \ {Head(s)} PROVE x \in Elems(Tail(s))
      <3>1. PICK i \in DOMAIN s : x = s[i]
        BY DEF Elems
      <3>2. i \in 2..Len(s)
        BY <1>2, <3>1
      <3> QED BY <2>1, <3>1, <3>2 DEF Elems
    <2>3. \A x \in Elems(Tail(s)) : x \in Elems(s) \ {Head(s)}
      BY <1>1, <1>2 DEF Elems, Distinct
    <2> QED BY <2>2, <2>3
  <1>4. Distinct(Tail(s))
    BY <1>1, <1>2 DEF Distinct
  <1>5. Tail(s) = <<>> <=> ~(Len(s) > 1)
    <2>1. Tail(s) # <<>> => Len(Tail(s)) \in Nat \ {0}
      BY <1>1, EmptySeq
    <2>2. Tail(s) = <<>> => Len(Tail(s)) = 0
      BY EmptySeq
    <2> QED BY <1>1, <1>2, <2>1, <2>2
  <1>6. Head(s) \in Elems(s)
    <2>1. 1 \in DOMAIN s
      BY <1>2
    <2> QED BY <1>2, <2>1 DEF Elems
  <1> QED BY <1>1, <1>3, <1>4, <1>5, <1>6

\* Two sequences without a common element are joined.
LEMMA JoinElems ==
    ASSUME NEW S, NEW p \in Seq(S), NEW q \in Seq(S),
           Distinct(p), Distinct(q), Elems(p) \cap Elems(q) = {}
    PROVE  /\ p \o q \in Seq(S) /\ Len(p \o q) = Len(p) + Len(q)
           /\ Elems(p \o q) = Elems(p) \cup Elems(q)
           /\ Distinct(p \o q)
  <1> DEFINE w == p \o q
  <1>1. /\ w \in Seq(S) /\ Len(w) = Len(p) + Len(q)
        /\ \A i \in 1..(Len(p) + Len(q)) : w[i] = IF i <= Len(p) THEN p[i] ELSE q[i - Len(p)]
    BY ConcatProperties
  <1>2. /\ DOMAIN w = 1..(Len(p) + Len(q))
        /\ DOMAIN p = 1..Len(p) /\ Len(p) \in Nat
        /\ DOMAIN q = 1..Len(q) /\ Len(q) \in Nat
    BY <1>1, LenProperties
  <1> HIDE DEF w
  <1>3. \A i \in DOMAIN w : i <= Len(p) => i \in DOMAIN p /\ w[i] = p[i]
    BY <1>1, <1>2
  <1>4. \A i \in DOMAIN w : ~(i <= Len(p)) => i - Len(p) \in DOMAIN q /\ w[i] = q[i - Len(p)]
    BY <1>1, <1>2
  <1>5. \A i \in DOMAIN p : i \in DOMAIN w /\ w[i] = p[i]
    BY <1>1, <1>2
  <1>6. ASSUME NEW i \in DOMAIN q PROVE i + Len(p) \in DOMAIN w /\ w[i + Len(p)] = q[i]
    <2>1. i + Len(p) \in DOMAIN w /\ ~(i + Len(p) <= Len(p)) /\ (i + Len(p)) - Len(p) = i
      BY <1>2
    <2> QED BY <1>4, <2>1
  <1>7. Elems(w) = Elems(p) \cup Elems(q)
    BY <1>3, <1>4, <1>5, <1>6 DEF Elems
  <1>8. Distinct(w)
    <2> SUFFICES ASSUME NEW i \in DOMAIN w, NEW j \in DOMAIN w, w[i] = w[j] PROVE i = j
      BY DEF Distinct
    <2>1. CASE i <= Len(p) /\ j <= Len(p)
      BY <1>3, <2>1 DEF Distinct
    <2>2. CASE ~(i <= Len(p)) /\ ~(j <= Len(p))
      <3>1. i - Len(p) = j - Len(p)
        BY <1>4, <2>2 DEF Distinct
      <3> QED BY <1>2, <3>1
    <2>3. CASE (i <= Len(p)) # (j <= Len(p))
      BY <1>3, <1>4, <2>3 DEF Elems
    <2> QED BY <2>1, <2>2, <2>3
  <1> QED BY <1>1, <1>7, <1>8 DEF w

\* A sequence is cut at position i.
LEMMA CutElems ==
    ASSUME NEW S, NEW s \in Seq(S), NEW i \in DOMAIN s, Distinct(s)
    PROVE  LET p == SubSeq(s, 1, i - 1)
               q == SubSeq(s, i + 1, Len(s))
           IN /\ p \in Seq(S) /\ q \in Seq(S)
              /\ Len(p) = i - 1 /\ Len(q) = Len(s) - i
              /\ Distinct(p) /\ Distinct(q)
              /\ Elems(p) \cap Elems(q) = {}
              /\ Elems(p) \cup Elems(q) = Elems(s) \ {s[i]}
  <1> DEFINE p == SubSeq(s, 1, i - 1)
             q == SubSeq(s, i + 1, Len(s))
  <1>1. DOMAIN s = 1..Len(s) /\ Len(s) \in Nat /\ \A k \in 1..Len(s) : s[k] \in S
    BY LenProperties
  <1>2. /\ p \in Seq(S) /\ Len(p) = i - 1
        /\ \A k \in 1..(i - 1) : p[k] = s[k]
    BY <1>1, SubSeqProperties
  <1>3. /\ q \in Seq(S) /\ Len(q) = Len(s) - i
        /\ \A k \in 1..(Len(s) - i) : q[k] = s[i + k]
    <2>1. \A k \in (i + 1)..Len(s) : s[k] \in S
      BY <1>1
    <2>2. i + 1 \in Int /\ Len(s) \in Int
      BY <1>1
    <2>3. /\ q \in Seq(S)
          /\ Len(q) = IF i + 1 <= Len(s) THEN Len(s) - (i + 1) + 1 ELSE 0
          /\ \A k \in 1..(Len(s) - (i + 1) + 1) : q[k] = s[i + 1 + k - 1]
      BY <2>1, <2>2, SubSeqProperties
    <2>4. \A k \in 1..(Len(s) - i) : i + 1 + k - 1 = i + k /\ k \in 1..(Len(s) - (i + 1) + 1)
      BY <1>1
    <2> QED BY <1>1, <2>3, <2>4
  <1>4. DOMAIN p = 1..(i - 1) /\ DOMAIN q = 1..(Len(s) - i)
    BY <1>2, <1>3, LenProperties
  <1> HIDE DEF p, q
  <1>5. \A k \in DOMAIN p : k \in DOMAIN s /\ k < i /\ p[k] = s[k]
    BY <1>1, <1>2, <1>4
  <1>6. \A k \in DOMAIN q : i + k \in DOMAIN s /\ i < i + k /\ q[k] = s[i + k]
    BY <1>1, <1>3, <1>4
  <1>7. Distinct(p)
    BY <1>5 DEF Distinct
  <1>8. Distinct(q)
    <2> SUFFICES ASSUME NEW j \in DOMAIN q, NEW k \in DOMAIN q, q[j] = q[k] PROVE j = k
      BY DEF Distinct
    <2>1. i + j = i + k
      BY <1>6 DEF Distinct
    <2> QED BY <1>1, <1>4, <2>1
  <1>9. Elems(p) \cap Elems(q) = {}
    <2> SUFFICES ASSUME NEW j \in DOMAIN p, NEW k \in DOMAIN q, p[j] = q[k] PROVE FALSE
      BY DEF Elems
    <2>1. j = i + k
      BY <1>5, <1>6 DEF Distinct
    <2> QED BY <1>1, <1>4, <1>5, <1>6, <2>1
  <1>10. Elems(p) \cup Elems(q) \subseteq Elems(s) \ {s[i]}
    <2>1. \A k \in DOMAIN p : p[k] \in Elems(s) \ {s[i]}
      BY <1>1, <1>4, <1>5 DEF Elems, Distinct
    <2>2. \A k \in DOMAIN q : q[k] \in Elems(s) \ {s[i]}
      <3> SUFFICES ASSUME NEW k \in DOMAIN q PROVE q[k] \in Elems(s) /\ q[k] # s[i]
        OBVIOUS
      <3>1. i + k # i
        BY <1>1, <1>4
      <3> QED BY <1>6, <3>1 DEF Elems, Distinct
    <2> QED BY <2>1, <2>2 DEF Elems
  <1>11. ASSUME NEW x \in Elems(s) \ {s[i]} PROVE x \in Elems(p) \cup Elems(q)
    <2>1. PICK n \in DOMAIN s : x = s[n]
      BY DEF Elems
    <2>2. CASE n < i
      <3>1. n \in DOMAIN p
        BY <1>1, <1>4, <2>2
      <3> QED BY <1>5, <2>1, <3>1 DEF Elems
    <2>3. CASE n > i
      <3>1. n - i \in DOMAIN q /\ i + (n - i) = n
        BY <1>1, <1>4, <2>3
      <3> QED BY <1>6, <2>1, <3>1 DEF Elems
    <2> QED BY <1>1, <2>1, <2>2, <2>3
  <1>12. Elems(p) \cup Elems(q) = Elems(s) \ {s[i]}
    BY <1>10, <1>11
  <1> QED BY <1>2, <1>3, <1>7, <1>8, <1>9, <1>12 DEF p, q

\* A waiter is unlinked from anywhere in a queue, or a lane from anywhere in the
\* round-robin list.
LEMMA WithoutElems ==
    ASSUME NEW S, NEW s \in Seq(S), NEW i \in DOMAIN s, Distinct(s)
    PROVE  /\ without(s, i) \in Seq(S)
           /\ Elems(without(s, i)) = Elems(s) \ {s[i]}
           /\ Distinct(without(s, i))
           /\ without(s, i) = <<>> <=> Len(s) = 1
  <1> DEFINE p == SubSeq(s, 1, i - 1)
             q == SubSeq(s, i + 1, Len(s))
  <1>1. /\ p \in Seq(S) /\ q \in Seq(S)
        /\ Len(p) = i - 1 /\ Len(q) = Len(s) - i
        /\ Distinct(p) /\ Distinct(q)
        /\ Elems(p) \cap Elems(q) = {}
        /\ Elems(p) \cup Elems(q) = Elems(s) \ {s[i]}
    BY CutElems
  <1>2. without(s, i) = p \o q
    BY DEF without
  <1>3. Len(s) \in Nat /\ i \in 1..Len(s)
    BY LenProperties
  <1> HIDE DEF p, q
  <1>4. /\ p \o q \in Seq(S) /\ Len(p \o q) = Len(p) + Len(q)
        /\ Elems(p \o q) = Elems(p) \cup Elems(q)
        /\ Distinct(p \o q)
    BY <1>1, JoinElems
  <1>5. p \o q = <<>> <=> Len(s) = 1
    <2>1. p \o q # <<>> => Len(p \o q) # 0
      BY <1>4, EmptySeq
    <2>2. p \o q = <<>> => Len(p \o q) = 0
      BY EmptySeq
    <2>3. Len(p \o q) = Len(s) - 1
      BY <1>1, <1>3, <1>4
    <2> QED BY <1>3, <2>1, <2>2, <2>3
  <1> QED BY <1>1, <1>2, <1>4, <1>5

\* The round-robin list after the lanes in front of position i went to its back.
LEMMA RotateElems ==
    ASSUME NEW S, NEW s \in Seq(S), NEW i \in DOMAIN s, Distinct(s)
    PROVE  LET rest == SubSeq(s, i + 1, Len(s)) \o SubSeq(s, 1, i - 1)
           IN /\ rest \in Seq(S)
              /\ Elems(rest) = Elems(s) \ {s[i]}
              /\ Distinct(rest)
  <1> DEFINE p == SubSeq(s, 1, i - 1)
             q == SubSeq(s, i + 1, Len(s))
  <1>1. /\ p \in Seq(S) /\ q \in Seq(S)
        /\ Distinct(p) /\ Distinct(q)
        /\ Elems(p) \cap Elems(q) = {}
        /\ Elems(p) \cup Elems(q) = Elems(s) \ {s[i]}
    BY CutElems
  <1> HIDE DEF p, q
  <1>2. Elems(q) \cap Elems(p) = {} /\ Elems(q) \cup Elems(p) = Elems(s) \ {s[i]}
    BY <1>1
  <1>3. /\ q \o p \in Seq(S)
        /\ Elems(q \o p) = Elems(q) \cup Elems(p)
        /\ Distinct(q \o p)
    BY <1>1, <1>2, JoinElems
  <1> QED BY <1>2, <1>3 DEF p, q

----------------------------------------------------------------------------
\* The requests whose program point is in S, and those of them on lane l.
In(p, S) == {r \in Requests : p[r] \in S}
At(p, n, S, l) == {r \in Requests : p[r] \in S /\ n[r] = l}

\* Such sets are finite, whatever the program points.
LEMMA CountsFinite ==
    ASSUME NEW p, NEW n, NEW S, NEW l
    PROVE  /\ IsFiniteSet(In(p, S)) /\ Cardinality(In(p, S)) \in Nat
           /\ IsFiniteSet(At(p, n, S, l)) /\ Cardinality(At(p, n, S, l)) \in Nat
  <1>1. In(p, S) \subseteq Requests /\ At(p, n, S, l) \subseteq Requests
    BY DEF In, At
  <1>2. IsFiniteSet(In(p, S)) /\ IsFiniteSet(At(p, n, S, l))
    BY <1>1, FlowConstants, FS_Subset
  <1> QED BY <1>2, FS_CardinalityType

\* Request r moves into S, on lane l.
LEMMA MoveIn ==
    ASSUME NEW S, NEW r \in Requests, NEW l \in Lanes,
           pc[r] \notin S, pc'[r] \in S, lane'[r] = l,
           \A x \in Requests \ {r} : pc'[x] = pc[x] /\ lane'[x] = lane[x]
    PROVE  /\ r \notin At(pc, lane, S, l) /\ At(pc', lane', S, l) = At(pc, lane, S, l) \cup {r}
           /\ \A k \in Lanes \ {l} : At(pc', lane', S, k) = At(pc, lane, S, k)
           /\ Cardinality(At(pc', lane', S, l)) = Cardinality(At(pc, lane, S, l)) + 1
           /\ Cardinality(In(pc', S)) = Cardinality(In(pc, S)) + 1
  <1>1. r \notin At(pc, lane, S, l) /\ r \notin In(pc, S)
    BY DEF At, In
  <1>2. At(pc', lane', S, l) = At(pc, lane, S, l) \cup {r} /\ In(pc', S) = In(pc, S) \cup {r}
    BY DEF At, In
  <1>3. \A k \in Lanes \ {l} : At(pc', lane', S, k) = At(pc, lane, S, k)
    BY DEF At
  <1>4. IsFiniteSet(At(pc, lane, S, l)) /\ IsFiniteSet(In(pc, S))
    BY CountsFinite
  <1>5. /\ Cardinality(At(pc, lane, S, l) \cup {r}) = Cardinality(At(pc, lane, S, l)) + 1
        /\ Cardinality(In(pc, S) \cup {r}) = Cardinality(In(pc, S)) + 1
    BY <1>1, <1>4, FS_AddElement, Zenon
  <1> QED BY <1>1, <1>2, <1>3, <1>5

\* Request r moves out of S, on lane l.
LEMMA MoveOut ==
    ASSUME NEW S, NEW r \in Requests, NEW l \in Lanes,
           pc[r] \in S, pc'[r] \notin S, lane[r] = l,
           \A x \in Requests \ {r} : pc'[x] = pc[x] /\ lane'[x] = lane[x]
    PROVE  /\ At(pc', lane', S, l) = At(pc, lane, S, l) \ {r}
           /\ \A k \in Lanes \ {l} : At(pc', lane', S, k) = At(pc, lane, S, k)
           /\ Cardinality(At(pc, lane, S, l)) \in Nat \ {0}
           /\ Cardinality(At(pc', lane', S, l)) = Cardinality(At(pc, lane, S, l)) - 1
           /\ Cardinality(In(pc, S)) \in Nat \ {0}
           /\ Cardinality(In(pc', S)) = Cardinality(In(pc, S)) - 1
  <1>1. r \in At(pc, lane, S, l) /\ r \in In(pc, S)
    BY DEF At, In
  <1>2. At(pc', lane', S, l) = At(pc, lane, S, l) \ {r} /\ In(pc', S) = In(pc, S) \ {r}
    BY DEF At, In
  <1>3. \A k \in Lanes \ {l} : At(pc', lane', S, k) = At(pc, lane, S, k)
    BY DEF At
  <1>4. /\ IsFiniteSet(At(pc, lane, S, l)) /\ IsFiniteSet(In(pc, S))
        /\ Cardinality(At(pc, lane, S, l)) \in Nat /\ Cardinality(In(pc, S)) \in Nat
    BY CountsFinite
  <1>5. Cardinality(At(pc, lane, S, l)) # 0 /\ Cardinality(In(pc, S)) # 0
    BY <1>1, <1>4, FS_EmptySet
  <1>6. /\ Cardinality(At(pc, lane, S, l) \ {r}) = Cardinality(At(pc, lane, S, l)) - 1
        /\ Cardinality(In(pc, S) \ {r}) = Cardinality(In(pc, S)) - 1
    BY <1>1, <1>4, FS_RemoveElement, Zenon
  <1> QED BY <1>2, <1>3, <1>4, <1>5, <1>6

\* Request r moves neither into nor out of S.
LEMMA MoveOutside ==
    ASSUME NEW S, NEW r \in Requests,
           (pc[r] \notin S /\ pc'[r] \notin S) \/ (pc[r] \in S /\ pc'[r] \in S /\ lane'[r] = lane[r]),
           \A x \in Requests \ {r} : pc'[x] = pc[x] /\ lane'[x] = lane[x]
    PROVE  In(pc', S) = In(pc, S) /\ \A k \in Lanes : At(pc', lane', S, k) = At(pc, lane, S, k)
  BY DEF In, At

----------------------------------------------------------------------------
\* CreditsConserved and QueuesConsistent in terms of the sets above.
Credits ==
    /\ \A l \in Lanes : activeByLane[l] = Cardinality(At(pc, lane, Owning, l))
    /\ activeTotal = Cardinality(In(pc, Owning))

Waiters ==
    /\ \A l \in Lanes : Elems(queues[l]) = At(pc, lane, {"queued"}, l) /\ Distinct(queues[l])
    /\ Elems(ready) = {l \in Lanes : queues[l] # <<>>}
    /\ Distinct(ready)
    /\ queuedTotal = Cardinality(In(pc, {"queued"}))
    /\ queuedTotal <= MaxQueued

\* A closed controller has no waiter, and nobody pumps it.
ClosedQuiet == closed => mu = "free" /\ \A l \in Lanes : queues[l] = <<>>

\* The inductive invariant.
FlowInv == TypeOK /\ Credits /\ Waiters /\ NoStrandedWaiter /\ ClosedQuiet

LEMMA FlowInvImplies == FlowInv => CreditsConserved /\ QueuesConsistent
  <1>1. Credits => CreditsConserved
    BY DEF Credits, CreditsConserved, Owners, At, In
  <1>2. In(pc, {"queued"}) = {r \in Requests : pc[r] = "queued"}
    BY DEF In
  <1>3. \A l \in Lanes : At(pc, lane, {"queued"}, l) = {r \in Requests : pc[r] = "queued" /\ lane[r] = l}
    BY DEF At
  <1>4. Waiters => QueuesConsistent
    BY <1>2, <1>3 DEF Waiters, QueuesConsistent, Elems, Distinct
  <1> QED BY <1>1, <1>4 DEF FlowInv

LEMMA FlowInit == Init => FlowInv
  <1> SUFFICES ASSUME Init PROVE FlowInv
    OBVIOUS
  <1>1. \A w \in LaneLimits : effectiveLaneLimit(w) \in Nat
    BY FlowConstants DEF effectiveLaneLimit
  <1>2. (CHOOSE l \in Lanes : TRUE) \in Lanes
    BY FlowConstants
  <1>3. TypeOK
    <2>1. queues \in [Lanes -> Seq(Requests)] /\ ready \in Seq(Lanes)
      BY DEF Init
    <2>2. pc \in [Requests -> PCs] /\ lane \in [Requests -> Lanes]
      BY <1>2 DEF Init, PCs
    <2>3. connectionLimit \in Nat /\ laneLimit \in Nat
      BY <1>1, FlowConstants DEF Init
    <2> QED BY <2>1, <2>2, <2>3 DEF Init, TypeOK
  <1>4. /\ In(pc, Owning) = {} /\ In(pc, {"queued"}) = {}
        /\ \A l \in Lanes : At(pc, lane, Owning, l) = {} /\ At(pc, lane, {"queued"}, l) = {}
    BY DEF Init, In, At, Owning
  <1>5. Cardinality({}) = 0
    BY FS_EmptySet
  <1>6. Elems(<<>>) = {} /\ Distinct(<<>>)
    BY DEF Elems, Distinct
  <1>7. Credits
    BY <1>4, <1>5 DEF Init, Credits
  <1>8. Waiters
    <2>1. ready = <<>> /\ \A l \in Lanes : queues[l] = <<>>
      BY DEF Init
    <2>2. queuedTotal = 0 /\ queuedTotal <= MaxQueued
      BY FlowConstants DEF Init
    <2>3. Elems(ready) = {l \in Lanes : queues[l] # <<>>}
      BY <1>6, <2>1
    <2> QED BY <1>4, <1>5, <1>6, <2>1, <2>2, <2>3 DEF Waiters
  <1> QED BY <1>3, <1>7, <1>8 DEF FlowInv, Init, NoStrandedWaiter, ClosedQuiet

----------------------------------------------------------------------------
\* An acquire that finds a credit takes it.
LEMMA AcquireNowKeeps ==
    ASSUME FlowInv, NEW r \in Requests, NEW l \in Lanes, AcquireNow(r, l)
    PROVE  FlowInv'
  <1> USE DEF FlowInv
  <1>1. TypeOK'
    BY DEF AcquireNow, activateLocked, Goto, TypeOK, PCs, limits, waiters
  <1>2. /\ pc[r] = "idle" /\ pc'[r] = "holding" /\ lane'[r] = l
        /\ \A x \in Requests \ {r} : pc'[x] = pc[x] /\ lane'[x] = lane[x]
    BY DEF AcquireNow, Goto, TypeOK
  <1>3. /\ activeTotal' = activeTotal + 1
        /\ activeByLane'[l] = activeByLane[l] + 1
        /\ \A k \in Lanes \ {l} : activeByLane'[k] = activeByLane[k]
    BY DEF AcquireNow, activateLocked, TypeOK
  <1>4. /\ queues' = queues /\ ready' = ready /\ queuedTotal' = queuedTotal
        /\ closed' = closed /\ mu' = mu /\ mu = "free" /\ ~closed
        /\ connectionLimit' = connectionLimit /\ laneLimit' = laneLimit
    BY DEF AcquireNow, Admits, waiters, limits
  <1>5. Credits'
    <2>1. pc[r] \notin Owning /\ pc'[r] \in Owning
      BY <1>2 DEF Owning
    <2>2. /\ \A k \in Lanes \ {l} : At(pc', lane', Owning, k) = At(pc, lane, Owning, k)
          /\ Cardinality(At(pc', lane', Owning, l)) = Cardinality(At(pc, lane, Owning, l)) + 1
          /\ Cardinality(In(pc', Owning)) = Cardinality(In(pc, Owning)) + 1
      BY <1>2, <2>1, MoveIn
    <2> QED BY <1>3, <2>2 DEF Credits, Owning
  <1>6. Waiters'
    <2>1. /\ In(pc', {"queued"}) = In(pc, {"queued"})
          /\ \A k \in Lanes : At(pc', lane', {"queued"}, k) = At(pc, lane, {"queued"}, k)
      BY <1>2, MoveOutside
    <2> QED BY <1>4, <2>1 DEF Waiters
  <1>7. NoStrandedWaiter'
    <2>1. \A k \in Lanes : activeByLane[k] \in Nat /\ activeByLane'[k] \in Nat /\ activeByLane'[k] >= activeByLane[k]
      <3> SUFFICES ASSUME NEW k \in Lanes
                   PROVE  /\ activeByLane[k] \in Nat /\ activeByLane'[k] \in Nat
                          /\ activeByLane'[k] >= activeByLane[k]
        OBVIOUS
      <3>1. activeByLane[k] \in Nat /\ activeByLane'[k] \in Nat
        BY <1>1 DEF TypeOK
      <3>2. CASE k = l
        BY <1>3, <3>1, <3>2
      <3>3. CASE k # l
        BY <1>3, <3>1, <3>3
      <3> QED BY <3>2, <3>3
    <2>2. activeTotal \in Nat /\ laneLimit \in Nat /\ connectionLimit \in Nat
      BY DEF TypeOK
    <2>3. \A k \in Lanes : ~canAcquireLocked(k) => ~canAcquireLocked(k)'
      BY <1>3, <1>4, <2>1, <2>2 DEF canAcquireLocked
    <2> QED BY <1>4, <2>3 DEF NoStrandedWaiter
  <1>8. ClosedQuiet'
    BY <1>4 DEF ClosedQuiet
  <1> QED BY <1>1, <1>5, <1>6, <1>7, <1>8

\* An acquire that finds none queues behind the waiters of its lane.
LEMMA AcquireQueueKeeps ==
    ASSUME FlowInv, NEW r \in Requests, NEW l \in Lanes, AcquireQueue(r, l)
    PROVE  FlowInv'
  <1> USE DEF FlowInv
  <1>2. /\ pc[r] = "idle" /\ pc'[r] = "queued" /\ lane'[r] = l
        /\ \A x \in Requests \ {r} : pc'[x] = pc[x] /\ lane'[x] = lane[x]
    BY DEF AcquireQueue, Goto, TypeOK
  <1>3. /\ queues[l] \in Seq(Requests) /\ Distinct(queues[l]) /\ r \notin Elems(queues[l])
    <2>1. r \notin At(pc, lane, {"queued"}, l)
      BY <1>2 DEF At
    <2> QED BY <2>1 DEF TypeOK, Waiters
  <1>4. /\ queues'[l] = Append(queues[l], r)
        /\ \A k \in Lanes \ {l} : queues'[k] = queues[k]
    BY DEF AcquireQueue, TypeOK
  <1>5. /\ queues'[l] \in Seq(Requests) /\ queues'[l] # <<>>
        /\ Elems(queues'[l]) = Elems(queues[l]) \cup {r}
        /\ Distinct(queues'[l])
    BY <1>3, <1>4, AppendElems
  <1>6. /\ activeTotal' = activeTotal /\ activeByLane' = activeByLane
        /\ closed' = closed /\ mu' = mu /\ mu = "free" /\ ~closed
        /\ connectionLimit' = connectionLimit /\ laneLimit' = laneLimit
        /\ ~canAcquireLocked(l)
    BY DEF AcquireQueue, Admits, credits, limits
  <1>7. /\ ready' \in Seq(Lanes) /\ Distinct(ready')
        /\ Elems(ready') = {k \in Lanes : queues'[k] # <<>>}
    <2>1. ready \in Seq(Lanes) /\ Distinct(ready) /\ Elems(ready) = {k \in Lanes : queues[k] # <<>>}
      BY DEF TypeOK, Waiters
    <2>2. CASE queues[l] = <<>>
      <3>1. ready' = Append(ready, l) /\ l \notin Elems(ready)
        BY <2>1, <2>2 DEF AcquireQueue
      <3>2. /\ ready' \in Seq(Lanes) /\ Distinct(ready') /\ Elems(ready') = Elems(ready) \cup {l}
        BY <2>1, <3>1, AppendElems
      <3> QED BY <1>4, <1>5, <2>1, <3>2
    <2>3. CASE queues[l] # <<>>
      <3>1. ready' = ready
        BY <2>3 DEF AcquireQueue
      <3> QED BY <1>4, <1>5, <2>1, <2>3, <3>1
    <2> QED BY <2>2, <2>3
  <1>8. TypeOK'
    <2>1. queues' \in [Lanes -> Seq(Requests)]
      BY <1>4, <1>5 DEF AcquireQueue, TypeOK
    <2>2. queuedTotal' \in Nat /\ pc' \in [Requests -> PCs] /\ lane' \in [Requests -> Lanes]
      BY DEF AcquireQueue, Goto, TypeOK, PCs
    <2> QED BY <1>6, <1>7, <2>1, <2>2 DEF TypeOK
  <1>9. Credits'
    <2>1. pc[r] \notin Owning /\ pc'[r] \notin Owning
      BY <1>2 DEF Owning
    <2>2. /\ In(pc', Owning) = In(pc, Owning)
          /\ \A k \in Lanes : At(pc', lane', Owning, k) = At(pc, lane, Owning, k)
      BY <1>2, <2>1, MoveOutside
    <2> QED BY <1>6, <2>2 DEF Credits, Owning
  <1>10. Waiters'
    <2>1. /\ At(pc', lane', {"queued"}, l) = At(pc, lane, {"queued"}, l) \cup {r}
          /\ \A k \in Lanes \ {l} : At(pc', lane', {"queued"}, k) = At(pc, lane, {"queued"}, k)
          /\ Cardinality(In(pc', {"queued"})) = Cardinality(In(pc, {"queued"})) + 1
      BY <1>2, MoveIn
    <2>2. queuedTotal' = queuedTotal + 1 /\ queuedTotal' <= MaxQueued
      BY FlowConstants DEF AcquireQueue, TypeOK
    <2>3. \A k \in Lanes : Elems(queues'[k]) = At(pc', lane', {"queued"}, k) /\ Distinct(queues'[k])
      BY <1>4, <1>5, <2>1 DEF Waiters
    <2> QED BY <1>7, <2>1, <2>2, <2>3 DEF Waiters
  <1>11. NoStrandedWaiter'
    BY <1>4, <1>6 DEF NoStrandedWaiter, canAcquireLocked
  <1>12. ClosedQuiet'
    BY <1>6 DEF ClosedQuiet
  <1> QED BY <1>8, <1>9, <1>10, <1>11, <1>12

\* A settled acquire returns or sees its context end first: no credit moves.
LEMMA SettledKeeps ==
    ASSUME FlowInv, NEW r \in Requests, AcquireReturns(r) \/ CancelSettled(r)
    PROVE  FlowInv'
  <1> USE DEF FlowInv
  <1>1. /\ activeTotal' = activeTotal /\ activeByLane' = activeByLane
        /\ queues' = queues /\ ready' = ready /\ queuedTotal' = queuedTotal
        /\ closed' = closed /\ mu' = mu /\ lane' = lane
        /\ connectionLimit' = connectionLimit /\ laneLimit' = laneLimit
    BY DEF AcquireReturns, CancelSettled, credits, waiters, limits
  <1>2. /\ pc' \in [Requests -> PCs]
        /\ \A x \in Requests \ {r} : pc'[x] = pc[x] /\ lane'[x] = lane[x]
        /\ pc[r] # "queued" /\ pc'[r] # "queued"
        /\ pc[r] \in Owning <=> pc'[r] \in Owning
    BY <1>1 DEF AcquireReturns, CancelSettled, Goto, TypeOK, PCs, Owning
  <1>3. /\ In(pc', Owning) = In(pc, Owning)
        /\ \A k \in Lanes : At(pc', lane', Owning, k) = At(pc, lane, Owning, k)
    BY <1>1, <1>2, MoveOutside
  <1>4. /\ In(pc', {"queued"}) = In(pc, {"queued"})
        /\ \A k \in Lanes : At(pc', lane', {"queued"}, k) = At(pc, lane, {"queued"}, k)
    BY <1>1, <1>2, MoveOutside
  <1>5. TypeOK'
    BY <1>1, <1>2 DEF TypeOK
  <1>6. Credits'
    BY <1>1, <1>3 DEF Credits, Owning
  <1>7. Waiters'
    BY <1>1, <1>4 DEF Waiters
  <1>8. NoStrandedWaiter' /\ ClosedQuiet'
    BY <1>1 DEF NoStrandedWaiter, canAcquireLocked, ClosedQuiet
  <1> QED BY <1>5, <1>6, <1>7, <1>8

\* A waiter whose context ends is unlinked, wherever it is in its queue.
LEMMA CancelQueuedKeeps ==
    ASSUME FlowInv, NEW r \in Requests, CancelQueued(r)
    PROVE  FlowInv'
  <1> DEFINE l == lane[r]
  <1> USE DEF FlowInv
  <1>1. l \in Lanes /\ queues[l] \in Seq(Requests) /\ Distinct(queues[l])
    BY DEF TypeOK, Waiters
  <1>2. /\ pc[r] = "queued" /\ pc'[r] = "idle" /\ lane' = lane
        /\ \A x \in Requests \ {r} : pc'[x] = pc[x] /\ lane'[x] = lane[x]
    BY DEF CancelQueued, Goto, TypeOK
  <1>3. PICK i \in DOMAIN queues[l] :
             queues[l][i] = r /\ queues' = [queues EXCEPT ![l] = without(queues[l], i)]
    BY DEF CancelQueued
  <1>4. /\ queues'[l] = without(queues[l], i)
        /\ \A k \in Lanes \ {l} : queues'[k] = queues[k]
    BY <1>1, <1>3 DEF TypeOK
  <1>5. /\ queues'[l] \in Seq(Requests)
        /\ Elems(queues'[l]) = Elems(queues[l]) \ {r}
        /\ Distinct(queues'[l])
        /\ queues'[l] = <<>> <=> Len(queues[l]) = 1
    BY <1>1, <1>3, <1>4, WithoutElems
  <1>6. /\ activeTotal' = activeTotal /\ activeByLane' = activeByLane
        /\ closed' = closed /\ mu' = mu /\ mu = "free"
        /\ connectionLimit' = connectionLimit /\ laneLimit' = laneLimit
        /\ queuedTotal' = queuedTotal - 1
    BY DEF CancelQueued, credits, limits
  <1>7. queues[l] # <<>>
    BY <1>3
  <1>8. /\ ready' \in Seq(Lanes) /\ Distinct(ready')
        /\ Elems(ready') = {k \in Lanes : queues'[k] # <<>>}
    <2>1. ready \in Seq(Lanes) /\ Distinct(ready) /\ Elems(ready) = {k \in Lanes : queues[k] # <<>>}
      BY DEF TypeOK, Waiters
    <2>2. CASE Len(queues[l]) = 1
      <3>1. PICK k \in DOMAIN ready : ready[k] = l /\ ready' = without(ready, k)
        BY <2>2 DEF CancelQueued
      <3>2. ready' \in Seq(Lanes) /\ Distinct(ready') /\ Elems(ready') = Elems(ready) \ {l}
        BY <2>1, <3>1, WithoutElems
      <3> QED BY <1>1, <1>4, <1>5, <2>1, <2>2, <3>2
    <2>3. CASE Len(queues[l]) # 1
      <3>1. ready' = ready
        BY <2>3 DEF CancelQueued
      <3> QED BY <1>1, <1>4, <1>5, <1>7, <2>1, <2>3, <3>1
    <2> QED BY <2>2, <2>3
  <1> HIDE DEF l
  <1>9. Waiters' /\ queuedTotal' \in Nat
    <2>1. /\ l \in Lanes /\ lane[r] = l /\ pc[r] \in {"queued"} /\ pc'[r] \notin {"queued"}
          /\ \A x \in Requests \ {r} : pc'[x] = pc[x] /\ lane'[x] = lane[x]
      BY <1>1, <1>2 DEF l
    <2>2. /\ At(pc', lane', {"queued"}, l) = At(pc, lane, {"queued"}, l) \ {r}
          /\ \A k \in Lanes \ {l} : At(pc', lane', {"queued"}, k) = At(pc, lane, {"queued"}, k)
          /\ Cardinality(In(pc, {"queued"})) \in Nat \ {0}
          /\ Cardinality(In(pc', {"queued"})) = Cardinality(In(pc, {"queued"})) - 1
      BY <2>1, MoveOut
    <2>3. \A k \in Lanes : Elems(queues'[k]) = At(pc', lane', {"queued"}, k) /\ Distinct(queues'[k])
      BY <1>1, <1>4, <1>5, <2>2 DEF Waiters
    <2>4. queuedTotal = Cardinality(In(pc, {"queued"})) /\ queuedTotal <= MaxQueued
      BY DEF Waiters
    <2>5. queuedTotal' \in Nat /\ queuedTotal' <= MaxQueued
      BY <1>6, <2>2, <2>4, FlowConstants
    <2> QED BY <1>6, <1>8, <2>2, <2>3, <2>4, <2>5 DEF Waiters
  <1>10. TypeOK'
    <2>1. queues' \in [Lanes -> Seq(Requests)]
      BY <1>3, <1>4, <1>5 DEF TypeOK
    <2>2. pc' \in [Requests -> PCs] /\ lane' \in [Requests -> Lanes]
      BY DEF CancelQueued, Goto, TypeOK, PCs
    <2> QED BY <1>6, <1>8, <1>9, <2>1, <2>2 DEF TypeOK
  <1>11. Credits'
    <2>1. pc[r] \notin Owning /\ pc'[r] \notin Owning
      BY <1>2 DEF Owning
    <2>2. /\ In(pc', Owning) = In(pc, Owning)
          /\ \A k \in Lanes : At(pc', lane', Owning, k) = At(pc, lane, Owning, k)
      BY <1>2, <2>1, MoveOutside
    <2> QED BY <1>6, <2>2 DEF Credits, Owning
  <1>12. NoStrandedWaiter'
    BY <1>4, <1>6, <1>7 DEF NoStrandedWaiter, canAcquireLocked
  <1>13. ClosedQuiet'
    BY <1>1, <1>6, <1>7 DEF ClosedQuiet
  <1> QED BY <1>9, <1>10, <1>11, <1>12, <1>13

\* A credit is given back: there is one to give back, and the pump is started
\* unless the controller is closed.
LEMMA ReleaseKeeps ==
    ASSUME FlowInv, NEW r \in Requests, Release(r)
    PROVE  FlowInv'
  <1> DEFINE l == lane[r]
  <1> USE DEF FlowInv
  <1>1. l \in Lanes /\ pc' \in [Requests -> PCs]
    BY DEF TypeOK, Release, Goto, PCs
  <1>2. /\ pc[r] \in Owning /\ pc'[r] \notin Owning /\ pc[r] # "queued" /\ pc'[r] # "queued"
        /\ \A x \in Requests \ {r} : pc'[x] = pc[x] /\ lane'[x] = lane[x]
    BY DEF Release, Goto, TypeOK, Owning
  <1>3. /\ \A k \in Lanes \ {l} : At(pc', lane', Owning, k) = At(pc, lane, Owning, k)
        /\ Cardinality(At(pc, lane, Owning, l)) \in Nat \ {0}
        /\ Cardinality(At(pc', lane', Owning, l)) = Cardinality(At(pc, lane, Owning, l)) - 1
        /\ Cardinality(In(pc, Owning)) \in Nat \ {0}
        /\ Cardinality(In(pc', Owning)) = Cardinality(In(pc, Owning)) - 1
    BY <1>1, <1>2, MoveOut
  <1>4. activeByLane[l] \in Nat \ {0} /\ activeTotal \in Nat \ {0}
    BY <1>1, <1>3 DEF Credits
  <1>5. /\ activeTotal' = activeTotal - 1
        /\ activeByLane' = [activeByLane EXCEPT ![l] = activeByLane[l] - 1]
        /\ mu' = (IF closed THEN "free" ELSE "pump")
        /\ queues' = queues /\ ready' = ready /\ queuedTotal' = queuedTotal
        /\ closed' = closed /\ lane' = lane
        /\ connectionLimit' = connectionLimit /\ laneLimit' = laneLimit
    BY <1>4 DEF Release, waiters, limits
  <1>6. TypeOK'
    BY <1>1, <1>4, <1>5 DEF TypeOK
  <1>7. Credits'
    <2>1. /\ activeByLane'[l] = activeByLane[l] - 1
          /\ \A k \in Lanes \ {l} : activeByLane'[k] = activeByLane[k]
      BY <1>1, <1>5 DEF TypeOK
    <2> QED BY <1>1, <1>3, <1>5, <2>1 DEF Credits, Owning
  <1>8. Waiters'
    <2>1. /\ In(pc', {"queued"}) = In(pc, {"queued"})
          /\ \A k \in Lanes : At(pc', lane', {"queued"}, k) = At(pc, lane, {"queued"}, k)
      BY <1>2, MoveOutside
    <2> QED BY <1>5, <2>1 DEF Waiters
  <1>9. ClosedQuiet' /\ NoStrandedWaiter'
    BY <1>5 DEF ClosedQuiet, NoStrandedWaiter
  <1> QED BY <1>6, <1>7, <1>8, <1>9

\* The limits change: the pump runs before the mutex is free again.
LEMMA UpdateLimitsKeeps ==
    ASSUME FlowInv, UpdateLimits
    PROVE  FlowInv'
  <1> USE DEF FlowInv
  <1>1. /\ connectionLimit' \in Nat /\ laneLimit' \in Nat
        /\ mu' = (IF closed THEN "free" ELSE "pump")
        /\ activeTotal' = activeTotal /\ activeByLane' = activeByLane
        /\ queues' = queues /\ ready' = ready /\ queuedTotal' = queuedTotal
        /\ closed' = closed /\ pc' = pc /\ lane' = lane
    BY FlowConstants DEF UpdateLimits, effectiveLaneLimit, credits, waiters, calls
  <1>2. TypeOK' /\ Credits' /\ Waiters'
    BY <1>1 DEF TypeOK, Credits, Waiters
  <1>3. ClosedQuiet' /\ NoStrandedWaiter'
    BY <1>1 DEF ClosedQuiet, NoStrandedWaiter
  <1> QED BY <1>2, <1>3

\* The controller is closed: all waiters are settled with the error.
LEMMA CloseKeeps ==
    ASSUME FlowInv, Close
    PROVE  FlowInv'
  <1> USE DEF FlowInv
  <1>1. /\ mu' = mu /\ mu = "free" /\ closed' = TRUE
        /\ activeTotal' = activeTotal /\ activeByLane' = activeByLane
        /\ ready' = <<>> /\ queuedTotal' = 0 /\ lane' = lane
        /\ connectionLimit' = connectionLimit /\ laneLimit' = laneLimit
        /\ \A l \in Lanes : queues'[l] = <<>>
    BY DEF Close, credits, limits
  <1>2. TypeOK'
    <2>1. queues' \in [Lanes -> Seq(Requests)] /\ ready' \in Seq(Lanes)
      BY DEF Close
    <2>2. pc' \in [Requests -> PCs]
      BY DEF Close, TypeOK, PCs
    <2> QED BY <1>1, <2>1, <2>2 DEF TypeOK
  <1>3. \A r \in Requests : (pc'[r] \in Owning <=> pc[r] \in Owning) /\ pc'[r] # "queued"
    BY DEF Close, Owning
  <1>4. Credits'
    <2>1. /\ In(pc', Owning) = In(pc, Owning)
          /\ \A l \in Lanes : At(pc', lane', Owning, l) = At(pc, lane, Owning, l)
      BY <1>1, <1>3 DEF In, At
    <2> QED BY <1>1, <2>1 DEF Credits, Owning
  <1>5. Waiters'
    <2>1. /\ In(pc', {"queued"}) = {} /\ Cardinality({}) = 0
          /\ \A l \in Lanes : At(pc', lane', {"queued"}, l) = {}
      BY <1>3, FS_EmptySet DEF In, At
    <2>2. Elems(<<>>) = {} /\ Distinct(<<>>)
      BY DEF Elems, Distinct
    <2>3. Elems(ready') = {l \in Lanes : queues'[l] # <<>>}
      BY <1>1, <2>2
    <2>4. queuedTotal' <= MaxQueued
      BY <1>1, FlowConstants
    <2> QED BY <1>1, <2>1, <2>2, <2>3, <2>4 DEF Waiters
  <1>6. NoStrandedWaiter' /\ ClosedQuiet'
    BY <1>1 DEF NoStrandedWaiter, ClosedQuiet
  <1> QED BY <1>2, <1>4, <1>5, <1>6

\* One iteration of the pump: it ends when no lane with waiters has a free
\* credit, and otherwise grants one to the oldest waiter of a lane.
LEMMA PumpEndKeeps ==
    ASSUME FlowInv, PumpStep, mu' # "pump"
    PROVE  FlowInv'
  <1> USE DEF FlowInv
  <1>1. /\ mu = "pump" /\ Eligible = {} /\ mu' = "free"
        /\ activeTotal' = activeTotal /\ activeByLane' = activeByLane
        /\ queues' = queues /\ ready' = ready /\ queuedTotal' = queuedTotal
        /\ closed' = closed /\ pc' = pc /\ lane' = lane
        /\ connectionLimit' = connectionLimit /\ laneLimit' = laneLimit
    BY DEF PumpStep, credits, waiters, limits
  <1>2. TypeOK' /\ Credits' /\ Waiters'
    BY <1>1 DEF TypeOK, Credits, Waiters
  <1>3. ~closed
    BY <1>1 DEF ClosedQuiet
  <1>4. NoStrandedWaiter'
    <2> SUFFICES ASSUME NEW l \in Lanes, queues[l] # <<>>, canAcquireLocked(l)
                 PROVE  FALSE
      BY <1>1 DEF NoStrandedWaiter, canAcquireLocked
    <2>1. l \in Elems(ready)
      BY DEF Waiters
    <2>2. PICK i \in DOMAIN ready : ready[i] = l
      BY <2>1 DEF Elems
    <2>3. activeByLane[l] < laneLimit /\ ~(activeTotal >= connectionLimit)
      BY DEF canAcquireLocked, TypeOK
    <2>4. i \in Eligible
      BY <1>3, <2>2, <2>3 DEF Eligible
    <2> QED BY <1>1, <2>4
  <1>5. ClosedQuiet'
    BY <1>1 DEF ClosedQuiet
  <1> QED BY <1>2, <1>4, <1>5

LEMMA PumpGrantKeeps ==
    ASSUME FlowInv, PumpStep, mu' = "pump"
    PROVE  FlowInv'
  <1> USE DEF FlowInv
  <1>1. PICK i \in Eligible :
          LET l == ready[i]
              rest == SubSeq(ready, i + 1, Len(ready)) \o SubSeq(ready, 1, i - 1)
          IN /\ queues[l] # <<>>
             /\ queues' = [queues EXCEPT ![l] = Tail(queues[l])]
             /\ ready' = IF Len(queues[l]) > 1 THEN Append(rest, l) ELSE rest
             /\ queuedTotal' = queuedTotal - 1
             /\ activateLocked(l)
             /\ Goto(Head(queues[l]), "granted")
    BY DEF PumpStep
  <1>2. /\ mu = "pump" /\ closed' = closed /\ lane' = lane
        /\ connectionLimit' = connectionLimit /\ laneLimit' = laneLimit
    BY DEF PumpStep, limits
  <1>3. i \in DOMAIN ready
    BY DEF Eligible
  <1> DEFINE l == ready[i]
             rest == SubSeq(ready, i + 1, Len(ready)) \o SubSeq(ready, 1, i - 1)
             r == Head(queues[l])
  <1>4. ready \in Seq(Lanes) /\ Distinct(ready) /\ Elems(ready) = {k \in Lanes : queues[k] # <<>>}
    BY DEF TypeOK, Waiters
  <1>5. rest \in Seq(Lanes) /\ Elems(rest) = Elems(ready) \ {l} /\ Distinct(rest)
    BY <1>3, <1>4, RotateElems
  <1>6. l \in Lanes
    BY <1>3, <1>4 DEF Elems
  <1>7. /\ queues[l] # <<>>
        /\ queues' = [queues EXCEPT ![l] = Tail(queues[l])]
        /\ ready' = (IF Len(queues[l]) > 1 THEN Append(rest, l) ELSE rest)
        /\ queuedTotal' = queuedTotal - 1
        /\ activateLocked(l)
        /\ Goto(r, "granted")
    BY <1>1
  <1> HIDE DEF l, rest
  <1>8. queues[l] \in Seq(Requests) /\ Distinct(queues[l])
    BY <1>6 DEF TypeOK, Waiters
  <1>9. /\ Tail(queues[l]) \in Seq(Requests) /\ r \in Elems(queues[l])
        /\ Elems(Tail(queues[l])) = Elems(queues[l]) \ {r}
        /\ Distinct(Tail(queues[l]))
        /\ Tail(queues[l]) = <<>> <=> ~(Len(queues[l]) > 1)
    BY <1>7, <1>8, TailElems
  <1> HIDE DEF r
  <1>10. r \in Requests /\ pc[r] = "queued" /\ lane[r] = l
    BY <1>6, <1>9 DEF Waiters, At
  <1>11. /\ pc'[r] = "granted" /\ lane'[r] = l
         /\ \A x \in Requests \ {r} : pc'[x] = pc[x] /\ lane'[x] = lane[x]
         /\ pc' \in [Requests -> PCs]
    BY <1>2, <1>7, <1>10 DEF Goto, TypeOK, PCs
  <1>12. /\ queues'[l] = Tail(queues[l])
         /\ \A k \in Lanes \ {l} : queues'[k] = queues[k]
         /\ queues' \in [Lanes -> Seq(Requests)]
    BY <1>6, <1>7, <1>9 DEF TypeOK
  <1>13. /\ ready' \in Seq(Lanes) /\ Distinct(ready')
         /\ Elems(ready') = {k \in Lanes : queues'[k] # <<>>}
    <2>1. CASE Len(queues[l]) > 1
      <3>1. ready' = Append(rest, l) /\ l \notin Elems(rest)
        BY <1>5, <1>7, <2>1
      <3>2. ready' \in Seq(Lanes) /\ Distinct(ready') /\ Elems(ready') = Elems(rest) \cup {l}
        BY <1>5, <1>6, <3>1, AppendElems
      <3> QED BY <1>4, <1>5, <1>6, <1>9, <1>12, <2>1, <3>2
    <2>2. CASE ~(Len(queues[l]) > 1)
      <3>1. ready' = rest
        BY <1>7, <2>2
      <3> QED BY <1>4, <1>5, <1>6, <1>9, <1>12, <2>2, <3>1
    <2> QED BY <2>1, <2>2
  <1>14. Waiters' /\ queuedTotal' \in Nat
    <2>1. pc[r] \in {"queued"} /\ pc'[r] \notin {"queued"}
      BY <1>10, <1>11
    <2>2. /\ At(pc', lane', {"queued"}, l) = At(pc, lane, {"queued"}, l) \ {r}
          /\ \A k \in Lanes \ {l} : At(pc', lane', {"queued"}, k) = At(pc, lane, {"queued"}, k)
          /\ Cardinality(In(pc, {"queued"})) \in Nat \ {0}
          /\ Cardinality(In(pc', {"queued"})) = Cardinality(In(pc, {"queued"})) - 1
      BY <1>6, <1>10, <1>11, <2>1, MoveOut
    <2>3. \A k \in Lanes : Elems(queues'[k]) = At(pc', lane', {"queued"}, k) /\ Distinct(queues'[k])
      BY <1>6, <1>9, <1>12, <2>2 DEF Waiters
    <2>4. queuedTotal = Cardinality(In(pc, {"queued"})) /\ queuedTotal <= MaxQueued
      BY DEF Waiters
    <2>5. queuedTotal' \in Nat /\ queuedTotal' <= MaxQueued
      BY <1>7, <2>2, <2>4, FlowConstants
    <2> QED BY <1>7, <1>13, <2>2, <2>3, <2>4, <2>5 DEF Waiters
  <1>15. Credits' /\ activeTotal' \in Nat /\ activeByLane' \in [Lanes -> Nat]
    <2>1. pc[r] \notin Owning /\ pc'[r] \in Owning
      BY <1>10, <1>11 DEF Owning
    <2>2. /\ \A k \in Lanes \ {l} : At(pc', lane', Owning, k) = At(pc, lane, Owning, k)
          /\ Cardinality(At(pc', lane', Owning, l)) = Cardinality(At(pc, lane, Owning, l)) + 1
          /\ Cardinality(In(pc', Owning)) = Cardinality(In(pc, Owning)) + 1
      BY <1>6, <1>10, <1>11, <2>1, MoveIn
    <2>3. /\ activeTotal' = activeTotal + 1
          /\ activeByLane'[l] = activeByLane[l] + 1
          /\ \A k \in Lanes \ {l} : activeByLane'[k] = activeByLane[k]
          /\ activeTotal' \in Nat /\ activeByLane' \in [Lanes -> Nat]
      BY <1>6, <1>7 DEF activateLocked, TypeOK
    <2> QED BY <1>6, <2>2, <2>3 DEF Credits, Owning
  <1>16. TypeOK'
    BY <1>2, <1>11, <1>12, <1>13, <1>14, <1>15 DEF TypeOK
  <1>17. NoStrandedWaiter' /\ ClosedQuiet'
    BY <1>2 DEF NoStrandedWaiter, ClosedQuiet
  <1> QED BY <1>14, <1>15, <1>16, <1>17

----------------------------------------------------------------------------
\* Every reachable state satisfies the inductive invariant.
THEOREM FlowInvariant == Spec => []FlowInv
  <1>1. ASSUME FlowInv, [Next]_vars PROVE FlowInv'
    <2>1. ASSUME NEW r \in Requests, NEW l \in Lanes, AcquireNow(r, l) PROVE FlowInv'
      BY <1>1, <2>1, AcquireNowKeeps
    <2>2. ASSUME NEW r \in Requests, NEW l \in Lanes, AcquireQueue(r, l) PROVE FlowInv'
      BY <1>1, <2>2, AcquireQueueKeeps
    <2>3. ASSUME NEW r \in Requests, AcquireReturns(r) \/ CancelSettled(r) PROVE FlowInv'
      BY <1>1, <2>3, SettledKeeps
    <2>4. ASSUME NEW r \in Requests, CancelQueued(r) PROVE FlowInv'
      BY <1>1, <2>4, CancelQueuedKeeps
    <2>5. ASSUME NEW r \in Requests, Release(r) PROVE FlowInv'
      BY <1>1, <2>5, ReleaseKeeps
    <2>6. CASE PumpStep
      BY <1>1, <2>6, PumpEndKeeps, PumpGrantKeeps
    <2>7. CASE UpdateLimits
      BY <1>1, <2>7, UpdateLimitsKeeps
    <2>8. CASE Close
      BY <1>1, <2>8, CloseKeeps
    <2>9. CASE UNCHANGED vars
      <3>1. /\ UNCHANGED <<connectionLimit, laneLimit, activeTotal, activeByLane>>
            /\ UNCHANGED <<queues, ready, queuedTotal, closed, mu, pc, lane>>
        BY <2>9 DEF vars, limits, credits, waiters, calls
      <3>2. TypeOK' /\ Credits' /\ Waiters'
        BY <1>1, <3>1 DEF FlowInv, TypeOK, Credits, Waiters
      <3>3. NoStrandedWaiter' /\ ClosedQuiet'
        BY <1>1, <3>1 DEF FlowInv, NoStrandedWaiter, canAcquireLocked, ClosedQuiet
      <3> QED BY <3>2, <3>3 DEF FlowInv
    <2> QED BY <1>1, <2>1, <2>2, <2>3, <2>4, <2>5, <2>6, <2>7, <2>8, <2>9 DEF Next
  <1> QED BY <1>1, FlowInit, PTL DEF Spec

\* The fields of the controller keep their types; no counter goes below zero,
\* also where native_limits.go decrements without a test.
THEOREM FlowTypes == Spec => []TypeOK
  <1>1. FlowInv => TypeOK
    BY DEF FlowInv
  <1> QED BY <1>1, FlowInvariant, PTL

\* No credit leaks and none is handed out twice, for any number of requests and
\* lanes and any sequence of limits.
THEOREM FlowCredits == Spec => []CreditsConserved
  BY FlowInvImplies, FlowInvariant, PTL

\* The wait queues and the round-robin list stay intact and within their bound,
\* and so the branches of pumpLocked for stale entries are never taken.
THEOREM FlowQueues == Spec => []QueuesConsistent
  BY FlowInvImplies, FlowInvariant, PTL

\* A request waits only while its lane has no credit to give.
THEOREM FlowNoStrandedWaiter == Spec => []NoStrandedWaiter
  <1>1. FlowInv => NoStrandedWaiter
    BY DEF FlowInv
  <1> QED BY <1>1, FlowInvariant, PTL

\* What NoOvertaking forbids of a step: s is given a credit although r waits for
\* one of the same lane and was there first.
Overtakes(r, s) ==
    /\ pc[r] = "queued" /\ pc[s] \notin Owning /\ pc'[s] \in Owning
    /\ (pc[s] = "idle" /\ lane'[s] = lane[r]) \/ Ahead(r, s)

\* A request in a lane's queue is queued, on that lane.
LEMMA QueuedThere ==
    ASSUME FlowInv, NEW l \in Lanes, NEW i \in DOMAIN queues[l]
    PROVE  queues[l][i] \in Requests /\ pc[queues[l][i]] = "queued" /\ lane[queues[l][i]] = l
  <1>1. queues[l][i] \in Elems(queues[l])
    BY DEF Elems
  <1> QED BY <1>1 DEF FlowInv, Waiters, At

\* A request that finds a credit at once passes nobody: NoStrandedWaiter says its
\* lane had no waiter.
LEMMA AcquireNowFair ==
    ASSUME FlowInv, NEW q \in Requests, NEW l \in Lanes, AcquireNow(q, l),
           NEW r \in Requests, NEW s \in Requests, Overtakes(r, s)
    PROVE  FALSE
  <1>0. TypeOK /\ pc[r] = "queued" /\ lane[r] \in Lanes
    BY DEF FlowInv, TypeOK, Overtakes
  <1>1. s = q
    BY <1>0 DEF AcquireNow, Goto, TypeOK, Overtakes
  <1>2. pc[q] = "idle" /\ mu = "free" /\ canAcquireLocked(l) /\ lane'[q] = l
    BY <1>0 DEF AcquireNow, Admits, TypeOK
  <1>3. CASE lane'[s] = lane[r]
    <2>1. r \in Elems(queues[l])
      BY <1>0, <1>1, <1>2, <1>3 DEF FlowInv, Waiters, At
    <2>2. queues[l] # <<>>
      BY <2>1, EmptySeq DEF Elems
    <2> QED BY <1>2, <2>2 DEF FlowInv, NoStrandedWaiter
  <1>4. CASE Ahead(r, s)
    <2>1. PICK j \in DOMAIN queues[lane[r]] : queues[lane[r]][j] = s
      BY <1>4 DEF Ahead
    <2>2. pc[s] = "queued"
      BY <1>0, <2>1, QueuedThere
    <2> QED BY <1>1, <1>2, <2>2
  <1> QED BY <1>3, <1>4 DEF Overtakes

\* pumpLocked grants to the head of a queue, which nobody is ahead of.
LEMMA PumpFair ==
    ASSUME FlowInv, PumpStep, NEW r \in Requests, NEW s \in Requests, Overtakes(r, s)
    PROVE  FALSE
  <1>0. TypeOK /\ lane[r] \in Lanes /\ pc[s] \notin Owning /\ pc'[s] \in Owning
    BY DEF FlowInv, TypeOK, Overtakes
  <1>1. PICK i \in Eligible : queues[ready[i]] # <<>> /\ Goto(Head(queues[ready[i]]), "granted")
    BY <1>0 DEF PumpStep
  <1> DEFINE l == ready[i]
             h == Head(queues[l])
  <1>2. l \in Lanes
    BY <1>0, <1>1 DEF Eligible, TypeOK
  <1>3. queues[l] \in Seq(Requests) /\ 1 \in DOMAIN queues[l] /\ h = queues[l][1]
    BY <1>0, <1>1, <1>2, EmptySeq DEF TypeOK
  <1>4. h \in Requests /\ pc[h] = "queued" /\ lane[h] = l
    BY <1>2, <1>3, QueuedThere
  <1> HIDE DEF l, h
  <1>5. s = h
    BY <1>0, <1>1, <1>4 DEF Goto, TypeOK, l, h
  <1>6. Ahead(r, s)
    BY <1>4, <1>5 DEF Overtakes
  <1>7. PICK k, j \in DOMAIN queues[lane[r]] :
                k < j /\ queues[lane[r]][k] = r /\ queues[lane[r]][j] = s
    BY <1>6 DEF Ahead
  <1>8. lane[r] = l
    BY <1>0, <1>4, <1>5, <1>7, QueuedThere
  <1>9. j = 1
    BY <1>2, <1>3, <1>5, <1>7, <1>8 DEF FlowInv, Waiters, Distinct
  <1>10. k \in Nat \ {0}
    BY <1>3, <1>7, <1>8, LenProperties
  <1> QED BY <1>7, <1>9, <1>10

\* Credits of a lane are granted in the order of arrival, for any number of
\* requests and lanes: a request is given a credit only with nobody ahead of it.
THEOREM FlowNoOvertaking == Spec => NoOvertaking
  <1>1. ASSUME FlowInv, [Next]_vars PROVE [\A r, s \in Requests :
          /\ pc[r] = "queued" /\ pc[s] \notin Owning /\ pc'[s] \in Owning
          /\ (pc[s] = "idle" /\ lane'[s] = lane[r]) \/ Ahead(r, s)
          => FALSE]_vars
    <2> SUFFICES ASSUME Next, NEW r \in Requests, NEW s \in Requests, Overtakes(r, s)
                 PROVE  FALSE
      BY <1>1, Zenon DEF Overtakes
    <2>0. TypeOK /\ pc[s] \notin Owning /\ pc'[s] \in Owning
      BY <1>1 DEF FlowInv, Overtakes
    <2>1. ASSUME NEW q \in Requests, NEW l \in Lanes, AcquireNow(q, l) PROVE FALSE
      BY <1>1, <2>1, AcquireNowFair
    <2>2. ASSUME NEW q \in Requests, NEW l \in Lanes, AcquireQueue(q, l) PROVE FALSE
      BY <2>0, <2>2 DEF AcquireQueue, Goto, TypeOK, Owning
    <2>3. ASSUME NEW q \in Requests,
                 AcquireReturns(q) \/ CancelQueued(q) \/ CancelSettled(q) \/ Release(q)
          PROVE  FALSE
      BY <2>0, <2>3 DEF AcquireReturns, CancelQueued, CancelSettled, Release, Goto, TypeOK, Owning
    <2>4. CASE PumpStep
      BY <1>1, <2>4, PumpFair
    <2>5. CASE UpdateLimits
      BY <2>0, <2>5 DEF UpdateLimits, calls
    <2>6. CASE Close
      BY <2>0, <2>6 DEF Close, TypeOK, Owning
    <2> QED BY <2>1, <2>2, <2>3, <2>4, <2>5, <2>6 DEF Next
  <1> QED BY <1>1, FlowInvariant, PTL DEF Spec, NoOvertaking
============================================================================
