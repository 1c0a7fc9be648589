---------------------------- MODULE DeliveryProofs ----------------------------
(***************************************************************************)
(* Proofs about EventOutbox, and about the delivery of its events to       *)
(* Convex as IngestDelivery models it, for any batch sizes, capacity,      *)
(* queues and bounds.  The first part is the outbox by itself; the second  *)
(* what its calls leave alone (Onward), the readers, frames and acks (DInv)*)
(* and the ledger that delivery implements.                                *)
(***************************************************************************)
EXTENDS IngestDelivery, SequenceTheorems, FiniteSetTheorems, TLAPS

-----------------------------------------------------------------------------
(* Division of naturals is a natural.                                       *)
LEMMA DivNat ==
  ASSUME NEW m \in Nat \ {0}, NEW a \in Nat
  PROVE  a \div m \in Nat
OBVIOUS

(* Division by a fixed divisor is monotone.                                 *)
LEMMA DivMonotone ==
  ASSUME NEW m \in Nat \ {0}, NEW a \in Nat, NEW c \in Nat, a <= c
  PROVE  a \div m <= c \div m
OBVIOUS

(* A whole divisor more is one more.                                        *)
LEMMA DivNext ==
  ASSUME NEW m \in Nat \ {0}, NEW a \in Nat
  PROVE  (a + m) \div m = a \div m + 1
OBVIOUS

(* Numbers with the same quotient are less than a divisor apart.            *)
LEMMA DivApart ==
  ASSUME NEW m \in Nat \ {0}, NEW a \in Nat, NEW c \in Nat,
         a \div m = c \div m
  PROVE  c - a < m
OBVIOUS

(* flush cuts a buffer into entries with its refs in its order, and numbers *)
(* their batches upwards from the first id within the ids it counts, never  *)
(* one for more than MaxBatchSize entries.                                  *)
LEMMA CutEntries ==
  ASSUME NEW b \in Seq(Nat), NEW first \in Nat \ {0}
  PROVE  /\ Cut(b, first) \in Seq(Entry)
         /\ Len(Cut(b, first)) = Len(b)
         /\ ChunkCount(Len(b)) \in Nat
         /\ \A i \in 1 .. Len(b) :
              /\ Cut(b, first)[i].ref = b[i]
              /\ Cut(b, first)[i].batch \in
                   first .. (first + ChunkCount(Len(b)) - 1)
         /\ \A i, j \in 1 .. Len(b) :
              i < j => Cut(b, first)[i].batch <= Cut(b, first)[j].batch
         /\ \A i, j \in 1 .. Len(b) :
              Cut(b, first)[i].batch = Cut(b, first)[j].batch =>
                j - i < MaxBatchSize
<1> DEFINE id(i) == first + ((i - 1) \div MaxBatchSize)
<1>0. /\ MaxBatchSize \in Nat \ {0}
      /\ Len(b) \in Nat
      /\ Len(b) + MaxBatchSize - 1 \in Nat
      /\ \A i \in 1 .. Len(b) :
           /\ i - 1 \in Nat
           /\ (i - 1) + MaxBatchSize \in Nat
           /\ (i - 1) + MaxBatchSize <= Len(b) + MaxBatchSize - 1
  BY OutboxAssumption
<1>1. \A i \in 1 .. Len(b) : (i - 1) \div MaxBatchSize \in Nat
  BY <1>0, DivNat
<1>2. ASSUME NEW i \in 1 .. Len(b), NEW j \in 1 .. Len(b), i < j
      PROVE  (i - 1) \div MaxBatchSize <= (j - 1) \div MaxBatchSize
  <2>1. i - 1 \in Nat /\ j - 1 \in Nat /\ i - 1 <= j - 1
    BY <1>0, <1>2
  <2> QED
    BY <1>0, <2>1, DivMonotone
<1>3. ChunkCount(Len(b)) \in Nat
  BY <1>0, DivNat DEF ChunkCount
<1>4. ASSUME NEW i \in 1 .. Len(b)
      PROVE  (i - 1) \div MaxBatchSize + 1 <= ChunkCount(Len(b))
  <2>1. ((i - 1) + MaxBatchSize) \div MaxBatchSize
          = (i - 1) \div MaxBatchSize + 1
    BY <1>0, DivNext
  <2>2. ((i - 1) + MaxBatchSize) \div MaxBatchSize
          <= (Len(b) + MaxBatchSize - 1) \div MaxBatchSize
    BY <1>0, DivMonotone
  <2> QED
    BY <2>1, <2>2 DEF ChunkCount
<1>5. \A i \in 1 .. Len(b) : /\ id(i) \in Nat
                             /\ id(i) >= first
                             /\ id(i) <= first + ChunkCount(Len(b)) - 1
  BY <1>1, <1>3, <1>4
<1>6. Cut(b, first) = [i \in 1 .. Len(b) |-> [batch |-> id(i), ref |-> b[i]]]
  BY DEF Cut
<1>7. \A i \in 1 .. Len(b) : [batch |-> id(i), ref |-> b[i]] \in Entry
  BY <1>5 DEF Entry
<1>8. \A i, j \in 1 .. Len(b) : i < j => id(i) <= id(j)
  BY <1>1, <1>2
<1>13. ASSUME NEW i \in 1 .. Len(b), NEW j \in 1 .. Len(b), id(i) = id(j)
       PROVE  j - i < MaxBatchSize
  <2>1. (i - 1) \div MaxBatchSize = (j - 1) \div MaxBatchSize
    BY <1>1, <1>13
  <2>2. (j - 1) - (i - 1) < MaxBatchSize
    BY <1>0, <2>1, DivApart
  <2> QED
    BY <1>0, <2>2
<1> HIDE DEF id
<1>9. Cut(b, first) \in Seq(Entry) /\ Len(Cut(b, first)) = Len(b)
  <2>1. Cut(b, first) \in [1 .. Len(b) -> Entry]
    BY <1>6, <1>7
  <2> QED
    BY <1>0, <2>1
<1>10. \A i \in 1 .. Len(b) : /\ Cut(b, first)[i].ref = b[i]
                              /\ Cut(b, first)[i].batch = id(i)
  BY <1>6
<1>11. \A i \in 1 .. Len(b) :
         Cut(b, first)[i].batch \in first .. (first + ChunkCount(Len(b)) - 1)
  BY <1>3, <1>5, <1>10
<1>12. \A i, j \in 1 .. Len(b) :
         i < j => Cut(b, first)[i].batch <= Cut(b, first)[j].batch
  BY <1>8, <1>10
<1>14. \A i, j \in 1 .. Len(b) :
         Cut(b, first)[i].batch = Cut(b, first)[j].batch => j - i < MaxBatchSize
  BY <1>10, <1>13
<1> QED
  BY <1>3, <1>9, <1>10, <1>11, <1>12, <1>14

-----------------------------------------------------------------------------
(* An arrival is held exactly when a batch entry or the buffer names it.    *)
LEMMA InRefs ==
  ASSUME NEW u, NEW b, NEW x
  PROVE  x \in Refs(u, b) <=> \/ \E i \in DOMAIN u : x = u[i].ref
                              \/ \E i \in DOMAIN b : x = b[i]
BY DEF Refs

(* push: the new event is held as well, after everything else.              *)
LEMMA Push ==
  ASSUME NEW u \in Seq(Entry), NEW b \in Seq(Nat), NEW r \in Nat,
         InOrder(u, b), \A x \in Refs(u, b) : x < r
  PROVE  /\ Append(b, r) \in Seq(Nat)
         /\ Len(Append(b, r)) = Len(b) + 1
         /\ InOrder(u, Append(b, r))
         /\ Refs(u, Append(b, r)) = Refs(u, b) \cup {r}
<1> DEFINE c == Append(b, r)
<1>1. /\ c \in Seq(Nat)
      /\ Len(c) = Len(b) + 1
      /\ Len(b) \in Nat
      /\ DOMAIN b = 1 .. Len(b)
      /\ DOMAIN c = 1 .. (Len(b) + 1)
      /\ \A i \in 1 .. Len(b) : c[i] = b[i]
      /\ c[Len(b) + 1] = r
  OBVIOUS
<1> HIDE DEF c
<1>2. ASSUME NEW x PROVE x \in Refs(u, c) <=> x \in Refs(u, b) \/ x = r
  <2>1. (\E i \in DOMAIN c : x = c[i]) <=> (\E i \in DOMAIN b : x = b[i]) \/ x = r
    <3>1. ASSUME NEW i \in DOMAIN c, x = c[i]
          PROVE  (\E k \in DOMAIN b : x = b[k]) \/ x = r
      <4>1. i \in DOMAIN b \/ i = Len(b) + 1
        BY <1>1
      <4> QED BY <1>1, <3>1, <4>1
    <3>2. ASSUME NEW i \in DOMAIN b, x = b[i]
          PROVE  \E k \in DOMAIN c : x = c[k]
      <4>1. i \in DOMAIN c /\ x = c[i]
        BY <1>1, <3>2
      <4> QED BY <4>1
    <3>3. Len(b) + 1 \in DOMAIN c
      BY <1>1
    <3> QED BY <1>1, <3>1, <3>2, <3>3
  <2> QED BY <2>1, InRefs
<1>3. \A i \in DOMAIN b : b[i] < r
  BY InRefs
<1>4. \A i \in DOMAIN u : u[i].ref < r
  BY InRefs
<1>5. ASSUME NEW i \in DOMAIN c
      PROVE  \/ i \in DOMAIN b /\ c[i] = b[i] /\ c[i] < r
             \/ i = Len(b) + 1 /\ c[i] = r
  <2>1. i \in DOMAIN b \/ i = Len(b) + 1
    BY <1>1
  <2> QED BY <1>1, <1>3, <2>1
<1>6. ASSUME NEW i \in DOMAIN c, NEW j \in DOMAIN c, i < j PROVE c[i] < c[j]
  <2>1. i \in DOMAIN b /\ c[i] = b[i] /\ c[i] < r
    BY <1>1, <1>5, <1>6
  <2>2. CASE j \in DOMAIN b /\ c[j] = b[j]
    BY <1>6, <2>1, <2>2 DEF InOrder
  <2>3. CASE c[j] = r
    BY <2>1, <2>3
  <2> QED BY <1>5, <2>2, <2>3
<1>7. ASSUME NEW i \in DOMAIN u, NEW j \in DOMAIN c PROVE u[i].ref < c[j]
  <2>1. CASE j \in DOMAIN b /\ c[j] = b[j]
    BY <2>1 DEF InOrder
  <2>2. CASE c[j] = r
    BY <1>4, <2>2
  <2> QED BY <1>5, <2>1, <2>2
<1>8. InOrder(u, c)
  BY <1>6, <1>7 DEF InOrder
<1> QED
  BY <1>1, <1>2, <1>8 DEF c

(* Entries of one batch are less than MaxBatchSize places apart: a batch is *)
(* a run of the Map, and no longer than a frame may be.                     *)
BatchesFit(u) ==
  \A i, j \in DOMAIN u : u[i].batch = u[j].batch => j - i < MaxBatchSize

(* v1 picks entries of v, at the places f, in the order of v.               *)
Picks(f, v1, v) ==
  /\ f \in [DOMAIN v1 -> DOMAIN v]
  /\ \A i \in DOMAIN v1 : v1[i] = v[f[i]]
  /\ \A i, j \in DOMAIN v1 : i < j => f[i] < f[j]

(* Leaving entries out keeps what is held in order and adds nothing to it.  *)
LEMMA Thinned ==
  ASSUME NEW u, NEW b, InOrder(u, b), NEW u1, NEW b1,
         NEW f, NEW g, Picks(f, u1, u), Picks(g, b1, b)
  PROVE  InOrder(u1, b1) /\ Refs(u1, b1) \subseteq Refs(u, b)
<1>1. ASSUME NEW i \in DOMAIN u1, NEW j \in DOMAIN u1, i < j
      PROVE  u1[i].ref < u1[j].ref /\ u1[i].batch <= u1[j].batch
  <2>1. /\ f[i] \in DOMAIN u /\ f[j] \in DOMAIN u /\ f[i] < f[j]
        /\ u1[i] = u[f[i]] /\ u1[j] = u[f[j]]
    BY <1>1 DEF Picks
  <2> QED BY <2>1 DEF InOrder
<1>2. ASSUME NEW i \in DOMAIN b1, NEW j \in DOMAIN b1, i < j
      PROVE  b1[i] < b1[j]
  <2>1. /\ g[i] \in DOMAIN b /\ g[j] \in DOMAIN b /\ g[i] < g[j]
        /\ b1[i] = b[g[i]] /\ b1[j] = b[g[j]]
    BY <1>2 DEF Picks
  <2> QED BY <2>1 DEF InOrder
<1>3. ASSUME NEW i \in DOMAIN u1, NEW j \in DOMAIN b1
      PROVE  u1[i].ref < b1[j]
  <2>1. /\ f[i] \in DOMAIN u /\ g[j] \in DOMAIN b
        /\ u1[i] = u[f[i]] /\ b1[j] = b[g[j]]
    BY DEF Picks
  <2> QED BY <2>1 DEF InOrder
<1>4. ASSUME NEW x \in Refs(u1, b1) PROVE x \in Refs(u, b)
  <2>1. ASSUME NEW i \in DOMAIN u1, x = u1[i].ref PROVE x \in Refs(u, b)
    <3>1. f[i] \in DOMAIN u /\ x = u[f[i]].ref
      BY <2>1 DEF Picks
    <3> QED BY <3>1, InRefs
  <2>2. ASSUME NEW i \in DOMAIN b1, x = b1[i] PROVE x \in Refs(u, b)
    <3>1. g[i] \in DOMAIN b /\ x = b[g[i]]
      BY <2>2 DEF Picks
    <3> QED BY <3>1, InRefs
  <2> QED BY <2>1, <2>2, InRefs
<1> QED BY <1>1, <1>2, <1>3, <1>4 DEF InOrder

(* dropOldest: what is kept stays in order, the discarded event is older    *)
(* than all of it, and nothing else is lost.                                *)
LEMMA DropOldest ==
  ASSUME NEW u \in Seq(Entry), NEW b \in Seq(Nat), InOrder(u, b)
  PROVE  /\ KeptUnacked(u, b) \in Seq(Entry) /\ KeptBuffer(u, b) \in Seq(Nat)
         /\ InOrder(KeptUnacked(u, b), KeptBuffer(u, b))
         /\ Refs(u, b) = Refs(KeptUnacked(u, b), KeptBuffer(u, b))
                           \cup Discarded(u, b)
         /\ \A d \in Discarded(u, b) :
              \A r \in Refs(KeptUnacked(u, b), KeptBuffer(u, b)) : d < r
         /\ OverCapacity(u, b) => Len(KeptUnacked(u, b)) + Len(KeptBuffer(u, b))
                                    = Len(u) + Len(b) - 1
         /\ ~OverCapacity(u, b) => KeptUnacked(u, b) = u /\ KeptBuffer(u, b) = b
         /\ \A i \in DOMAIN KeptUnacked(u, b) :
              \E j \in DOMAIN u : KeptUnacked(u, b)[i] = u[j]
         /\ BatchesFit(u) => BatchesFit(KeptUnacked(u, b))
<1> DEFINE u1 == KeptUnacked(u, b)
           b1 == KeptBuffer(u, b)
<1>0. u1 = KeptUnacked(u, b) /\ b1 = KeptBuffer(u, b)
  OBVIOUS
<1> HIDE DEF u1, b1
<1> DEFINE Goal ==
             /\ u1 \in Seq(Entry) /\ b1 \in Seq(Nat)
             /\ InOrder(u1, b1)
             /\ Refs(u, b) = Refs(u1, b1) \cup Discarded(u, b)
             /\ \A d \in Discarded(u, b) : \A r \in Refs(u1, b1) : d < r
             /\ OverCapacity(u, b) => Len(u1) + Len(b1) = Len(u) + Len(b) - 1
             /\ ~OverCapacity(u, b) => u1 = u /\ b1 = b
             /\ \A i \in DOMAIN u1 : \E j \in DOMAIN u : u1[i] = u[j]
             /\ BatchesFit(u) => BatchesFit(u1)
<1> SUFFICES Goal
  BY DEF u1, b1
<1>1. CASE ~OverCapacity(u, b)
  BY <1>0, <1>1 DEF KeptUnacked, KeptBuffer, Discarded
<1>2. CASE OverCapacity(u, b) /\ u # <<>>
  <2>1. u1 = Tail(u) /\ b1 = b
    BY <1>0, <1>2 DEF KeptUnacked, KeptBuffer
  <2>2. /\ u1 \in Seq(Entry)
        /\ Len(u) \in Nat /\ Len(u) >= 1 /\ Len(b) \in Nat
        /\ Len(u1) = Len(u) - 1
        /\ DOMAIN u = 1 .. Len(u)
        /\ DOMAIN u1 = 1 .. (Len(u) - 1)
        /\ \A i \in 1 .. (Len(u) - 1) : u1[i] = u[i + 1]
    BY <1>2, <2>1
  <2>3. Discarded(u, b) = {u[1].ref}
    <3>1. 1 \in 1 .. (Len(u) + Len(b)) /\ 1 <= Len(u)
      BY <2>2
    <3> QED BY <1>2, <3>1 DEF Discarded, Held
  <2> DEFINE f == [i \in DOMAIN u1 |-> i + 1]
             g == [i \in DOMAIN b1 |-> i]
  <2>4. /\ f \in [DOMAIN u1 -> DOMAIN u]
        /\ \A i \in DOMAIN u1 : f[i] > 1 /\ u1[i] = u[f[i]]
        /\ \A i, j \in DOMAIN u1 : i < j => f[i] < f[j]
    BY <2>2
  <2>5. /\ g \in [DOMAIN b1 -> DOMAIN b]
        /\ \A i \in DOMAIN b1 : b1[i] = b[g[i]]
        /\ \A i, j \in DOMAIN b1 : i < j => g[i] < g[j]
    BY <2>1
  <2> HIDE DEF f, g
  <2>6. Picks(f, u1, u) /\ Picks(g, b1, b)
    BY <2>4, <2>5 DEF Picks
  <2>6b. InOrder(u1, b1) /\ Refs(u1, b1) \subseteq Refs(u, b)
    BY <2>6, Thinned
  <2>7. ASSUME NEW x \in Refs(u, b) PROVE x \in Refs(u1, b1) \/ x = u[1].ref
    <3>1. ASSUME NEW i \in DOMAIN u, i # 1, x = u[i].ref PROVE x \in Refs(u1, b1)
      <4>1. i - 1 \in DOMAIN u1 /\ u1[i - 1] = u[i]
        BY <2>2, <3>1
      <4> QED BY <3>1, <4>1, InRefs
    <3>2. ASSUME NEW i \in DOMAIN b, x = b[i] PROVE x \in Refs(u1, b1)
      BY <2>1, <3>2, InRefs
    <3> QED BY <3>1, <3>2, InRefs
  <2>8. u[1].ref \in Refs(u, b)
    <3>1. 1 \in DOMAIN u
      BY <2>2
    <3> QED BY <3>1, InRefs
  <2>9. ASSUME NEW r \in Refs(u1, b1) PROVE u[1].ref < r
    <3>1. ASSUME NEW i \in DOMAIN u1, r = u1[i].ref PROVE u[1].ref < r
      <4>1. f[i] \in DOMAIN u /\ 1 \in DOMAIN u /\ 1 < f[i] /\ u1[i] = u[f[i]]
        BY <2>2, <2>4
      <4> QED BY <3>1, <4>1 DEF InOrder
    <3>2. ASSUME NEW i \in DOMAIN b1, r = b1[i] PROVE u[1].ref < r
      <4>1. i \in DOMAIN b /\ 1 \in DOMAIN u /\ r = b[i]
        BY <2>1, <2>2, <3>2
      <4> QED BY <4>1 DEF InOrder
    <3> QED BY <3>1, <3>2, InRefs
  <2>10. ASSUME NEW i \in DOMAIN u1 PROVE \E j \in DOMAIN u : u1[i] = u[j]
    BY <2>4
  <2>11. ASSUME BatchesFit(u), NEW i \in DOMAIN u1, NEW j \in DOMAIN u1,
                u1[i].batch = u1[j].batch
         PROVE  j - i < MaxBatchSize
    <3>1. /\ i + 1 \in DOMAIN u /\ j + 1 \in DOMAIN u
          /\ u[i + 1].batch = u[j + 1].batch
      BY <2>2, <2>11
    <3>2. (j + 1) - (i + 1) < MaxBatchSize
      BY <2>11, <3>1 DEF BatchesFit
    <3> QED
      BY <2>2, <3>2, OutboxAssumption
  <2>12. BatchesFit(u) => BatchesFit(u1)
    BY <2>11 DEF BatchesFit
  <2> QED
    BY <1>2, <2>1, <2>2, <2>3, <2>6b, <2>7, <2>8, <2>9, <2>10, <2>12
<1>3. CASE OverCapacity(u, b) /\ u = <<>>
  <2>1. u1 = <<>> /\ b1 = Tail(b) /\ DOMAIN u1 = {} /\ DOMAIN u = {} /\ Len(u) = 0
    BY <1>0, <1>3 DEF KeptUnacked, KeptBuffer
  <2>2. Len(b) \in Nat /\ Len(b) >= 1
    BY <1>3, <2>1, OutboxAssumption DEF OverCapacity
  <2>3. /\ b1 \in Seq(Nat)
        /\ Len(b1) = Len(b) - 1
        /\ DOMAIN b = 1 .. Len(b)
        /\ DOMAIN b1 = 1 .. (Len(b) - 1)
        /\ \A i \in 1 .. (Len(b) - 1) : b1[i] = b[i + 1]
    BY <2>1, <2>2
  <2>4. Discarded(u, b) = {b[1]}
    <3>1. 1 \in 1 .. (Len(u) + Len(b)) /\ ~(1 <= Len(u)) /\ 1 - Len(u) = 1
      BY <2>1, <2>2
    <3> QED BY <1>3, <3>1 DEF Discarded, Held
  <2> DEFINE f == [i \in DOMAIN u1 |-> i]
             g == [i \in DOMAIN b1 |-> i + 1]
  <2>5. /\ f \in [DOMAIN u1 -> DOMAIN u]
        /\ \A i \in DOMAIN u1 : u1[i] = u[f[i]]
        /\ \A i, j \in DOMAIN u1 : i < j => f[i] < f[j]
    BY <2>1
  <2>6. /\ g \in [DOMAIN b1 -> DOMAIN b]
        /\ \A i \in DOMAIN b1 : g[i] > 1 /\ b1[i] = b[g[i]]
        /\ \A i, j \in DOMAIN b1 : i < j => g[i] < g[j]
    <3>1. ASSUME NEW i \in DOMAIN b1
          PROVE  /\ i \in Nat /\ i + 1 \in DOMAIN b /\ i + 1 > 1
                 /\ b1[i] = b[i + 1]
      <4>1. i \in 1 .. (Len(b) - 1)
        BY <2>3
      <4>2. i \in Nat /\ i + 1 \in 1 .. Len(b) /\ i + 1 > 1
        BY <2>2, <4>1
      <4> QED
        BY <2>3, <4>1, <4>2
    <3> QED BY <3>1
  <2> HIDE DEF f, g
  <2>7. Picks(f, u1, u) /\ Picks(g, b1, b)
    BY <2>5, <2>6 DEF Picks
  <2>7a. InOrder(u1, b1) /\ Refs(u1, b1) \subseteq Refs(u, b)
    BY <2>7, Thinned
  <2>8. ASSUME NEW x \in Refs(u, b) PROVE x \in Refs(u1, b1) \/ x = b[1]
    <3>1. PICK i \in DOMAIN b : x = b[i]
      BY <2>1, InRefs
    <3>2. CASE i # 1
      <4>0. i \in 1 .. Len(b)
        BY <2>3
      <4>1. i - 1 \in 1 .. (Len(b) - 1) /\ (i - 1) + 1 = i
        BY <2>2, <3>2, <4>0
      <4>2. i - 1 \in DOMAIN b1 /\ b1[i - 1] = b[i]
        BY <2>3, <4>1
      <4> QED BY <3>1, <4>2, InRefs
    <3> QED BY <3>1, <3>2
  <2>9. b[1] \in Refs(u, b)
    <3>1. 1 \in DOMAIN b
      BY <2>2, <2>3
    <3> QED BY <3>1, InRefs
  <2>10. ASSUME NEW r \in Refs(u1, b1) PROVE b[1] < r
    <3>0. \A i \in DOMAIN u1 : FALSE
      BY <2>1
    <3>1. PICK i \in DOMAIN b1 : r = b1[i]
      BY <3>0, InRefs
    <3>2. g[i] \in DOMAIN b /\ 1 \in DOMAIN b /\ 1 < g[i] /\ r = b[g[i]]
      BY <2>2, <2>3, <2>6, <3>1
    <3> QED BY <3>2 DEF InOrder
  <2>11. BatchesFit(u1)
    BY <2>1 DEF BatchesFit
  <2> QED
    BY <1>3, <2>1, <2>2, <2>3, <2>4, <2>7a, <2>8, <2>9, <2>10, <2>11
<1> QED
  BY <1>1, <1>2, <1>3

(* A concatenation, pointwise.                                              *)
LEMMA Joined ==
  ASSUME NEW s \in Seq(Entry), NEW t \in Seq(Entry)
  PROVE  /\ s \o t \in Seq(Entry)
         /\ Len(s \o t) = Len(s) + Len(t)
         /\ \A i \in 1 .. Len(s) + Len(t) :
              (s \o t)[i] = IF i <= Len(s) THEN s[i] ELSE t[i - Len(s)]
BY ConcatProperties

(* u1 is u followed by one entry per event of b, in batches first .. last.  *)
Lengthened(u1, u, b, first, last) ==
  /\ first <= last + 1
  /\ Len(u1) = Len(u) + Len(b)
  /\ \A i \in 1 .. Len(u) : u1[i] = u[i]
  /\ \A i \in 1 .. Len(b) : /\ u1[Len(u) + i].ref = b[i]
                            /\ u1[Len(u) + i].batch \in first .. last
  /\ \A i, j \in 1 .. Len(b) :
       i < j => u1[Len(u) + i].batch <= u1[Len(u) + j].batch
  /\ \A i, j \in 1 .. Len(b) :
       u1[Len(u) + i].batch = u1[Len(u) + j].batch => j - i < MaxBatchSize

(* The unacked batches after a flush, and the next batch id.                *)
AfterFlush(u, b, first) == u \o Cut(b, first)
NextAfter(b, first) == first + ChunkCount(Len(b))

(* flush leaves u followed by the cut buffer.                               *)
LEMMA FlushShape ==
  ASSUME NEW u \in Seq(Entry), NEW b \in Seq(Nat), NEW first \in Nat \ {0}
  PROVE  /\ AfterFlush(u, b, first) \in Seq(Entry)
         /\ NextAfter(b, first) - 1 \in Nat
         /\ Lengthened(AfterFlush(u, b, first), u, b, first,
                       NextAfter(b, first) - 1)
<1> DEFINE c == Cut(b, first)
           u1 == AfterFlush(u, b, first)
           last == NextAfter(b, first) - 1
<1>1. /\ c \in Seq(Entry)
      /\ Len(c) = Len(b)
      /\ ChunkCount(Len(b)) \in Nat
      /\ \A i \in 1 .. Len(b) : c[i].ref = b[i] /\ c[i].batch \in first .. last
      /\ \A i, j \in 1 .. Len(b) : i < j => c[i].batch <= c[j].batch
      /\ \A i, j \in 1 .. Len(b) :
           c[i].batch = c[j].batch => j - i < MaxBatchSize
  BY CutEntries DEF NextAfter
<1> HIDE DEF c, u1, last
<1>2. /\ u1 = u \o c
      /\ Len(u) \in Nat /\ Len(b) \in Nat
  BY DEF c, u1, AfterFlush
<1>3. /\ u1 \in Seq(Entry)
      /\ Len(u1) = Len(u) + Len(b)
      /\ \A i \in 1 .. Len(u) + Len(b) :
           u1[i] = IF i <= Len(u) THEN u[i] ELSE c[i - Len(u)]
  <2>1. /\ u \o c \in Seq(Entry)
        /\ Len(u \o c) = Len(u) + Len(c)
        /\ \A i \in 1 .. Len(u) + Len(c) :
             (u \o c)[i] = IF i <= Len(u) THEN u[i] ELSE c[i - Len(u)]
    BY <1>1, Joined, Zenon
  <2> QED
    BY <1>1, <1>2, <2>1, Zenon
<1>4. \A i \in 1 .. Len(u) : u1[i] = u[i]
  BY <1>2, <1>3
<1>5. ASSUME NEW i \in 1 .. Len(b) PROVE u1[Len(u) + i] = c[i]
  <2>1. /\ Len(u) + i \in 1 .. Len(u) + Len(b) /\ ~(Len(u) + i <= Len(u))
        /\ (Len(u) + i) - Len(u) = i
    BY <1>2
  <2> QED
    BY <1>3, <2>1
<1>6. last \in Nat /\ first <= last + 1
  BY <1>1 DEF last, NextAfter
<1> QED
  <2>1. Lengthened(u1, u, b, first, last)
    BY <1>1, <1>3, <1>4, <1>5, <1>6 DEF Lengthened
  <2> QED
    BY <1>3, <1>6, <2>1 DEF u1, last

(* Such a sequence holds the same events as u and b, in the same order.     *)
LEMMA Flushed ==
  ASSUME NEW u \in Seq(Entry), NEW b \in Seq(Nat), InOrder(u, b),
         NEW u1 \in Seq(Entry), NEW first \in Nat \ {0}, NEW last \in Nat,
         Lengthened(u1, u, b, first, last),
         \A i \in DOMAIN u : u[i].batch \in 1 .. (first - 1),
         NEW e, DOMAIN e = {}
  PROVE  /\ InOrder(u1, e)
         /\ Refs(u1, e) = Refs(u, b)
         /\ \A i \in DOMAIN u1 : u1[i].batch \in 1 .. last
         /\ \A i \in DOMAIN u1 : \/ u1[i].batch \in first .. last
                                 \/ \E j \in DOMAIN u : u1[i] = u[j]
         /\ BatchesFit(u) => BatchesFit(u1)
<1>3. /\ Len(u) \in Nat /\ Len(b) \in Nat
      /\ DOMAIN u = 1 .. Len(u) /\ DOMAIN b = 1 .. Len(b)
      /\ DOMAIN u1 = 1 .. (Len(u) + Len(b))
  BY DEF Lengthened
<1>2. /\ first <= last + 1
      /\ \A i \in 1 .. Len(u) : u1[i] = u[i]
      /\ \A i \in 1 .. Len(b) : /\ u1[Len(u) + i].ref = b[i]
                               /\ u1[Len(u) + i].batch \in first .. last
      /\ \A i, j \in 1 .. Len(b) :
           i < j => u1[Len(u) + i].batch <= u1[Len(u) + j].batch
      /\ \A i, j \in 1 .. Len(b) :
           u1[Len(u) + i].batch = u1[Len(u) + j].batch => j - i < MaxBatchSize
  BY DEF Lengthened
<1>4. ASSUME NEW i \in DOMAIN u1, i \notin DOMAIN u
      PROVE  /\ i - Len(u) \in DOMAIN b
             /\ Len(u) + (i - Len(u)) = i
             /\ u1[i].ref = b[i - Len(u)]
             /\ u1[i].batch \in first .. last
  <2>1. i - Len(u) \in 1 .. Len(b) /\ Len(u) + (i - Len(u)) = i
    BY <1>3, <1>4
  <2>2. u1[Len(u) + (i - Len(u))].ref = b[i - Len(u)]
        /\ u1[Len(u) + (i - Len(u))].batch \in first .. last
    BY <1>2, <2>1
  <2> QED
    BY <1>3, <2>1, <2>2
<1>5. \A i \in DOMAIN u : i \in DOMAIN u1 /\ u1[i] = u[i]
  BY <1>2, <1>3
<1>6. Refs(u1, e) = Refs(u, b)
  <2>1. ASSUME NEW x \in Refs(u1, e)
        PROVE  x \in Refs(u, b)
    <3>1. ~\E i \in DOMAIN e : x = e[i]
      OBVIOUS
    <3>2. PICK i \in DOMAIN u1 : x = u1[i].ref
      BY <3>1, InRefs
    <3>3. CASE i \in DOMAIN u
      BY <1>5, <3>2, <3>3, InRefs
    <3>4. CASE i \notin DOMAIN u
      BY <1>4, <3>2, <3>4, InRefs
    <3> QED
      BY <3>3, <3>4
  <2>2. ASSUME NEW x \in Refs(u, b)
        PROVE  x \in Refs(u1, e)
    <3>1. ASSUME NEW i \in DOMAIN u, x = u[i].ref
          PROVE  x \in Refs(u1, e)
      BY <1>5, <3>1, InRefs
    <3>2. ASSUME NEW i \in DOMAIN b, x = b[i]
          PROVE  x \in Refs(u1, e)
      <4>1. Len(u) + i \in DOMAIN u1 /\ i \in 1 .. Len(b)
        BY <1>3
      <4>2. u1[Len(u) + i].ref = x
        BY <1>2, <3>2, <4>1
      <4> QED
        BY <4>1, <4>2, InRefs
    <3> QED
      BY <3>1, <3>2, InRefs
  <2> QED
    BY <2>1, <2>2
<1>7. ASSUME NEW i \in DOMAIN u1
      PROVE  u1[i].batch \in 1 .. last
  <2>1. CASE i \in DOMAIN u
    <3>1. u[i].batch \in 1 .. (first - 1)
      BY <2>1
    <3> QED
      BY <1>2, <1>5, <2>1, <3>1
  <2>2. CASE i \notin DOMAIN u
    BY <1>2, <1>4, <2>2
  <2> QED
    BY <2>1, <2>2
<1>8. ASSUME NEW i \in DOMAIN u1, NEW j \in DOMAIN u1, i < j
      PROVE  u1[i].ref < u1[j].ref /\ u1[i].batch <= u1[j].batch
  <2>1. CASE i \in DOMAIN u /\ j \in DOMAIN u
    BY <1>5, <1>8, <2>1 DEF InOrder
  <2>2. CASE i \in DOMAIN u /\ j \notin DOMAIN u
    <3>1. j - Len(u) \in DOMAIN b /\ u1[j].ref = b[j - Len(u)]
             /\ u1[j].batch \in first .. last
      BY <1>2, <1>4, <2>2
    <3>2. u1[i] = u[i] /\ u[i].ref < b[j - Len(u)]
      BY <1>5, <2>2, <3>1 DEF InOrder
    <3>3. u[i].batch \in 1 .. (first - 1)
      BY <2>2
    <3>4. u1[i].ref < u1[j].ref
      BY <3>1, <3>2
    <3>5. first <= u1[j].batch /\ u1[j].batch \in Nat
      <4>1. u1[j].batch \in first .. last
        BY <3>1
      <4> QED
        BY <4>1
    <3>6. u1[i].batch < first /\ u1[i].batch \in Nat
      <4>1. u1[i].batch \in 1 .. (first - 1)
        BY <3>2, <3>3
      <4> QED
        BY <4>1
    <3> QED
      BY <3>4, <3>5, <3>6
  <2>3. CASE i \notin DOMAIN u
    <3> DEFINE ib == i - Len(u)
               jb == j - Len(u)
    <3>1. j \notin DOMAIN u
      BY <1>3, <1>8, <2>3
    <3>2. /\ ib \in DOMAIN b /\ u1[i].ref = b[ib] /\ Len(u) + ib = i
      BY <1>4, <2>3
    <3>3. /\ jb \in DOMAIN b /\ u1[j].ref = b[jb] /\ Len(u) + jb = j
      BY <1>4, <3>1
    <3>4. ib < jb
      BY <1>3, <1>8
    <3> HIDE DEF ib, jb
    <3>5. b[ib] < b[jb]
      BY <3>2, <3>3, <3>4 DEF InOrder
    <3>6. u1[Len(u) + ib].batch <= u1[Len(u) + jb].batch
      BY <1>2, <1>3, <3>2, <3>3, <3>4
    <3> QED
      BY <3>2, <3>3, <3>5, <3>6
  <2> QED
    BY <2>1, <2>2, <2>3, <1>3
<1>10. InOrder(u1, e)
  BY <1>8 DEF InOrder
<1>11. \A i \in DOMAIN u1 : \/ u1[i].batch \in first .. last
                            \/ \E j \in DOMAIN u : u1[i] = u[j]
  BY <1>4, <1>5
<1>12. ASSUME BatchesFit(u), NEW i \in DOMAIN u1, NEW j \in DOMAIN u1,
              u1[i].batch = u1[j].batch
       PROVE  j - i < MaxBatchSize
  <2>1. \A k \in DOMAIN u : u1[k].batch < first
    <3>1. \A k \in DOMAIN u : u[k].batch \in 1 .. (first - 1)
      OBVIOUS
    <3> QED
      BY <1>5, <3>1
  <2>2. \A k \in DOMAIN u1 \ DOMAIN u : ~(u1[k].batch < first)
    BY <1>4
  <2>3. CASE i \in DOMAIN u /\ j \in DOMAIN u
    BY <1>5, <1>12, <2>3 DEF BatchesFit
  <2>4. CASE i \notin DOMAIN u /\ j \notin DOMAIN u
    <3>1. (j - Len(u)) - (i - Len(u)) < MaxBatchSize
      BY <1>2, <1>3, <1>4, <1>12, <2>4
    <3> QED
      BY <1>3, <3>1
  <2> QED
    BY <1>12, <2>1, <2>2, <2>3, <2>4
<1>13. BatchesFit(u) => BatchesFit(u1)
  BY <1>12 DEF BatchesFit
<1> QED
  BY <1>6, <1>7, <1>10, <1>11, <1>13

(* flush: the same events in the same order, all in batches now, numbered   *)
(* within the ids that are counted.                                         *)
LEMMA Flush ==
  ASSUME NEW u \in Seq(Entry), NEW b \in Seq(Nat), NEW first \in Nat \ {0},
         InOrder(u, b), \A i \in DOMAIN u : u[i].batch \in 1 .. (first - 1)
  PROVE  /\ AfterFlush(u, b, first) \in Seq(Entry)
         /\ Len(AfterFlush(u, b, first)) = Len(u) + Len(b)
         /\ InOrder(AfterFlush(u, b, first), <<>>)
         /\ Refs(AfterFlush(u, b, first), <<>>) = Refs(u, b)
         /\ NextAfter(b, first) \in Nat \ {0}
         /\ \A i \in DOMAIN AfterFlush(u, b, first) :
              AfterFlush(u, b, first)[i].batch \in 1 .. (NextAfter(b, first) - 1)
         /\ first <= NextAfter(b, first)
         /\ \A i \in DOMAIN AfterFlush(u, b, first) :
              \/ AfterFlush(u, b, first)[i].batch >= first
              \/ \E j \in DOMAIN u : AfterFlush(u, b, first)[i] = u[j]
         /\ BatchesFit(u) => BatchesFit(AfterFlush(u, b, first))
<1> DEFINE u1 == AfterFlush(u, b, first)
           last == NextAfter(b, first) - 1
<1> HIDE DEF u1, last
<1>1. /\ u1 \in Seq(Entry)
      /\ last + 1 = NextAfter(b, first) /\ last \in Nat
      /\ Lengthened(u1, u, b, first, last)
  <2>1. /\ u1 \in Seq(Entry)
        /\ last \in Nat
        /\ Lengthened(u1, u, b, first, last)
    BY FlushShape DEF u1, last
  <2>2. /\ NextAfter(b, first) = first + ChunkCount(Len(b))
        /\ ChunkCount(Len(b)) \in Nat
    BY CutEntries DEF NextAfter
  <2>3. last + 1 = NextAfter(b, first)
    BY <2>2 DEF last
  <2> QED
    BY <2>1, <2>3
<1>2. /\ InOrder(u1, <<>>)
      /\ Refs(u1, <<>>) = Refs(u, b)
      /\ \A i \in DOMAIN u1 : u1[i].batch \in 1 .. last
      /\ \A i \in DOMAIN u1 : \/ u1[i].batch \in first .. last
                              \/ \E j \in DOMAIN u : u1[i] = u[j]
      /\ BatchesFit(u) => BatchesFit(u1)
  <2>1. DOMAIN <<>> = {}
    OBVIOUS
  <2> QED
    BY <1>1, <2>1, Flushed
<1>3. NextAfter(b, first) \in Nat \ {0} /\ last = NextAfter(b, first) - 1
  BY <1>1 DEF last
<1>4. Len(u1) = Len(u) + Len(b) /\ first <= NextAfter(b, first)
  BY <1>1 DEF Lengthened
<1>5. \A i \in DOMAIN u1 : \/ u1[i].batch >= first
                           \/ \E j \in DOMAIN u : u1[i] = u[j]
  BY <1>2
<1> QED
  BY <1>1, <1>2, <1>3, <1>4, <1>5 DEF u1

(* u1 is u without its entries lo + 1 .. hi.                                *)
CutOut(u1, u, lo, hi) ==
  /\ Len(u1) = lo + (Len(u) - hi)
  /\ \A i \in 1 .. lo : u1[i] = u[i]
  /\ \A i \in 1 .. (Len(u) - hi) : u1[lo + i] = u[hi + i]

(* The events of the entries lo + 1 .. hi of u.                             *)
RunRefs(u, lo, hi) == {u[i].ref : i \in (lo + 1) .. hi}

(* The place in u of the entry i of u1 when it comes after the run.         *)
LEMMA Shift ==
  ASSUME NEW n \in Nat, NEW lo \in Nat, NEW hi \in Nat, lo < hi, hi <= n,
         NEW i \in 1 .. (lo + (n - hi)), ~(i <= lo)
  PROVE  /\ i - lo \in 1 .. (n - hi) /\ lo + (i - lo) = i
         /\ hi + (i - lo) = i + (hi - lo)
         /\ i + (hi - lo) > hi /\ i + (hi - lo) \in 1 .. n
OBVIOUS

(* ack leaves u without the run of the acked batch.                         *)
LEMMA RemoveShape ==
  ASSUME NEW u \in Seq(Entry),
         NEW lo \in 0 .. Len(u), NEW hi \in 1 .. Len(u), lo < hi,
         NEW u1, u1 = SubSeq(u, 1, lo) \o SubSeq(u, hi + 1, Len(u))
  PROVE  /\ u1 \in Seq(Entry)
         /\ CutOut(u1, u, lo, hi)
<1> DEFINE v == SubSeq(u, 1, lo)
           w == SubSeq(u, hi + 1, Len(u))
<1>1. /\ Len(u) \in Nat /\ lo \in Nat /\ hi \in Nat /\ hi <= Len(u)
      /\ \A i \in 1 .. Len(u) : u[i] \in Entry
  OBVIOUS
<1>2. /\ v \in Seq(Entry) /\ Len(v) = lo
      /\ \A i \in 1 .. lo : v[i] = u[i]
  BY <1>1, SubSeqProperties
<1>3. /\ w \in Seq(Entry) /\ Len(w) = Len(u) - hi
      /\ \A i \in 1 .. (Len(u) - hi) : w[i] = u[hi + i]
  BY <1>1, SubSeqProperties
<1>4. u1 = v \o w
  OBVIOUS
<1> HIDE DEF v, w
<1>5. /\ u1 \in Seq(Entry)
      /\ Len(u1) = lo + (Len(u) - hi)
      /\ \A i \in 1 .. lo + (Len(u) - hi) :
           u1[i] = IF i <= lo THEN v[i] ELSE w[i - lo]
  <2>1. /\ v \o w \in Seq(Entry)
        /\ Len(v \o w) = Len(v) + Len(w)
        /\ \A i \in 1 .. Len(v) + Len(w) :
             (v \o w)[i] = IF i <= Len(v) THEN v[i] ELSE w[i - Len(v)]
    BY <1>2, <1>3, Joined, Zenon
  <2> QED
    BY <1>2, <1>3, <1>4, <2>1, Zenon
<1>6. ASSUME NEW i \in 1 .. lo PROVE u1[i] = u[i]
  <2>1. i \in 1 .. lo + (Len(u) - hi) /\ i <= lo
    BY <1>1
  <2> QED
    BY <1>2, <1>5, <2>1
<1>7. ASSUME NEW i \in 1 .. (Len(u) - hi) PROVE u1[lo + i] = u[hi + i]
  <2>1. /\ lo + i \in 1 .. lo + (Len(u) - hi) /\ ~(lo + i <= lo)
        /\ (lo + i) - lo = i
    BY <1>1
  <2> QED
    BY <1>3, <1>5, <2>1
<1> QED
  BY <1>5, <1>6, <1>7 DEF CutOut

(* The others stay in order, and no event of the run is held any more.      *)
LEMMA Removed ==
  ASSUME NEW u \in Seq(Entry), NEW b, InOrder(u, b),
         DOMAIN b \subseteq Nat, \A i \in DOMAIN b : b[i] \in Nat,
         NEW lo \in 0 .. Len(u), NEW hi \in 1 .. Len(u), lo < hi,
         NEW u1 \in Seq(Entry), CutOut(u1, u, lo, hi)
  PROVE  /\ InOrder(u1, b)
         /\ Refs(u, b) = Refs(u1, b) \cup RunRefs(u, lo, hi)
         /\ Refs(u1, b) \cap RunRefs(u, lo, hi) = {}
         /\ \A i \in DOMAIN u1 : \E j \in DOMAIN u : u1[i] = u[j]
         /\ BatchesFit(u) => BatchesFit(u1)
<1>1. /\ Len(u) \in Nat /\ DOMAIN u = 1 .. Len(u)
      /\ lo \in Nat /\ hi \in Nat /\ hi <= Len(u)
      /\ Len(u1) = lo + (Len(u) - hi)
      /\ DOMAIN u1 = 1 .. (lo + (Len(u) - hi))
      /\ \A i \in 1 .. lo : u1[i] = u[i]
      /\ \A i \in 1 .. (Len(u) - hi) : u1[lo + i] = u[hi + i]
  BY DEF CutOut
<1> DEFINE f == [i \in DOMAIN u1 |-> IF i <= lo THEN i ELSE i + (hi - lo)]
           g == [i \in DOMAIN b |-> i]
<1>5. ASSUME NEW i \in DOMAIN u1
      PROVE  /\ f[i] \in DOMAIN u
             /\ f[i] \notin (lo + 1) .. hi
             /\ u1[i] = u[f[i]]
  <2>1. CASE i <= lo
    <3>1. i \in 1 .. lo /\ f[i] = i
      BY <1>1, <2>1
    <3> QED
      BY <1>1, <3>1
  <2>2. CASE ~(i <= lo)
    <3>0. f[i] = i + (hi - lo)
      BY <2>2
    <3>1. /\ i - lo \in 1 .. (Len(u) - hi) /\ lo + (i - lo) = i
          /\ hi + (i - lo) = i + (hi - lo)
          /\ i + (hi - lo) > hi /\ i + (hi - lo) \in 1 .. Len(u)
      <4>1. i \in 1 .. (lo + (Len(u) - hi))
        BY <1>1
      <4> QED
        BY <1>1, <2>2, <4>1, Shift
    <3>2. u1[i] = u[i + (hi - lo)]
      BY <1>1, <3>1
    <3>3. i + (hi - lo) \in DOMAIN u
      BY <1>1, <3>1
    <3>4. i + (hi - lo) \notin (lo + 1) .. hi
      BY <1>1, <3>1
    <3> QED
      BY <3>0, <3>2, <3>3, <3>4
  <2> QED
    BY <2>1, <2>2
<1>6. ASSUME NEW i \in DOMAIN u1, NEW j \in DOMAIN u1, i < j
      PROVE  f[i] < f[j]
  BY <1>1, <1>6
<1>7. ASSUME NEW i \in DOMAIN u, i \notin (lo + 1) .. hi
      PROVE  \E k \in DOMAIN u1 : f[k] = i
  <2>1. CASE i <= lo
    <3>1. i \in DOMAIN u1 /\ f[i] = i
      BY <1>1, <2>1
    <3> QED
      BY <3>1
  <2>2. CASE i > hi
    <3>1. i - (hi - lo) \in DOMAIN u1 /\ f[i - (hi - lo)] = i
      BY <1>1, <2>2
    <3> QED
      BY <3>1
  <2> QED
    BY <1>1, <1>7, <2>1, <2>2
<1>8. f \in [DOMAIN u1 -> DOMAIN u]
  BY <1>5
<1>15. ASSUME NEW i \in DOMAIN u1, NEW j \in DOMAIN u1, i < j
       PROVE  j - i <= f[j] - f[i]
  BY <1>1, <1>15
<1> HIDE DEF f
<1>16. ASSUME BatchesFit(u), NEW i \in DOMAIN u1, NEW j \in DOMAIN u1,
              u1[i].batch = u1[j].batch
       PROVE  j - i < MaxBatchSize
  <2>1. CASE ~(i < j)
    BY <1>1, <2>1, OutboxAssumption
  <2>2. CASE i < j
    <3>1. f[j] - f[i] < MaxBatchSize /\ f[i] \in Nat /\ f[j] \in Nat
      BY <1>1, <1>5, <1>16 DEF BatchesFit
    <3> QED
      BY <1>1, <1>15, <2>2, <3>1, OutboxAssumption
  <2> QED
    BY <2>1, <2>2
<1>9. Picks(f, u1, u)
  BY <1>5, <1>6, <1>8 DEF Picks
<1>10. Picks(g, b, b)
  BY DEF Picks
<1> HIDE DEF g
<1>11. InOrder(u1, b) /\ Refs(u1, b) \subseteq Refs(u, b)
  BY <1>9, <1>10, Thinned
<1>12. ASSUME NEW x \in Refs(u, b)
       PROVE  x \in Refs(u1, b) \cup RunRefs(u, lo, hi)
  <2>1. ASSUME NEW i \in DOMAIN u, x = u[i].ref
        PROVE  x \in Refs(u1, b) \cup RunRefs(u, lo, hi)
    <3>1. CASE i \in (lo + 1) .. hi
      BY <2>1, <3>1 DEF RunRefs
    <3>2. CASE i \notin (lo + 1) .. hi
      <4>1. PICK k \in DOMAIN u1 : f[k] = i
        BY <1>7, <3>2
      <4>2. x = u1[k].ref
        BY <1>5, <2>1, <4>1
      <4> QED
        BY <4>2, InRefs
    <3> QED
      BY <3>1, <3>2
  <2>2. ASSUME NEW i \in DOMAIN b, x = b[i]
        PROVE  x \in Refs(u1, b)
    BY <2>2, InRefs
  <2> QED
    BY <2>1, <2>2, InRefs
<1>13. ASSUME NEW j \in (lo + 1) .. hi
       PROVE  u[j].ref \in Refs(u, b) /\ u[j].ref \notin Refs(u1, b)
  <2>1. j \in DOMAIN u
    BY <1>1
  <2>2. u[j].ref \in Nat
    <3>1. u[j] \in Entry
      BY <2>1
    <3> QED
      BY <3>1 DEF Entry
  <2>3. ASSUME NEW i \in DOMAIN u1
        PROVE  u[j].ref # u1[i].ref
    <3>1. f[i] \in DOMAIN u /\ f[i] # j /\ u1[i] = u[f[i]]
      BY <1>5
    <3>2. f[i] < j \/ j < f[i]
      BY <1>1, <2>1, <3>1
    <3>3. u[f[i]].ref < u[j].ref \/ u[j].ref < u[f[i]].ref
      BY <2>1, <3>1, <3>2 DEF InOrder
    <3> QED
      BY <2>2, <3>1, <3>3
  <2>4. ASSUME NEW i \in DOMAIN b
        PROVE  u[j].ref # b[i]
    <3>1. u[j].ref < b[i]
      BY <2>1 DEF InOrder
    <3> QED
      BY <2>2, <3>1
  <2>5. u[j].ref \in Refs(u, b)
    BY <2>1, InRefs
  <2>6. u[j].ref \notin Refs(u1, b)
    BY <2>3, <2>4, InRefs
  <2> QED
    BY <2>5, <2>6
<1>14. \A i \in DOMAIN u1 : \E j \in DOMAIN u : u1[i] = u[j]
  BY <1>5
<1> QED
  <2>1. Refs(u, b) = Refs(u1, b) \cup RunRefs(u, lo, hi)
    BY <1>11, <1>12, <1>13 DEF RunRefs
  <2>2. Refs(u1, b) \cap RunRefs(u, lo, hi) = {}
    BY <1>13 DEF RunRefs
  <2>3. BatchesFit(u) => BatchesFit(u1)
    BY <1>16 DEF BatchesFit
  <2> QED
    BY <1>11, <1>14, <2>1, <2>2, <2>3

(* The unacked batches after the ack of the run lo + 1 .. hi.                *)
AfterAck(u, lo, hi) == SubSeq(u, 1, lo) \o SubSeq(u, hi + 1, Len(u))

(* ack: the events of the removed run leave, the others stay in order.      *)
LEMMA Remove ==
  ASSUME NEW u \in Seq(Entry), NEW b \in Seq(Nat), InOrder(u, b),
         NEW lo \in 0 .. Len(u), NEW hi \in 1 .. Len(u), lo < hi
  PROVE  /\ AfterAck(u, lo, hi) \in Seq(Entry)
         /\ Len(AfterAck(u, lo, hi)) <= Len(u)
         /\ InOrder(AfterAck(u, lo, hi), b)
         /\ Refs(u, b) = Refs(AfterAck(u, lo, hi), b) \cup RunRefs(u, lo, hi)
         /\ Refs(AfterAck(u, lo, hi), b) \cap RunRefs(u, lo, hi) = {}
         /\ \A i \in DOMAIN AfterAck(u, lo, hi) :
              \E j \in DOMAIN u : AfterAck(u, lo, hi)[i] = u[j]
         /\ BatchesFit(u) => BatchesFit(AfterAck(u, lo, hi))
<1> DEFINE u1 == AfterAck(u, lo, hi)
<1>1. u1 \in Seq(Entry) /\ CutOut(u1, u, lo, hi)
  <2>1. u1 = SubSeq(u, 1, lo) \o SubSeq(u, hi + 1, Len(u))
    BY DEF AfterAck
  <2> QED
    BY <2>1, RemoveShape, Zenon
<1> HIDE DEF u1
<1>2. /\ InOrder(u1, b)
      /\ Refs(u, b) = Refs(u1, b) \cup RunRefs(u, lo, hi)
      /\ Refs(u1, b) \cap RunRefs(u, lo, hi) = {}
      /\ \A i \in DOMAIN u1 : \E j \in DOMAIN u : u1[i] = u[j]
      /\ BatchesFit(u) => BatchesFit(u1)
  <2>1. DOMAIN b \subseteq Nat /\ \A i \in DOMAIN b : b[i] \in Nat
    OBVIOUS
  <2> QED
    BY <1>1, <2>1, Removed
<1>3. Len(u1) <= Len(u)
  BY <1>1 DEF CutOut
<1> QED
  BY <1>1, <1>2, <1>3 DEF u1

(* A bounded, non-empty set of naturals has a highest element.              *)
LEMMA HighestIsIn ==
  ASSUME NEW m \in Nat, NEW S \in SUBSET (0 .. m), S # {}
  PROVE  Highest(S) \in S /\ \A y \in S : y <= Highest(S)
<1> DEFINE T == {m - x : x \in S}
<1>1. T \in SUBSET Nat /\ T # {}
  <2>1. T \subseteq Nat
    OBVIOUS
  <2>2. PICK x \in S : TRUE
    OBVIOUS
  <2>3. m - x \in T
    OBVIOUS
  <2> QED
    BY <2>1, <2>3
<1>2. PICK t \in T : \A y \in T : ~(<<y, t>> \in OpToRel(<, Nat))
  BY <1>1, NatLessThanWellFounded, WFMin
<1>3. \A y \in T : ~(y < t)
  BY <1>1, <1>2 DEF OpToRel
<1>4. PICK x \in S : t = m - x
  OBVIOUS
<1>5. \A y \in S : y <= x
  <2>1. ASSUME NEW y \in S PROVE y <= x
    <3>1. m - y \in T
      OBVIOUS
    <3>2. ~(m - y < m - x)
      BY <1>3, <1>4, <3>1
    <3> QED
      BY <3>2
  <2> QED
    BY <2>1
<1> QED
  BY <1>5 DEF Highest

-----------------------------------------------------------------------------
(* What a batch frame or a cursor is made of, in the state before a call.   *)
Batched == \A i \in DOMAIN unacked : unacked[i].batch \in 1 .. (nextBatch - 1)

(* The batches and the buffer, whatever became of the events let go: what   *)
(* also holds of the outbox of a process that starts anew.                  *)
OutboxInv ==
  /\ TypeOK
  /\ WithinCapacity
  /\ ArrivalOrder
  /\ BatchesFit(unacked)
  /\ HeldRefs \subseteq 1 .. Len(log)

(* A frame handed over is all that is left of a batch still held.           *)
FramesWhole ==
  \A f \in out : \E i \in DOMAIN unacked : f = Frame(unacked, unacked[i].batch)

(* What is inductive: that, the frames, the account of every arrival and    *)
(* the cursors.                                                             *)
IInv ==
  /\ OutboxInv
  /\ FramesWhole
  /\ Accounted
  /\ CursorIsHighestAcked

(* A finite set of places less than m apart has at most m of them, and no   *)
(* more images.                                                             *)
LEMMA FewPlaces ==
  ASSUME NEW m \in Nat \ {0}, NEW P \in SUBSET Nat, P # {},
         \A i, j \in P : j - i < m,
         NEW T, NEW f \in Surjection(P, T)
  PROVE  Cardinality(T) \in 1 .. m
<1>1. PICK lo \in P : \A y \in P : ~(<<y, lo>> \in OpToRel(<, Nat))
  BY NatLessThanWellFounded, WFMin
<1>2. \A y \in P : y >= lo
  <2>1. P \subseteq Nat
    OBVIOUS
  <2>2. \A y \in P : ~(y < lo)
    BY <1>1, <2>1 DEF OpToRel
  <2> QED
    BY <2>1, <2>2
<1>3. P \in SUBSET (lo .. (lo + m - 1))
  <2>1. ASSUME NEW y \in P PROVE y \in lo .. (lo + m - 1)
    <3>1. y \in Nat /\ lo \in Nat /\ y - lo < m /\ y >= lo
      BY <1>2
    <3> QED
      BY <3>1
  <2> QED
    BY <2>1
<1>4. IsFiniteSet(lo .. (lo + m - 1)) /\ Cardinality(lo .. (lo + m - 1)) = m
  <2>1. lo \in Int /\ lo + m - 1 \in Int /\ ~(lo > lo + m - 1)
        /\ (lo + m - 1) - lo + 1 = m
    OBVIOUS
  <2> QED
    BY <2>1, FS_Interval
<1>5. IsFiniteSet(P) /\ Cardinality(P) <= m
  BY <1>3, <1>4, FS_Subset
<1>6. IsFiniteSet(T) /\ Cardinality(T) <= Cardinality(P)
  BY <1>5, FS_Surjection
<1>7. T # {}
  BY DEF Surjection
<1>8. Cardinality(T) \in Nat /\ Cardinality(P) \in Nat /\ Cardinality(T) # 0
  BY <1>5, <1>6, <1>7, FS_CardinalityType, FS_EmptySet
<1> QED
  BY <1>5, <1>6, <1>8

(* A whole frame carries a held batch and never too many events.            *)
LEMMA FrameSizes == OutboxInv /\ FramesWhole => FramesAreHeldBatches
<1> SUFFICES ASSUME OutboxInv, FramesWhole, NEW fr \in out
             PROVE  /\ fr = Frame(unacked, fr.batch)
                    /\ Cardinality(fr.refs) \in 1 .. MaxBatchSize
  BY DEF FramesAreHeldBatches
<1>1. PICK k \in DOMAIN unacked : fr = Frame(unacked, unacked[k].batch)
  BY DEF FramesWhole
<1> DEFINE id == unacked[k].batch
           P == Positions(unacked, id)
           T == {unacked[i].ref : i \in P}
           f == [i \in P |-> unacked[i].ref]
<1>2. fr.batch = id /\ fr.refs = T
  BY <1>1 DEF Frame
<1>3. P \in SUBSET Nat /\ k \in P
  BY DEF Positions, OutboxInv, TypeOK
<1>4. \A i, j \in P : j - i < MaxBatchSize
  BY DEF Positions, OutboxInv, BatchesFit
<1>5. f \in Surjection(P, T)
  BY DEF Surjection
<1> HIDE DEF P, T, f
<1>6. Cardinality(T) \in 1 .. MaxBatchSize
  <2>1. P # {} /\ MaxBatchSize \in Nat \ {0}
    BY <1>3, OutboxAssumption
  <2> QED
    BY <1>3, <1>4, <1>5, <2>1, FewPlaces
<1> QED
  BY <1>1, <1>2, <1>6

(* The frames of a flush or a resend are whole.                             *)
LEMMA WholeFrames ==
  ASSUME NEW k, out' = {} \/ out' = FramesFrom(unacked', k)
  PROVE  FramesWhole'
BY DEF FramesWhole, FramesFrom

(* A new outbox satisfies the invariant.                                    *)
LEMMA InitIInv == Init => IInv
<1> SUFFICES ASSUME Init PROVE IInv
  OBVIOUS
<1>1. /\ log = <<>> /\ buffer = <<>> /\ unacked = <<>> /\ nextBatch = 1
      /\ acked = {} /\ dropped = {} /\ attached = FALSE /\ ticking = TRUE
      /\ cursor = [q \in Queue |-> 0]
      /\ DOMAIN unacked = {} /\ DOMAIN buffer = {}
      /\ Len(log) = 0 /\ Len(unacked) = 0 /\ Len(buffer) = 0
  BY DEF Init
<1>2. log \in Seq(Event) /\ buffer \in Seq(Nat) /\ unacked \in Seq(Entry)
  BY <1>1
<1>3. cursor \in [Queue -> 0 .. MaxStream]
  BY <1>1, OutboxAssumption
<1>4. TypeOK
  <2>1. /\ nextBatch \in Nat \ {0}
        /\ \A i \in DOMAIN unacked : unacked[i].batch \in 1 .. (nextBatch - 1)
    BY <1>1
  <2>2. attached \in BOOLEAN /\ ticking \in BOOLEAN
    BY <1>1
  <2>3. acked \subseteq 1 .. Len(log) /\ dropped \subseteq 1 .. Len(log)
    BY <1>1
  <2> QED
    BY <1>2, <1>3, <2>1, <2>2, <2>3 DEF TypeOK
<1>5. WithinCapacity
  BY <1>1, OutboxAssumption DEF WithinCapacity
<1>6. ArrivalOrder
  BY <1>1 DEF ArrivalOrder, InOrder
<1>7. Accounted
  <2>1. \A x : x \notin HeldRefs
    BY <1>1, InRefs DEF HeldRefs
  <2>2. 1 .. Len(log) = {}
    BY <1>1
  <2> QED
    BY <1>1, <2>1, <2>2 DEF Accounted
<1>8. CursorIsHighestAcked
  <2>1. \A q \in Queue : StreamIds(acked, q) = {} /\ cursor[q] = 0
    BY <1>1 DEF StreamIds
  <2> QED
    BY <2>1 DEF CursorIsHighestAcked
<1>9. FramesWhole /\ BatchesFit(unacked) /\ HeldRefs \subseteq 1 .. Len(log)
  BY <1>1, <1>7 DEF Init, FramesWhole, BatchesFit, Accounted
<1> QED
  BY <1>4, <1>5, <1>6, <1>7, <1>8, <1>9 DEF IInv, OutboxInv

(* The stream ids of arrivals in the log are stream ids.                    *)
LEMMA StreamIdsTyped ==
  ASSUME log \in Seq(Event), NEW refs \in SUBSET (1 .. Len(log)), NEW q
  PROVE  StreamIds(refs, q) \subseteq 1 .. MaxStream
<1>1. \A r \in 1 .. Len(log) : log[r] \in Event
  OBVIOUS
<1>2. \A r \in refs : log[r].n \in 1 .. MaxStream
  BY <1>1 DEF Event
<1> QED
  BY <1>2 DEF StreamIds

(* What a call leaves alone: no batch id is used twice, a held entry is an  *)
(* old one or of a new batch, an arrival keeps its number, and what is no   *)
(* longer held was acked or dropped.                                        *)
Onward ==
  /\ nextBatch <= nextBatch'
  /\ \A i \in DOMAIN unacked' :
       \/ unacked'[i].batch >= nextBatch
       \/ \E j \in DOMAIN unacked : unacked'[i] = unacked[j]
  /\ Len(log) <= Len(log')
  /\ \A r \in 1 .. Len(log) : r \in 1 .. Len(log') /\ log'[r] = log[r]
  /\ HeldRefs \subseteq HeldRefs' \cup acked' \cup dropped'
  /\ \A r \in HeldRefs' : r \in HeldRefs \/ r \in (Len(log) + 1) .. Len(log')
  /\ acked \subseteq acked' /\ dropped \subseteq dropped'
  /\ \A q \in Queue : \/ cursor'[q] = cursor[q]
                      \/ cursor'[q] \in StreamIds(HeldRefs, q)

(* What enqueue and a flush leave behind: the events they were given, in    *)
(* order, in the buffer or in batches that are numbered and counted.        *)
LEMMA Into ==
  ASSUME NEW u \in Seq(Entry), NEW b \in Seq(Nat), InOrder(u, b),
         nextBatch \in Nat \ {0}, BatchesFit(u),
         \A i \in DOMAIN u : u[i].batch \in 1 .. (nextBatch - 1),
         FlushInto(u, b) \/ KeepInto(u, b)
  PROVE  /\ unacked' \in Seq(Entry) /\ buffer' \in Seq(Nat)
         /\ nextBatch' \in Nat \ {0}
         /\ Batched'
         /\ ArrivalOrder'
         /\ HeldRefs' = Refs(u, b)
         /\ Len(unacked') + Len(buffer') = Len(u) + Len(b)
         /\ BatchesFit(unacked')
         /\ FramesWhole'
         /\ nextBatch <= nextBatch'
         /\ \A i \in DOMAIN unacked' :
              \/ unacked'[i].batch >= nextBatch
              \/ \E j \in DOMAIN u : unacked'[i] = u[j]
<1>1. CASE FlushInto(u, b)
  <2>1. /\ buffer' = <<>> /\ unacked' = AfterFlush(u, b, nextBatch)
        /\ nextBatch' = NextAfter(b, nextBatch)
    BY <1>1 DEF FlushInto, AfterFlush, NextAfter
  <2>2. /\ unacked' \in Seq(Entry)
        /\ Len(unacked') = Len(u) + Len(b)
        /\ InOrder(unacked', <<>>)
        /\ Refs(unacked', <<>>) = Refs(u, b)
        /\ nextBatch' \in Nat \ {0}
        /\ \A i \in DOMAIN unacked' : unacked'[i].batch \in 1 .. (nextBatch' - 1)
        /\ nextBatch <= nextBatch'
        /\ \A i \in DOMAIN unacked' :
              \/ unacked'[i].batch >= nextBatch
              \/ \E j \in DOMAIN u : unacked'[i] = u[j]
        /\ BatchesFit(unacked')
    BY <2>1, Flush
  <2>3. buffer' \in Seq(Nat) /\ Len(buffer') = 0 /\ Len(u) + Len(b) \in Nat
    BY <2>1
  <2>4. Len(unacked') + Len(buffer') = Len(u) + Len(b)
    BY <2>2, <2>3
  <2>5. FramesWhole'
    BY <1>1, WholeFrames DEF FlushInto
  <2> QED
    BY <2>1, <2>2, <2>3, <2>4, <2>5, Zenon DEF Batched, ArrivalOrder, HeldRefs
<1>2. CASE KeepInto(u, b)
  BY <1>2, WholeFrames DEF KeepInto, Batched, ArrivalOrder, HeldRefs
<1> QED
  BY <1>1, <1>2

(* A call that only touches the transport, the timer or the frames keeps    *)
(* the outbox invariant.                                                    *)
LEMMA SameOutbox ==
  ASSUME OutboxInv,
         UNCHANGED <<log, buffer, unacked, nextBatch, cursor, acked, dropped>>,
         attached' \in BOOLEAN, ticking' \in BOOLEAN
  PROVE  OutboxInv' /\ Onward
<1>1. TypeOK'
  BY DEF OutboxInv, TypeOK
<1>2. ArrivalOrder' /\ HeldRefs' = HeldRefs /\ WithinCapacity'
  BY DEF OutboxInv, ArrivalOrder, InOrder, HeldRefs, Refs, WithinCapacity
<1>3. BatchesFit(unacked') /\ HeldRefs' \subseteq 1 .. Len(log')
  BY <1>2 DEF OutboxInv, BatchesFit
<1>4. Onward
  <2>1. nextBatch <= nextBatch' /\ Len(log) <= Len(log')
    BY DEF OutboxInv, TypeOK
  <2> QED
    BY <1>2, <2>1 DEF Onward
<1> QED
  BY <1>1, <1>2, <1>3, <1>4 DEF OutboxInv

(* ... and so does the rest of the invariant hold of the same events.       *)
LEMMA SameHeld ==
  ASSUME IInv, OutboxInv', FramesWhole', HeldRefs' = HeldRefs,
         log' = log, cursor' = cursor, acked' = acked, dropped' = dropped
  PROVE  IInv'
<1>3. Accounted'
  BY DEF IInv, Accounted
<1>4. CursorIsHighestAcked'
  BY DEF IInv, CursorIsHighestAcked, StreamIds
<1> QED
  BY <1>3, <1>4 DEF IInv

(* Attach, Detach and Stop keep the invariant, and so does a step the       *)
(* outbox takes no part in.                                                 *)
LEMMA SameBatches ==
  ASSUME IInv,
         UNCHANGED <<log, buffer, unacked, nextBatch, cursor, acked, dropped>>,
         attached' \in BOOLEAN, ticking' \in BOOLEAN, FramesWhole'
  PROVE  IInv'
<1>1. OutboxInv'
  BY SameOutbox DEF IInv
<1>2. HeldRefs' = HeldRefs
  BY DEF HeldRefs, Refs
<1> QED
  BY <1>1, <1>2, SameHeld

(* The flush timer cuts what is buffered into batches.                      *)
LEMMA TickHeld ==
  ASSUME OutboxInv, Tick
  PROVE  OutboxInv' /\ Onward /\ FramesWhole' /\ HeldRefs' = HeldRefs
<1>1. /\ unacked \in Seq(Entry) /\ buffer \in Seq(Nat) /\ nextBatch \in Nat \ {0}
      /\ \A i \in DOMAIN unacked : unacked[i].batch \in 1 .. (nextBatch - 1)
      /\ attached \in BOOLEAN /\ ticking \in BOOLEAN
      /\ BatchesFit(unacked)
  BY DEF OutboxInv, TypeOK
<1>2. InOrder(unacked, buffer) /\ FlushInto(unacked, buffer)
  BY DEF OutboxInv, ArrivalOrder, Tick
<1>3. /\ unacked' \in Seq(Entry) /\ buffer' \in Seq(Nat)
      /\ nextBatch' \in Nat \ {0}
      /\ Batched'
      /\ ArrivalOrder'
      /\ HeldRefs' = Refs(unacked, buffer)
      /\ Len(unacked') + Len(buffer') = Len(unacked) + Len(buffer)
      /\ BatchesFit(unacked')
      /\ FramesWhole'
      /\ nextBatch <= nextBatch'
      /\ \A i \in DOMAIN unacked' :
           \/ unacked'[i].batch >= nextBatch
           \/ \E j \in DOMAIN unacked : unacked'[i] = unacked[j]
  BY <1>1, <1>2, Into
<1>4. HeldRefs' = HeldRefs /\ WithinCapacity'
  BY <1>3 DEF HeldRefs, OutboxInv, WithinCapacity
<1>5. UNCHANGED <<log, cursor, attached, ticking, acked, dropped>>
  BY DEF Tick
<1>6. TypeOK'
  BY <1>1, <1>3, <1>5 DEF OutboxInv, TypeOK, Batched
<1>7. HeldRefs' \subseteq 1 .. Len(log')
  BY <1>4, <1>5 DEF OutboxInv
<1>8. Onward
  <2>1. Len(log) <= Len(log')
    BY <1>5 DEF OutboxInv, TypeOK
  <2> QED
    BY <1>3, <1>4, <1>5, <2>1 DEF Onward
<1> QED
  BY <1>3, <1>4, <1>6, <1>7, <1>8 DEF OutboxInv

(* The flush timer keeps the invariant.                                     *)
LEMMA TickStep == IInv /\ Tick => IInv'
<1> SUFFICES ASSUME IInv, Tick PROVE IInv'
  OBVIOUS
<1>1. OutboxInv' /\ FramesWhole' /\ HeldRefs' = HeldRefs
  BY TickHeld DEF IInv
<1>2. UNCHANGED <<log, cursor, acked, dropped>>
  BY DEF Tick
<1> QED
  BY <1>1, <1>2, SameHeld

(* enqueue, through push, dropOldest and flush.                             *)
LEMMA EnqueueHeld ==
  ASSUME OutboxInv, NEW e \in Event, Enqueue(e)
  PROVE  /\ OutboxInv' /\ Onward /\ FramesWhole'
         /\ log' \in Seq(Event) /\ Len(log') = Len(log) + 1 /\ Len(log) \in Nat
         /\ \A r \in 1 .. Len(log) : log'[r] = log[r]
         /\ log'[Len(log) + 1] = e
         /\ \E D : /\ dropped' = dropped \cup D
                   /\ HeldRefs \cup {Len(log) + 1} = HeldRefs' \cup D
                   /\ \A d \in D : \A r \in HeldRefs' : d < r
<1> DEFINE p == Append(buffer, Len(log) + 1)
           u == KeptUnacked(unacked, p)
           b == KeptBuffer(unacked, p)
           D == Discarded(unacked, p)
<1>1. /\ unacked \in Seq(Entry) /\ buffer \in Seq(Nat) /\ nextBatch \in Nat \ {0}
      /\ \A i \in DOMAIN unacked : unacked[i].batch \in 1 .. (nextBatch - 1)
      /\ InOrder(unacked, buffer)
      /\ log \in Seq(Event) /\ Len(log) \in Nat /\ Len(log) + 1 \in Nat
      /\ Len(unacked) \in Nat /\ Len(buffer) \in Nat
      /\ Len(unacked) + Len(buffer) <= MaxBuffered
      /\ BatchesFit(unacked)
  BY DEF OutboxInv, TypeOK, ArrivalOrder, WithinCapacity
<1>2. \A x \in Refs(unacked, buffer) : x < Len(log) + 1
  <2>1. Refs(unacked, buffer) \subseteq 1 .. Len(log)
    BY DEF OutboxInv, HeldRefs
  <2> QED
    BY <1>1, <2>1
<1>3. /\ p \in Seq(Nat)
      /\ Len(p) = Len(buffer) + 1
      /\ InOrder(unacked, p)
      /\ Refs(unacked, p) = Refs(unacked, buffer) \cup {Len(log) + 1}
  BY <1>1, <1>2, Push
<1>4. /\ log' = Append(log, e)
      /\ dropped' = dropped \cup D
      /\ FlushInto(u, b) \/ KeepInto(u, b)
  BY DEF Enqueue
<1> HIDE DEF p
<1>5. /\ u \in Seq(Entry) /\ b \in Seq(Nat)
      /\ InOrder(u, b)
      /\ Refs(unacked, p) = Refs(u, b) \cup D
      /\ \A d \in D : \A r \in Refs(u, b) : d < r
      /\ OverCapacity(unacked, p) =>
           Len(u) + Len(b) = Len(unacked) + Len(p) - 1
      /\ ~OverCapacity(unacked, p) => u = unacked /\ b = p
      /\ \A i \in DOMAIN u : \E j \in DOMAIN unacked : u[i] = unacked[j]
      /\ BatchesFit(u)
  BY <1>1, <1>3, DropOldest
<1> HIDE DEF u, b, D
<1>6. Len(u) + Len(b) <= MaxBuffered
  <2>1. CASE OverCapacity(unacked, p)
    <3>1. Len(u) + Len(b) = Len(unacked) + (Len(buffer) + 1) - 1
      BY <1>3, <1>5, <2>1
    <3> QED
      BY <1>1, <3>1
  <2>2. CASE ~OverCapacity(unacked, p)
    <3>1. ~(Len(unacked) + Len(p) > MaxBuffered) /\ u = unacked /\ b = p
      BY <1>5, <2>2 DEF OverCapacity
    <3> QED
      BY <1>1, <1>3, <3>1, OutboxAssumption
  <2> QED
    BY <2>1, <2>2
<1>7. \A i \in DOMAIN u : u[i].batch \in 1 .. (nextBatch - 1)
  BY <1>1, <1>5
<1>8. /\ unacked' \in Seq(Entry) /\ buffer' \in Seq(Nat)
      /\ nextBatch' \in Nat \ {0}
      /\ Batched'
      /\ ArrivalOrder'
      /\ HeldRefs' = Refs(u, b)
      /\ Len(unacked') + Len(buffer') = Len(u) + Len(b)
      /\ BatchesFit(unacked')
      /\ FramesWhole'
      /\ nextBatch <= nextBatch'
      /\ \A i \in DOMAIN unacked' :
           \/ unacked'[i].batch >= nextBatch
           \/ \E j \in DOMAIN u : unacked'[i] = u[j]
  BY <1>1, <1>4, <1>5, <1>7, Into
<1>9. /\ log' \in Seq(Event) /\ Len(log') = Len(log) + 1
      /\ \A r \in 1 .. Len(log) : log'[r] = log[r]
      /\ log'[Len(log) + 1] = e
  BY <1>1, <1>4, AppendProperties
<1>10. HeldRefs \cup {Len(log) + 1} = HeldRefs' \cup D
  BY <1>3, <1>5, <1>8 DEF HeldRefs
<1>11. \A d \in D : \A r \in HeldRefs' : d < r
  BY <1>5, <1>8
<1>12. \E E : /\ dropped' = dropped \cup E
              /\ HeldRefs \cup {Len(log) + 1} = HeldRefs' \cup E
              /\ \A d \in E : \A r \in HeldRefs' : d < r
  BY <1>4, <1>10, <1>11
<1>13. WithinCapacity'
  BY <1>6, <1>8 DEF WithinCapacity
<1>14. UNCHANGED <<cursor, attached, ticking, acked>>
  BY DEF Enqueue
<1>15. 1 .. Len(log) \cup {Len(log) + 1} = 1 .. Len(log')
  BY <1>1, <1>9
<1>16. HeldRefs' \cup D \subseteq 1 .. Len(log')
  BY <1>10, <1>15 DEF OutboxInv
<1>17. TypeOK'
  <2>1. acked' \subseteq 1 .. Len(log') /\ dropped' \subseteq 1 .. Len(log')
    BY <1>4, <1>14, <1>15, <1>16 DEF OutboxInv, TypeOK
  <2>2. cursor' \in [Queue -> 0 .. MaxStream] /\ attached' \in BOOLEAN
        /\ ticking' \in BOOLEAN
    BY <1>14 DEF OutboxInv, TypeOK
  <2> QED
    BY <1>8, <1>9, <2>1, <2>2 DEF TypeOK, Batched
<1>18. OutboxInv'
  BY <1>8, <1>13, <1>16, <1>17 DEF OutboxInv
<1>19. Onward
  <2>1. /\ Len(log) <= Len(log')
        /\ Len(log) + 1 \in (Len(log) + 1) .. Len(log')
        /\ \A r \in 1 .. Len(log) : r \in 1 .. Len(log')
    BY <1>1, <1>9, <1>15
  <2>2. /\ HeldRefs \subseteq HeldRefs' \cup dropped'
        /\ dropped \subseteq dropped'
        /\ HeldRefs' \subseteq HeldRefs \cup {Len(log) + 1}
    BY <1>4, <1>10
  <2>3. \A i \in DOMAIN unacked' :
          \/ unacked'[i].batch >= nextBatch
          \/ \E j \in DOMAIN unacked : unacked'[i] = unacked[j]
    BY <1>5, <1>8
  <2> QED
    BY <1>8, <1>9, <1>14, <2>1, <2>2, <2>3 DEF Onward
<1> QED
  BY <1>1, <1>8, <1>9, <1>12, <1>18, <1>19

(* enqueue keeps the invariant: the new arrival is held or, at capacity,    *)
(* the oldest one is dropped in its place.                                  *)
LEMMA EnqueueStep ==
  ASSUME IInv, NEW e \in Event, Enqueue(e)
  PROVE  IInv'
<1>1. /\ OutboxInv' /\ FramesWhole'
      /\ log' \in Seq(Event) /\ Len(log') = Len(log) + 1 /\ Len(log) \in Nat
      /\ \A r \in 1 .. Len(log) : log'[r] = log[r]
  BY EnqueueHeld DEF IInv
<1>2. PICK D : /\ dropped' = dropped \cup D
               /\ HeldRefs \cup {Len(log) + 1} = HeldRefs' \cup D
               /\ \A d \in D : \A r \in HeldRefs' : d < r
  BY EnqueueHeld DEF IInv
<1>3. UNCHANGED <<cursor, attached, ticking, acked>>
  BY DEF Enqueue
<1>4. /\ 1 .. Len(log') = 1 .. Len(log) \cup {Len(log) + 1}
      /\ Len(log) + 1 \notin 1 .. Len(log)
  BY <1>1
<1>5. /\ 1 .. Len(log) = HeldRefs \cup acked \cup dropped
      /\ HeldRefs \cap acked = {} /\ HeldRefs \cap dropped = {}
      /\ acked \cap dropped = {}
  BY DEF IInv, Accounted
<1>6. HeldRefs' \cap D = {}
  <2>1. \A r \in HeldRefs' : r \in Nat
    BY <1>2, <1>4, <1>5, <1>1
  <2> QED
    BY <1>2, <2>1
<1>7. Accounted'
  <2>1. 1 .. Len(log') = HeldRefs' \cup acked' \cup dropped'
    BY <1>2, <1>3, <1>4, <1>5, Zenon
  <2>2. HeldRefs' \cap acked' = {}
    BY <1>2, <1>3, <1>4, <1>5
  <2>3. HeldRefs' \cap dropped' = {}
    BY <1>2, <1>4, <1>5, <1>6
  <2>4. acked' \cap dropped' = {}
    BY <1>2, <1>3, <1>4, <1>5
  <2> QED
    BY <2>1, <2>2, <2>3, <2>4 DEF Accounted
<1>11. CursorIsHighestAcked'
  <2>1. \A r \in acked : log'[r] = log[r]
    BY <1>1, <1>5
  <2>2. \A q \in Queue : StreamIds(acked, q)' = StreamIds(acked, q)
    BY <1>3, <2>1 DEF StreamIds
  <2> QED
    BY <1>3, <2>2 DEF IInv, CursorIsHighestAcked
<1> QED
  BY <1>1, <1>7, <1>11 DEF IInv

(* ack of a batch that is not held any more changes nothing.                *)
LEMMA AckUnknownSame ==
  ASSUME OutboxInv, NEW id, AckUnknown(id)
  PROVE  /\ UNCHANGED <<log, buffer, unacked, nextBatch, cursor, acked, dropped>>
         /\ attached' \in BOOLEAN /\ ticking' \in BOOLEAN
         /\ FramesWhole'
BY WholeFrames DEF AckUnknown, OutboxInv, TypeOK

(* ack of a held batch: its run moves from what is held to what is acked,   *)
(* and the cursors become the highest ids of both.                          *)
LEMMA AckHeld ==
  ASSUME OutboxInv, NEW id, AckKnown(id)
  PROVE  /\ OutboxInv' /\ Onward /\ FramesWhole'
         /\ UNCHANGED <<log, dropped>>
         /\ \E gone \in SUBSET HeldRefs :
              /\ gone = {unacked[i].ref : i \in Positions(unacked, id)}
              /\ acked' = acked \cup gone
              /\ HeldRefs = HeldRefs' \cup gone
              /\ HeldRefs' \cap gone = {}
              /\ \A q \in Queue :
                   /\ cursor'[q] \in {cursor[q]} \cup StreamIds(gone, q)
                   /\ \A n \in {cursor[q]} \cup StreamIds(gone, q) : n <= cursor'[q]
<1>1. PICK lo \in 0 .. Len(unacked), hi \in 1 .. Len(unacked) :
        /\ lo < hi
        /\ Positions(unacked, id) = (lo + 1) .. hi
        /\ unacked' = SubSeq(unacked, 1, lo)
                       \o SubSeq(unacked, hi + 1, Len(unacked))
        /\ acked' = acked \cup {unacked[i].ref : i \in (lo + 1) .. hi}
        /\ cursor' = Advanced({unacked[i].ref : i \in (lo + 1) .. hi})
  BY DEF AckKnown
<1>2. UNCHANGED <<log, buffer, nextBatch, attached, ticking, dropped>> /\ out' = {}
  BY DEF AckKnown
<1> DEFINE gone == RunRefs(unacked, lo, hi)
<1>3. /\ unacked' = AfterAck(unacked, lo, hi)
      /\ acked' = acked \cup gone
      /\ cursor' = Advanced(gone)
      /\ gone = {unacked[i].ref : i \in Positions(unacked, id)}
  BY <1>1 DEF RunRefs, AfterAck
<1>4. /\ unacked \in Seq(Entry) /\ buffer \in Seq(Nat)
      /\ nextBatch \in Nat \ {0}
      /\ \A i \in DOMAIN unacked : unacked[i].batch \in 1 .. (nextBatch - 1)
      /\ InOrder(unacked, buffer)
      /\ log \in Seq(Event)
      /\ Len(unacked) + Len(buffer) <= MaxBuffered
      /\ Len(unacked) \in Nat /\ Len(buffer) \in Nat
      /\ BatchesFit(unacked)
  BY DEF OutboxInv, TypeOK, ArrivalOrder, WithinCapacity
<1>5. /\ unacked' \in Seq(Entry)
      /\ Len(unacked') <= Len(unacked)
      /\ InOrder(unacked', buffer)
      /\ Refs(unacked, buffer) = Refs(unacked', buffer) \cup gone
      /\ Refs(unacked', buffer) \cap gone = {}
      /\ \A i \in DOMAIN unacked' :
           \E j \in DOMAIN unacked : unacked'[i] = unacked[j]
      /\ BatchesFit(unacked')
  <2>1. /\ AfterAck(unacked, lo, hi) \in Seq(Entry)
        /\ Len(AfterAck(unacked, lo, hi)) <= Len(unacked)
        /\ InOrder(AfterAck(unacked, lo, hi), buffer)
        /\ Refs(unacked, buffer) =
             Refs(AfterAck(unacked, lo, hi), buffer) \cup gone
        /\ Refs(AfterAck(unacked, lo, hi), buffer) \cap gone = {}
        /\ \A i \in DOMAIN AfterAck(unacked, lo, hi) :
             \E j \in DOMAIN unacked : AfterAck(unacked, lo, hi)[i] = unacked[j]
        /\ BatchesFit(AfterAck(unacked, lo, hi))
    BY <1>1, <1>4, Remove
  <2> QED
    BY <1>3, <2>1, Zenon
<1> HIDE DEF gone
<1>6. HeldRefs = HeldRefs' \cup gone /\ HeldRefs' \cap gone = {}
  BY <1>2, <1>5 DEF HeldRefs
<1>7. gone \in SUBSET (1 .. Len(log)) /\ HeldRefs' \subseteq 1 .. Len(log')
  BY <1>2, <1>6 DEF OutboxInv
<1>8. ASSUME NEW q \in Queue
      PROVE  /\ cursor'[q] \in 0 .. MaxStream
             /\ cursor'[q] \in {cursor[q]} \cup StreamIds(gone, q)
             /\ \A n \in {cursor[q]} \cup StreamIds(gone, q) : n <= cursor'[q]
  <2> DEFINE S == {cursor[q]} \cup StreamIds(gone, q)
  <2>1. cursor[q] \in 0 .. MaxStream /\ MaxStream \in Nat
    BY OutboxAssumption DEF OutboxInv, TypeOK
  <2>2. StreamIds(gone, q) \subseteq 1 .. MaxStream
    BY <1>4, <1>7, StreamIdsTyped
  <2>3. S \in SUBSET (0 .. MaxStream) /\ S # {}
    BY <2>1, <2>2
  <2>4. Highest(S) \in S /\ \A y \in S : y <= Highest(S)
    BY <2>1, <2>3, HighestIsIn
  <2>5. cursor'[q] = Highest(S)
    BY <1>3 DEF Advanced
  <2> QED
    BY <2>3, <2>4, <2>5
<1>9. cursor' \in [Queue -> 0 .. MaxStream]
  BY <1>3, <1>8 DEF Advanced
<1>10. TypeOK'
  <2>1. /\ log' \in Seq(Event) /\ buffer' \in Seq(Nat)
        /\ nextBatch' \in Nat \ {0}
        /\ attached' \in BOOLEAN /\ ticking' \in BOOLEAN
        /\ dropped' \subseteq 1 .. Len(log') /\ acked \subseteq 1 .. Len(log')
    BY <1>2 DEF OutboxInv, TypeOK
  <2>2. acked' \subseteq 1 .. Len(log')
    BY <1>2, <1>3, <1>7, <2>1
  <2>3. \A i \in DOMAIN unacked' : unacked'[i].batch \in 1 .. (nextBatch' - 1)
    BY <1>2, <1>4, <1>5
  <2> QED
    BY <1>5, <1>9, <2>1, <2>2, <2>3 DEF TypeOK
<1>11. WithinCapacity'
  <2>1. Len(unacked') \in Nat /\ Len(unacked') <= Len(unacked)
        /\ Len(buffer') = Len(buffer)
    BY <1>2, <1>5
  <2>2. Len(unacked') + Len(buffer') <= MaxBuffered
    BY <1>4, <2>1, OutboxAssumption
  <2> QED
    BY <2>2 DEF WithinCapacity
<1>12. ArrivalOrder'
  BY <1>2, <1>5 DEF ArrivalOrder
<1>13. OutboxInv'
  BY <1>5, <1>7, <1>10, <1>11, <1>12 DEF OutboxInv
<1>14. Onward
  <2>1. nextBatch <= nextBatch' /\ Len(log) <= Len(log')
    BY <1>2 DEF OutboxInv, TypeOK
  <2>2. \A q \in Queue : StreamIds(gone, q) \subseteq StreamIds(HeldRefs, q)
    BY <1>6 DEF StreamIds
  <2>3. /\ HeldRefs \subseteq HeldRefs' \cup acked' /\ acked \subseteq acked'
        /\ HeldRefs' \subseteq HeldRefs
    BY <1>3, <1>6
  <2> QED
    BY <1>2, <1>5, <1>8, <2>1, <2>2, <2>3 DEF Onward
<1>15. FramesWhole'
  BY <1>2, WholeFrames
<1> QED
  BY <1>2, <1>3, <1>6, <1>8, <1>13, <1>14, <1>15

(* ack keeps the invariant.                                                 *)
LEMMA AckStep ==
  ASSUME IInv, NEW id, Ack(id)
  PROVE  IInv'
<1>1. CASE AckUnknown(id)
  BY <1>1, AckUnknownSame, SameBatches DEF IInv
<1>2. CASE AckKnown(id)
  <2>1. OutboxInv' /\ FramesWhole' /\ UNCHANGED <<log, dropped>>
    BY <1>2, AckHeld DEF IInv
  <2>2. PICK gone \in SUBSET HeldRefs :
          /\ acked' = acked \cup gone
          /\ HeldRefs = HeldRefs' \cup gone
          /\ HeldRefs' \cap gone = {}
          /\ \A q \in Queue :
               /\ cursor'[q] \in {cursor[q]} \cup StreamIds(gone, q)
               /\ \A n \in {cursor[q]} \cup StreamIds(gone, q) : n <= cursor'[q]
    BY <1>2, AckHeld DEF IInv
  <2>3. Accounted'
    BY <2>1, <2>2 DEF IInv, Accounted
  <2>4. ASSUME NEW q \in Queue
        PROVE  /\ \A n \in StreamIds(acked', q) : n <= cursor'[q]
               /\ cursor'[q] \in StreamIds(acked', q) \cup {0}
    <3>1. StreamIds(acked', q) = StreamIds(acked, q) \cup StreamIds(gone, q)
      BY <2>2 DEF StreamIds
    <3>2. /\ \A n \in StreamIds(acked, q) : n <= cursor[q]
          /\ cursor[q] \in StreamIds(acked, q) \cup {0}
      BY DEF IInv, CursorIsHighestAcked
    <3>3. StreamIds(acked, q) \subseteq 1 .. MaxStream
      <4>1. log \in Seq(Event) /\ acked \in SUBSET (1 .. Len(log))
        BY DEF IInv, OutboxInv, TypeOK
      <4> QED
        BY <4>1, StreamIdsTyped
    <3>4. cursor[q] \in Nat /\ cursor'[q] \in Nat /\ cursor[q] <= cursor'[q]
      BY <2>1, <2>2, OutboxAssumption DEF IInv, OutboxInv, TypeOK
    <3>5. \A n \in StreamIds(acked, q) : n <= cursor'[q]
      BY <3>2, <3>3, <3>4, OutboxAssumption
    <3> QED
      BY <2>2, <3>1, <3>2, <3>5
  <2>5. CursorIsHighestAcked'
    <3>1. \A q \in Queue : StreamIds(acked, q)' = StreamIds(acked', q)
      BY <2>1 DEF StreamIds
    <3> QED
      BY <2>4, <3>1 DEF CursorIsHighestAcked
  <2> QED
    BY <2>1, <2>3, <2>5 DEF IInv
<1> QED
  BY <1>1, <1>2 DEF Ack

(* Every call keeps the invariant.                                          *)
LEMMA NextIInv == IInv /\ [Next]_outboxVars => IInv'
<1> SUFFICES ASSUME IInv, [Next]_outboxVars PROVE IInv'
  OBVIOUS
<1>1. ASSUME NEW e \in Arriving, Enqueue(e) PROVE IInv'
  <2>1. e \in Event
    BY OutboxAssumption
  <2> QED
    BY <1>1, <2>1, EnqueueStep
<1>2. CASE Tick
  BY <1>2, TickStep
<1>3. CASE Attach \/ Detach \/ Stop \/ UNCHANGED outboxVars
  <2>1. UNCHANGED <<log, buffer, unacked, nextBatch, cursor, acked, dropped>>
    BY <1>3 DEF Attach, Detach, Stop, outboxVars
  <2>2. attached' \in BOOLEAN /\ ticking' \in BOOLEAN
    BY <1>3 DEF Attach, Detach, Stop, outboxVars, IInv, OutboxInv, TypeOK
  <2>3. FramesWhole'
    <3>1. CASE Attach \/ Detach \/ Stop
      BY <3>1, WholeFrames DEF Attach, Detach, Stop
    <3>2. CASE UNCHANGED outboxVars
      BY <3>2 DEF outboxVars, IInv, FramesWhole, Frame, Positions
    <3> QED
      BY <1>3, <3>1, <3>2
  <2> QED
    BY <2>1, <2>2, <2>3, SameBatches
<1>4. ASSUME NEW id \in 1 .. (nextBatch - 1), Ack(id) PROVE IInv'
  BY <1>4, AckStep
<1> QED
  BY <1>1, <1>2, <1>3, <1>4 DEF Next

-----------------------------------------------------------------------------

(* The inductive invariant holds in every behaviour of the outbox.          *)
THEOREM Invariance == Spec => []IInv
BY InitIInv, NextIInv, PTL DEF Spec

(* TypeOK: every variable keeps its type, and no batch id is used before it *)
(* is counted.                                                              *)
THEOREM TypeCorrect == Spec => []TypeOK
<1>1. IInv => TypeOK
  BY DEF IInv, OutboxInv
<1> QED
  BY <1>1, Invariance, PTL

(* WithinCapacity: maxBufferedEvents bounds buffered and unacked events     *)
(* together, whatever the batch sizes (enqueue's dropOldest).               *)
THEOREM Bounded == Spec => []WithinCapacity
<1>1. IInv => WithinCapacity
  BY DEF IInv, OutboxInv
<1> QED
  BY <1>1, Invariance, PTL

(* ArrivalOrder: batches and buffer stay in arrival order, which            *)
(* resendUnacked and dropOldest rely on.                                    *)
THEOREM Ordered == Spec => []ArrivalOrder
<1>1. IInv => ArrivalOrder
  BY DEF IInv, OutboxInv
<1> QED
  BY <1>1, Invariance, PTL

(* Accounted: every enqueued event is held, acked or dropped, and only one  *)
(* of them.                                                                 *)
THEOREM NothingLost == Spec => []Accounted
<1>1. IInv => Accounted
  BY DEF IInv
<1> QED
  BY <1>1, Invariance, PTL

(* CursorIsHighestAcked: getCursor is the highest stream id acked for the   *)
(* queue, in whatever order the acks come.                                  *)
THEOREM ResumeCursor == Spec => []CursorIsHighestAcked
<1>1. IInv => CursorIsHighestAcked
  BY DEF IInv
<1> QED
  BY <1>1, Invariance, PTL

(* FramesAreHeldBatches: a frame is a batch still held, whole, and carries  *)
(* between one and maxBatchSize events, which is what the gateway parses.   *)
THEOREM FramesFit == Spec => []FramesAreHeldBatches
<1>1. IInv => FramesAreHeldBatches
  BY FrameSizes DEF IInv
<1> QED
  BY <1>1, Invariance, PTL

(* DropsOldestFirst: capacity evicts the oldest event the outbox holds.     *)
THEOREM EvictsOldest == Spec => DropsOldestFirst
<1>1. IInv /\ [Next]_outboxVars =>
        [\A d \in dropped' \ dropped : \A r \in HeldRefs' : d < r]_outboxVars
  <2> SUFFICES ASSUME IInv, Next
               PROVE  \A d \in dropped' \ dropped : \A r \in HeldRefs' : d < r
    OBVIOUS
  <2>1. ASSUME NEW e \in Arriving, Enqueue(e)
        PROVE  \A d \in dropped' \ dropped : \A r \in HeldRefs' : d < r
    <3>1. e \in Event
      BY OutboxAssumption
    <3>2. \E D : /\ dropped' = dropped \cup D
                 /\ HeldRefs \cup {Len(log) + 1} = HeldRefs' \cup D
                 /\ \A d \in D : \A r \in HeldRefs' : d < r
      BY <2>1, <3>1, EnqueueHeld DEF IInv
    <3> QED
      BY <3>2
  <2>2. ASSUME dropped' = dropped
        PROVE  \A d \in dropped' \ dropped : \A r \in HeldRefs' : d < r
    BY <2>2
  <2>3. CASE Tick \/ Attach \/ Detach \/ Stop
    BY <2>2, <2>3 DEF Tick, Attach, Detach, Stop
  <2>4. ASSUME NEW id, Ack(id)
        PROVE  dropped' = dropped
    BY <2>4 DEF Ack, AckKnown, AckUnknown
  <2> QED
    BY <2>1, <2>2, <2>3, <2>4 DEF Next
<1> QED
  BY <1>1, Invariance, PTL DEF Spec, DropsOldestFirst

-----------------------------------------------------------------------------
(* Delivery.  A frame under way names a batch that was cut, and carries at  *)
(* least the events of it the outbox still holds: later frames of the same  *)
(* batch only get smaller.                                                  *)
GoodFrames ==
  {f \in [batch : Nat, refs : SUBSET (1 .. Len(log))] :
     /\ f.batch < nextBatch
     /\ \A i \in DOMAIN unacked :
          unacked[i].batch = f.batch => unacked[i].ref \in f.refs}

(* An ack under way names a batch of which every event still held is in the *)
(* table.                                                                   *)
GoodAcks ==
  {id \in Nat :
     /\ id < nextBatch
     /\ \A i \in DOMAIN unacked :
          unacked[i].batch = id => log[unacked[i].ref] \in Recorded}

Calls == [sock : Sockets, frame : GoodFrames]

LinksOK ==
  /\ up \in [Sockets -> Seq(GoodFrames)]
  /\ down \in Seq(GoodAcks)
  /\ mutations \in Seq(Calls)

(* Only events that happened are looked up, enqueued or recorded.           *)
SourcesOK ==
  /\ stream \in [Queue -> 0 .. MaxStream]
  /\ snaps \in [Queue -> 0 .. MaxSnapshots]
  /\ readPos \in [Queue -> Nat]
  /\ rows \in [Event -> {0, 1}]
  /\ forgotten \subseteq 1 .. Len(log)
  /\ \A x \in looking : x.event \in Produced
  /\ \A r \in 1 .. Len(log) : log[r] \in Produced

LookedUp == {x.event : x \in looking}

(* Where a terminal event can be once a reader has passed it.               *)
Coverage ==
  LookedUp \cup Recorded \cup skipped
  \cup EventsOf(HeldRefs \cup dropped \cup forgotten)

(* The stream positions a reader of q stands at, or will start from, now or *)
(* after any acks of what is looked up or held.                             *)
Marks(q) ==
  {readPos[q], cursor[q]}
  \cup {n \in 1 .. MaxStream : Terminal(q, n) \in LookedUp \cup EventsOf(HeldRefs)}

(* No reader ever starts above an entry that is accounted for nowhere.      *)
ReadersOK ==
  \A q \in Queue : \A m \in Marks(q) : \A i \in 1 .. m : Terminal(q, i) \in Coverage

(* What is inductive.                                                       *)
DInv ==
  /\ OutboxInv
  /\ SourcesOK
  /\ LinksOK
  /\ AckedIsRecorded
  /\ ReadersOK

-----------------------------------------------------------------------------
(* A sequence over a set is one over any larger set.                        *)
LEMMA SeqOver ==
  ASSUME NEW A, NEW B, A \subseteq B, NEW s \in Seq(A)
  PROVE  s \in Seq(B)
<1>1. Len(s) \in Nat /\ s \in [1 .. Len(s) -> A]
  OBVIOUS
<1>2. s \in [1 .. Len(s) -> B]
  BY <1>1
<1> QED
  BY <1>1, <1>2

(* Every call of the outbox keeps its invariant and moves on.               *)
LEMMA OutboxCall ==
  ASSUME OutboxInv,
         \/ \E e \in Event : Enqueue(e)
         \/ \E id : Ack(id)
         \/ Tick \/ Attach \/ Detach \/ OutboxIdle
  PROVE  OutboxInv' /\ Onward /\ FramesWhole'
<1>1. ASSUME NEW e \in Event, Enqueue(e)
      PROVE  OutboxInv' /\ Onward /\ FramesWhole'
  BY <1>1, EnqueueHeld
<1>2. ASSUME NEW id, Ack(id)
      PROVE  OutboxInv' /\ Onward /\ FramesWhole'
  <2>1. CASE AckKnown(id)
    BY <2>1, AckHeld
  <2>2. CASE AckUnknown(id)
    BY <2>2, AckUnknownSame, SameOutbox
  <2> QED
    BY <1>2, <2>1, <2>2 DEF Ack
<1>3. CASE Tick
  BY <1>3, TickHeld
<1>4. CASE Attach \/ Detach \/ OutboxIdle
  <2>1. UNCHANGED <<log, buffer, unacked, nextBatch, cursor, acked, dropped>>
    BY <1>4 DEF Attach, Detach, OutboxIdle
  <2>2. attached' \in BOOLEAN /\ ticking' \in BOOLEAN
    BY <1>4 DEF Attach, Detach, OutboxIdle, OutboxInv, TypeOK
  <2>3. FramesWhole'
    BY <1>4, WholeFrames DEF Attach, Detach, OutboxIdle
  <2> QED
    BY <2>1, <2>2, <2>3, SameOutbox
<1> QED
  BY <1>1, <1>2, <1>3, <1>4

(* The frames of a call are good, and finitely many.                        *)
LEMMA FramesGood ==
  OutboxInv /\ FramesWhole => out \subseteq GoodFrames /\ IsFiniteSet(out)
<1> SUFFICES ASSUME OutboxInv, FramesWhole
             PROVE  out \subseteq GoodFrames /\ IsFiniteSet(out)
  OBVIOUS
<1>1. ASSUME NEW i \in DOMAIN unacked
      PROVE  Frame(unacked, unacked[i].batch) \in GoodFrames
  <2> DEFINE id == unacked[i].batch
             refs == {unacked[j].ref : j \in Positions(unacked, id)}
  <2>1. id \in Nat /\ id < nextBatch
    <3>1. id \in 1 .. (nextBatch - 1) /\ nextBatch \in Nat
      BY DEF OutboxInv, TypeOK
    <3> QED
      BY <3>1
  <2>2. refs \subseteq HeldRefs
    BY InRefs DEF HeldRefs, Positions
  <2>3. refs \in SUBSET (1 .. Len(log))
    BY <2>2 DEF OutboxInv
  <2>4. \A j \in DOMAIN unacked : unacked[j].batch = id => unacked[j].ref \in refs
    BY DEF Positions
  <2>5. Frame(unacked, id) = [batch |-> id, refs |-> refs]
    BY DEF Frame
  <2> HIDE DEF refs, id
  <2> QED
    BY <2>1, <2>3, <2>4, <2>5 DEF GoodFrames, id
<1>2. out \subseteq GoodFrames
  BY <1>1 DEF FramesWhole
<1> DEFINE f == [i \in DOMAIN unacked |-> Frame(unacked, unacked[i].batch)]
           T == {Frame(unacked, unacked[i].batch) : i \in DOMAIN unacked}
<1>3. f \in Surjection(DOMAIN unacked, T)
  BY DEF Surjection
<1>4. out \in SUBSET T
  BY DEF FramesWhole
<1>5. IsFiniteSet(DOMAIN unacked)
  <2>1. DOMAIN unacked = 1 .. Len(unacked) /\ 1 \in Int /\ Len(unacked) \in Int
    BY DEF OutboxInv, TypeOK
  <2> QED
    BY <2>1, FS_Interval
<1> HIDE DEF f, T
<1> QED
  BY <1>2, <1>3, <1>4, <1>5, FS_Surjection, FS_Subset

(* The frames of a finite set in batch order are a sequence over it.        *)
LEMMA InOrderIsSeq ==
  ASSUME NEW F, IsFiniteSet(F), NEW s \in InBatchOrder(F)
  PROVE  s \in Seq(F)
<1>1. Cardinality(F) \in Nat /\ s \in [1 .. Cardinality(F) -> F]
  BY FS_CardinalityType DEF InBatchOrder
<1> QED
  BY <1>1

(* Moving on, a good frame stays good: the batch is gone or has lost events *)
(* at its front, and its id is not used again.                              *)
LEMMA FramesStayGood ==
  ASSUME OutboxInv, OutboxInv', Onward
  PROVE  GoodFrames \subseteq GoodFrames'
<1> SUFFICES ASSUME NEW f \in GoodFrames PROVE f \in GoodFrames'
  OBVIOUS
<1>1. /\ f \in [batch : Nat, refs : SUBSET (1 .. Len(log))]
      /\ f.batch < nextBatch /\ f.batch \in Nat
      /\ \A i \in DOMAIN unacked :
           unacked[i].batch = f.batch => unacked[i].ref \in f.refs
  BY DEF GoodFrames
<1>2. f \in [batch : Nat, refs : SUBSET (1 .. Len(log'))]
  BY <1>1 DEF Onward
<1>3. nextBatch \in Nat /\ nextBatch' \in Nat /\ nextBatch <= nextBatch'
  BY DEF OutboxInv, TypeOK, Onward
<1>4. f.batch < nextBatch'
  BY <1>1, <1>3
<1>5. ASSUME NEW i \in DOMAIN unacked', unacked'[i].batch = f.batch
      PROVE  unacked'[i].ref \in f.refs
  <2>1. ~(unacked'[i].batch >= nextBatch)
    BY <1>1, <1>3, <1>5
  <2>2. PICK j \in DOMAIN unacked : unacked'[i] = unacked[j]
    BY <2>1 DEF Onward
  <2> QED
    BY <1>1, <1>5, <2>2
<1> QED
  BY <1>2, <1>4, <1>5 DEF GoodFrames

(* ... and a good ack too, as the table only gains rows.                    *)
LEMMA AcksStayGood ==
  ASSUME OutboxInv, OutboxInv', Onward, Recorded \subseteq Recorded'
  PROVE  GoodAcks \subseteq GoodAcks'
<1> SUFFICES ASSUME NEW id \in GoodAcks PROVE id \in GoodAcks'
  OBVIOUS
<1>1. /\ id \in Nat /\ id < nextBatch
      /\ \A i \in DOMAIN unacked :
           unacked[i].batch = id => log[unacked[i].ref] \in Recorded
  BY DEF GoodAcks
<1>3. nextBatch \in Nat /\ nextBatch' \in Nat /\ nextBatch <= nextBatch'
  BY DEF OutboxInv, TypeOK, Onward
<1>4. id < nextBatch'
  BY <1>1, <1>3
<1>5. ASSUME NEW i \in DOMAIN unacked', unacked'[i].batch = id
      PROVE  log'[unacked'[i].ref] \in Recorded'
  <2>1. ~(unacked'[i].batch >= nextBatch)
    BY <1>1, <1>3, <1>5
  <2>2. PICK j \in DOMAIN unacked : unacked'[i] = unacked[j]
    BY <2>1 DEF Onward
  <2>3. unacked[j].ref \in 1 .. Len(log)
    BY InRefs DEF OutboxInv, HeldRefs
  <2>4. log'[unacked[j].ref] = log[unacked[j].ref]
    BY <2>3 DEF Onward
  <2> QED
    BY <1>1, <1>5, <2>2, <2>4
<1> QED
  BY <1>1, <1>4, <1>5 DEF GoodAcks

(* What is under way stays good when nothing is added to it.                *)
LEMMA LinksStay ==
  ASSUME OutboxInv, OutboxInv', Onward, Recorded \subseteq Recorded', LinksOK
  PROVE  /\ up' = up => up' \in [Sockets -> Seq(GoodFrames')]
         /\ down' = down => down' \in Seq(GoodAcks')
         /\ mutations' = mutations => mutations' \in Seq(Calls')
         /\ up \in [Sockets -> Seq(GoodFrames')]
         /\ down \in Seq(GoodAcks')
         /\ mutations \in Seq(Calls')
<1>1. GoodFrames \subseteq GoodFrames' /\ GoodAcks \subseteq GoodAcks'
  BY FramesStayGood, AcksStayGood
<1>2. Calls \subseteq Calls'
  BY <1>1 DEF Calls, Sockets
<1>3. ASSUME NEW s \in Sockets PROVE up[s] \in Seq(GoodFrames')
  <2>1. up[s] \in Seq(GoodFrames)
    BY DEF LinksOK
  <2> QED
    BY <1>1, <2>1, SeqOver
<1>4. up \in [Sockets -> Seq(GoodFrames')]
  BY <1>3 DEF LinksOK
<1>5. down \in Seq(GoodAcks') /\ mutations \in Seq(Calls')
  BY <1>1, <1>2, SeqOver DEF LinksOK
<1> QED
  BY <1>4, <1>5

(* sendBatch puts the frames of a call behind what the socket carries.      *)
LEMMA Sent ==
  ASSUME NEW G, up \in [Sockets -> Seq(G)], out' \subseteq G, IsFiniteSet(out'),
         SendOut
  PROVE  up' \in [Sockets -> Seq(G)]
<1>1. CASE ~open
  BY <1>1 DEF SendOut
<1>2. CASE open
  <2>1. PICK frames \in InBatchOrder(out') :
          up' = [up EXCEPT ![sock] = @ \o frames]
    BY <1>2 DEF SendOut
  <2>2. frames \in Seq(G)
    BY InOrderIsSeq, SeqOver
  <2>3. \A s \in Sockets : up[s] \o frames \in Seq(G)
    <3>1. ASSUME NEW s \in Sockets PROVE up[s] \o frames \in Seq(G)
      BY <2>2, ConcatProperties
    <3> QED
      BY <3>1
  <2>4. \A s \in Sockets : up'[s] \in Seq(G)
    BY <2>1, <2>3
  <2> QED
    BY <2>1, <2>4
<1> QED
  BY <1>1, <1>2

-----------------------------------------------------------------------------
(* What was acked stays recorded while nothing more is acked.               *)
LEMMA AckedStays ==
  ASSUME DInv, Onward, acked' = acked, Recorded \subseteq Recorded'
  PROVE  AckedIsRecorded'
<1>1. \A r \in acked : log'[r] = log[r]
  BY DEF DInv, OutboxInv, TypeOK, Onward
<1>2. \A r \in acked : log[r] \in Recorded
  BY DEF DInv, AckedIsRecorded, EventsOf
<1> QED
  BY <1>1, <1>2 DEF AckedIsRecorded, EventsOf

(* The sources stay in order when only events that happened come in.        *)
LEMMA SourcesMove ==
  ASSUME DInv, OutboxInv', Onward, Produced \subseteq Produced',
         stream' \in [Queue -> 0 .. MaxStream],
         snaps' \in [Queue -> 0 .. MaxSnapshots],
         readPos' \in [Queue -> Nat], rows' \in [Event -> {0, 1}],
         forgotten' = forgotten,
         \A x \in looking' : x.event \in Produced',
         \A r \in (Len(log) + 1) .. Len(log') : log'[r] \in Produced'
  PROVE  SourcesOK'
<1>1. forgotten' \subseteq 1 .. Len(log')
  BY DEF DInv, SourcesOK, Onward
<1>2. ASSUME NEW r \in 1 .. Len(log') PROVE log'[r] \in Produced'
  <2>1. Len(log) \in Nat /\ Len(log') \in Nat
    BY DEF DInv, OutboxInv, TypeOK
  <2>2. r \in 1 .. Len(log) \/ r \in (Len(log) + 1) .. Len(log')
    BY <2>1
  <2>3. CASE r \in 1 .. Len(log)
    BY <2>3 DEF DInv, SourcesOK, Onward
  <2> QED
    BY <2>2, <2>3
<1> QED
  BY <1>1, <1>2 DEF SourcesOK

(* An event accounted for stays so: what leaves the outbox by an ack is     *)
(* recorded, what leaves it otherwise is dropped.                           *)
LEMMA Covering ==
  ASSUME DInv, Onward, AckedIsRecorded', Recorded \subseteq Recorded',
         skipped \subseteq skipped', forgotten \subseteq forgotten',
         LookedUp \subseteq Coverage'
  PROVE  Coverage \subseteq Coverage'
<1> SUFFICES ASSUME NEW e \in Coverage PROVE e \in Coverage'
  OBVIOUS
<1>1. CASE e \in LookedUp \cup Recorded \cup skipped
  BY <1>1 DEF Coverage
<1>2. CASE e \in EventsOf(HeldRefs \cup dropped \cup forgotten)
  <2>1. PICK r \in HeldRefs \cup dropped \cup forgotten : e = log[r]
    BY <1>2 DEF EventsOf
  <2>2. r \in 1 .. Len(log)
    BY <2>1 DEF DInv, OutboxInv, TypeOK, SourcesOK
  <2>3. e = log'[r]
    BY <2>1, <2>2 DEF Onward
  <2>4. r \in HeldRefs' \cup dropped' \cup forgotten' \/ r \in acked'
    BY <2>1 DEF Onward
  <2>5. CASE r \in HeldRefs' \cup dropped' \cup forgotten'
    BY <2>3, <2>5 DEF Coverage, EventsOf
  <2>6. CASE r \in acked'
    BY <2>3, <2>6 DEF Coverage, AckedIsRecorded, EventsOf
  <2> QED
    BY <2>4, <2>5, <2>6
<1> QED
  BY <1>1, <1>2 DEF Coverage

(* No mark is new when the readers stay and what is newly held was looked   *)
(* up, or is a snapshot.                                                    *)
LEMMA MarksStay ==
  ASSUME DInv, OutboxInv', Onward, readPos' = readPos,
         LookedUp' \subseteq LookedUp,
         \A r \in (Len(log) + 1) .. Len(log') :
           log'[r] \in LookedUp \/ log'[r].kind # "terminal",
         NEW q \in Queue
  PROVE  Marks(q)' \subseteq Marks(q)
<1> SUFFICES ASSUME NEW m \in Marks(q)' PROVE m \in Marks(q)
  OBVIOUS
<1>0. \A r \in HeldRefs : r \in 1 .. Len(log) /\ log[r] \in Event
  BY DEF DInv, OutboxInv, TypeOK
<1>1. CASE m = readPos'[q]
  BY <1>1 DEF Marks
<1>2. CASE m = cursor'[q]
  <2>1. CASE cursor'[q] = cursor[q]
    BY <1>2, <2>1 DEF Marks
  <2>2. CASE cursor'[q] \in StreamIds(HeldRefs, q)
    <3>1. PICK r \in HeldRefs : /\ log[r].queue = q /\ log[r].kind = "terminal"
                                /\ m = log[r].n
      BY <1>2, <2>2 DEF StreamIds
    <3>2. log[r] = Terminal(q, m) /\ m \in 1 .. MaxStream
      BY <1>0, <3>1 DEF Event, Terminal
    <3>3. Terminal(q, m) \in EventsOf(HeldRefs)
      BY <3>2 DEF EventsOf
    <3> QED
      BY <3>2, <3>3 DEF Marks
  <2> QED
    BY <2>1, <2>2 DEF Onward
<1>3. CASE m \in 1 .. MaxStream /\ Terminal(q, m) \in LookedUp'
  BY <1>3 DEF Marks
<1>4. CASE m \in 1 .. MaxStream /\ Terminal(q, m) \in EventsOf(HeldRefs)'
  <2>1. PICK r \in HeldRefs' : Terminal(q, m) = log'[r]
    BY <1>4 DEF EventsOf
  <2>2. CASE r \in HeldRefs
    <3>1. log'[r] = log[r]
      BY <1>0, <2>2 DEF Onward
    <3> QED
      BY <1>4, <2>1, <2>2, <3>1 DEF Marks, EventsOf
  <2>3. CASE r \in (Len(log) + 1) .. Len(log')
    <3>1. log'[r].kind = "terminal"
      BY <2>1 DEF Terminal
    <3>2. Terminal(q, m) \in LookedUp
      BY <2>1, <2>3, <3>1
    <3> QED
      BY <1>4, <3>2 DEF Marks
  <2> QED
    BY <2>2, <2>3 DEF Onward
<1> QED
  BY <1>1, <1>2, <1>3, <1>4 DEF Marks

(* The marks that are not new are still accounted for.                      *)
LEMMA ReadersMove ==
  ASSUME DInv, Coverage \subseteq Coverage',
         \A q \in Queue : \A m \in Marks(q)' :
           m \in Marks(q) \/ \A i \in 1 .. m : Terminal(q, i) \in Coverage'
  PROVE  ReadersOK'
BY DEF DInv, ReadersOK

(* A step that leaves the sources and the readers alone and enqueues        *)
(* nothing.                                                                 *)
LEMMA Calm ==
  ASSUME DInv, OutboxInv', Onward, log' = log,
         UNCHANGED <<stream, snaps, readPos, looking, skipped, forgotten>>,
         rows' \in [Event -> {0, 1}], Recorded \subseteq Recorded',
         AckedIsRecorded',
         up' \in [Sockets -> Seq(GoodFrames')], down' \in Seq(GoodAcks'),
         mutations' \in Seq(Calls')
  PROVE  DInv'
<1>1. Produced' = Produced /\ LookedUp' = LookedUp
  BY DEF Produced, LookedUp
<1>2. \A r \in (Len(log) + 1) .. Len(log') : FALSE
  BY DEF DInv, OutboxInv, TypeOK
<1>3. SourcesOK'
  <2>1. /\ stream' \in [Queue -> 0 .. MaxStream]
        /\ snaps' \in [Queue -> 0 .. MaxSnapshots]
        /\ readPos' \in [Queue -> Nat]
        /\ \A x \in looking' : x.event \in Produced'
    BY <1>1 DEF DInv, SourcesOK
  <2> QED
    BY <1>1, <1>2, <2>1, SourcesMove
<1>4. LinksOK'
  BY DEF LinksOK
<1>5. LookedUp \subseteq Coverage'
  BY <1>1 DEF Coverage
<1>6. Coverage \subseteq Coverage'
  BY <1>5, Covering
<1>7. \A q \in Queue : Marks(q)' \subseteq Marks(q)
  BY <1>1, <1>2, MarksStay
<1>8. ReadersOK'
  BY <1>6, <1>7, ReadersMove
<1> QED
  BY <1>3, <1>4, <1>8 DEF DInv

(* ... and leaves the outbox alone as well.                                 *)
LEMMA Idle ==
  ASSUME DInv, OutboxIdle
  PROVE  /\ OutboxInv' /\ Onward
         /\ log' = log /\ acked' = acked /\ HeldRefs' = HeldRefs
         /\ cursor' = cursor /\ dropped' = dropped
<1>1. OutboxInv' /\ Onward
  BY OutboxCall DEF DInv
<1>2. log' = log /\ acked' = acked /\ unacked' = unacked /\ buffer' = buffer
      /\ cursor' = cursor /\ dropped' = dropped
  BY DEF OutboxIdle
<1> QED
  BY <1>1, <1>2 DEF HeldRefs

LEMMA RowsSame ==
  ASSUME DInv, rows' = rows
  PROVE  rows' \in [Event -> {0, 1}] /\ Recorded \subseteq Recorded'
BY DEF DInv, SourcesOK, Recorded

(* recordBatch leaves each event of the frame with one row, and the others  *)
(* as they were.                                                            *)
LEMMA RowsInserted ==
  ASSUME DInv, NEW f \in GoodFrames, rows' = Inserted(f)
  PROVE  /\ rows' \in [Event -> {0, 1}] /\ Recorded \subseteq Recorded'
         /\ EventsOf(f.refs) \subseteq Recorded'
<1>1. rows \in [Event -> {0, 1}]
  BY DEF DInv, SourcesOK
<1>2. EventsOf(f.refs) \subseteq Event
  BY DEF EventsOf, GoodFrames, DInv, OutboxInv, TypeOK
<1>3. \A e \in Event : rows'[e] = IF e \in EventsOf(f.refs) /\ rows[e] = 0
                                  THEN 1 ELSE rows[e]
  BY DEF Inserted
<1>4. rows' \in [Event -> {0, 1}]
  BY <1>1 DEF Inserted
<1>5. \A e \in Event : rows[e] > 0 => rows'[e] > 0
  BY <1>1, <1>3
<1>6. \A e \in EventsOf(f.refs) : e \in Event /\ rows'[e] > 0
  BY <1>1, <1>2, <1>3
<1> QED
  BY <1>4, <1>5, <1>6 DEF Recorded

-----------------------------------------------------------------------------
(* The flush timer, the handshake and the close handler.                    *)
LEMMA TransportStep ==
  ASSUME DInv, FlushTimer \/ Connect \/ Closed
  PROVE  DInv'
<1>1. OutboxInv' /\ Onward /\ FramesWhole'
  BY OutboxCall DEF DInv, FlushTimer, Connect, Closed
<1>2. /\ UNCHANGED <<log, acked>>
      /\ UNCHANGED <<stream, snaps, readPos, looking, skipped, forgotten>>
      /\ UNCHANGED <<rows, down, mutations>>
  BY DEF FlushTimer, Connect, Closed, Tick, Attach, Detach, sourceVars,
         hubVars, lifeVars, linkVars
<1>3. rows' \in [Event -> {0, 1}] /\ Recorded \subseteq Recorded'
  BY <1>2, RowsSame
<1>4. AckedIsRecorded'
  BY <1>1, <1>2, <1>3, AckedStays
<1>5. /\ up \in [Sockets -> Seq(GoodFrames')]
      /\ down' \in Seq(GoodAcks') /\ mutations' \in Seq(Calls')
      /\ up' = up => up' \in [Sockets -> Seq(GoodFrames')]
  BY <1>1, <1>2, <1>3, LinksStay DEF DInv
<1>6. out' \subseteq GoodFrames' /\ IsFiniteSet(out')
  <2>1. (OutboxInv /\ FramesWhole)' => (out \subseteq GoodFrames /\ IsFiniteSet(out))'
    BY FramesGood, PTL
  <2> QED
    BY <1>1, <2>1
<1>7. up' \in [Sockets -> Seq(GoodFrames')]
  <2>1. CASE FlushTimer
    <3>1. SendOut
      BY <2>1 DEF FlushTimer
    <3> QED
      BY <1>5, <1>6, <3>1, Sent
  <2>2. CASE Connect
    <3>1. PICK frames \in InBatchOrder(out') : up' = [up EXCEPT ![sock + 1] = frames]
      BY <2>2 DEF Connect
    <3>2. frames \in Seq(GoodFrames')
      BY <1>6, InOrderIsSeq, SeqOver
    <3> QED
      BY <1>5, <3>1, <3>2
  <2>3. CASE Closed
    BY <1>5, <2>3 DEF Closed, linkVars
  <2> QED
    BY <2>1, <2>2, <2>3
<1> QED
  BY <1>1, <1>2, <1>3, <1>4, <1>5, <1>7, Calm

(* An events_ack is applied: what it acks is recorded.                      *)
LEMMA AckArrivesStep ==
  ASSUME DInv, AckArrives
  PROVE  DInv'
<1> DEFINE id == Head(down)
<1>1. /\ Ack(id)
      /\ down # <<>> /\ down' = Tail(down)
      /\ UNCHANGED <<up, mutations, rows>>
      /\ UNCHANGED <<stream, snaps, readPos, looking, skipped, forgotten>>
  BY DEF AckArrives, sourceVars, hubVars, lifeVars
<1>2. OutboxInv' /\ Onward
  BY <1>1, OutboxCall DEF DInv
<1>3. rows' \in [Event -> {0, 1}] /\ Recorded \subseteq Recorded'
  BY <1>1, RowsSame
<1>4. /\ up' \in [Sockets -> Seq(GoodFrames')]
      /\ down \in Seq(GoodAcks')
      /\ mutations' \in Seq(Calls')
  BY <1>1, <1>2, <1>3, LinksStay DEF DInv
<1>5. down' \in Seq(GoodAcks')
  BY <1>1, <1>4
<1>6. id \in GoodAcks
  BY <1>1 DEF DInv, LinksOK
<1> HIDE DEF id
<1>7. log' = log /\ AckedIsRecorded'
  <2>1. CASE AckUnknown(id)
    <3>1. acked' = acked /\ log' = log
      BY <2>1 DEF AckUnknown
    <3> QED
      BY <1>2, <1>3, <3>1, AckedStays
  <2>2. CASE AckKnown(id)
    <3>1. log' = log
      BY <2>2, AckHeld DEF DInv
    <3>2. acked' = acked \cup {unacked[i].ref : i \in Positions(unacked, id)}
      BY <2>2, AckHeld DEF DInv
    <3>3. \A i \in Positions(unacked, id) : log[unacked[i].ref] \in Recorded
      BY <1>6 DEF GoodAcks, Positions
    <3>4. \A r \in acked : log[r] \in Recorded
      BY DEF DInv, AckedIsRecorded, EventsOf
    <3>5. \A r \in acked' : log'[r] \in Recorded'
      BY <1>3, <3>1, <3>2, <3>3, <3>4
    <3> QED
      BY <3>1, <3>5 DEF AckedIsRecorded, EventsOf
  <2> QED
    BY <1>1, <2>1, <2>2 DEF Ack
<1> QED
  BY <1>1, <1>2, <1>3, <1>4, <1>5, <1>7, Calm

(* A restart begins, a socket breaks or loses what it carried.              *)
LEMMA BreakStep ==
  ASSUME DInv,
         \/ \E q \in Queue : RestartBegins(q)
         \/ Break
         \/ \E s \in Sockets : LosePipe(s)
  PROVE  DInv'
<1>1. /\ OutboxIdle
      /\ UNCHANGED <<mutations, rows>>
      /\ UNCHANGED <<stream, snaps, readPos, looking, skipped, forgotten>>
  BY DEF RestartBegins, Break, LosePipe, linkVars, sourceVars, hubVars, lifeVars
<1>2. OutboxInv' /\ Onward /\ log' = log /\ acked' = acked
  BY <1>1, Idle
<1>3. rows' \in [Event -> {0, 1}] /\ Recorded \subseteq Recorded'
  BY <1>1, RowsSame
<1>4. AckedIsRecorded'
  BY <1>2, <1>3, AckedStays
<1>5. /\ up \in [Sockets -> Seq(GoodFrames')]
      /\ down \in Seq(GoodAcks')
      /\ mutations' \in Seq(Calls')
  BY <1>1, <1>2, <1>3, LinksStay DEF DInv
<1>6. up' \in [Sockets -> Seq(GoodFrames')] /\ down' \in Seq(GoodAcks')
  <2>1. CASE \E q \in Queue : RestartBegins(q)
    BY <1>5, <2>1 DEF RestartBegins, linkVars
  <2>2. CASE Break
    BY <1>5, <2>2 DEF Break
  <2>3. CASE \E s \in Sockets : LosePipe(s)
    <3>1. PICK s \in Sockets : up' = [up EXCEPT ![s] = <<>>] /\ down' = down
      BY <2>3 DEF LosePipe
    <3> QED
      BY <1>5, <3>1
  <2> QED
    BY <2>1, <2>2, <2>3
<1> QED
  BY <1>1, <1>2, <1>3, <1>4, <1>5, <1>6, Calm

(* The gateway takes a frame from a socket and calls recordBatch with it.   *)
LEMMA ReceiveStep ==
  ASSUME DInv, NEW s \in Sockets, GatewayReceives(s)
  PROVE  DInv'
<1>1. /\ OutboxIdle
      /\ up[s] # <<>>
      /\ mutations' = Append(mutations, [sock |-> s, frame |-> Head(up[s])])
      /\ up' = [up EXCEPT ![s] = Tail(@)]
      /\ UNCHANGED <<down, rows>>
      /\ UNCHANGED <<stream, snaps, readPos, looking, skipped, forgotten>>
  BY DEF GatewayReceives, sourceVars, lifeVars
<1>2. OutboxInv' /\ Onward /\ log' = log /\ acked' = acked
  BY <1>1, Idle
<1>3. rows' \in [Event -> {0, 1}] /\ Recorded \subseteq Recorded'
  BY <1>1, RowsSame
<1>4. AckedIsRecorded'
  BY <1>2, <1>3, AckedStays
<1>5. /\ up \in [Sockets -> Seq(GoodFrames')]
      /\ down' \in Seq(GoodAcks')
      /\ mutations \in Seq(Calls')
  BY <1>1, <1>2, <1>3, LinksStay DEF DInv
<1>6. up[s] \in Seq(GoodFrames')
  BY <1>5
<1>7. Head(up[s]) \in GoodFrames' /\ Tail(up[s]) \in Seq(GoodFrames')
  BY <1>1, <1>6
<1>8. up' \in [Sockets -> Seq(GoodFrames')]
  BY <1>1, <1>5, <1>7
<1>9. [sock |-> s, frame |-> Head(up[s])] \in Calls'
  BY <1>7 DEF Calls, Sockets
<1>10. mutations' \in Seq(Calls')
  BY <1>1, <1>5, <1>9, AppendProperties
<1> QED
  BY <1>1, <1>2, <1>3, <1>4, <1>5, <1>8, <1>10, Calm

(* A recordBatch call ends, well or badly.  It is acked only when the       *)
(* events of its frame are in the table.                                    *)
LEMMA RecordStep ==
  ASSUME DInv, RecordBatch \/ RecordFails
  PROVE  DInv'
<1> DEFINE m == Head(mutations)
<1>1. /\ OutboxIdle
      /\ mutations # <<>> /\ mutations' = Tail(mutations)
      /\ rows' = rows \/ rows' = Inserted(m.frame)
      /\ UNCHANGED up
      /\ UNCHANGED <<stream, snaps, readPos, looking, skipped, forgotten>>
  BY DEF RecordBatch, RecordFails, sourceVars, lifeVars, linkVars
<1>2. OutboxInv' /\ Onward /\ log' = log /\ acked' = acked
  BY <1>1, Idle
<1>3. m \in Calls /\ m.frame \in GoodFrames
  <2>1. m \in Calls
    BY <1>1 DEF DInv, LinksOK
  <2> QED
    BY <2>1 DEF Calls
<1> HIDE DEF m
<1>4. rows' \in [Event -> {0, 1}] /\ Recorded \subseteq Recorded'
  BY <1>1, <1>3, RowsSame, RowsInserted
<1>5. AckedIsRecorded'
  BY <1>2, <1>4, AckedStays
<1>6. /\ up' \in [Sockets -> Seq(GoodFrames')]
      /\ down \in Seq(GoodAcks')
      /\ mutations \in Seq(Calls')
  BY <1>1, <1>2, <1>4, LinksStay DEF DInv
<1>7. mutations' \in Seq(Calls')
  BY <1>1, <1>6
<1>8. down' \in Seq(GoodAcks')
  <2>1. CASE RecordFails
    BY <1>6, <2>1 DEF RecordFails, linkVars
  <2>2. CASE RecordBatch
    <3>1. rows' = Inserted(m.frame) /\ AckFrame(m)
      BY <2>2 DEF RecordBatch, m
    <3>2. EventsOf(m.frame.refs) \subseteq Recorded'
      BY <1>3, <3>1, RowsInserted
    <3>3. m.frame \in GoodFrames'
      BY <1>2, <1>3, FramesStayGood DEF DInv
    <3>4. m.frame.batch \in GoodAcks'
      <4>1. /\ m.frame.batch \in Nat /\ m.frame.batch < nextBatch'
            /\ \A i \in DOMAIN unacked' :
                 unacked'[i].batch = m.frame.batch => unacked'[i].ref \in m.frame.refs
        BY <3>3 DEF GoodFrames
      <4>2. \A r \in m.frame.refs : log'[r] \in Recorded'
        BY <1>2, <3>2 DEF EventsOf
      <4> QED
        BY <4>1, <4>2 DEF GoodAcks
    <3>5. down' = down \/ down' = Append(down, m.frame.batch)
      BY <3>1 DEF AckFrame
    <3> QED
      BY <1>6, <3>4, <3>5, AppendProperties
  <2> QED
    BY <2>1, <2>2
<1> QED
  BY <1>1, <1>2, <1>4, <1>5, <1>6, <1>7, <1>8, Calm

(* The gateway dies: what it was sent or was to send is gone, except the    *)
(* call Convex may still run.                                               *)
LEMMA GatewayCrashStep ==
  ASSUME DInv, GatewayCrash
  PROVE  DInv'
<1>1. /\ OutboxIdle
      /\ up' = [s \in Sockets |-> <<>>] /\ down' = <<>> /\ mutations' = <<>>
      /\ UNCHANGED <<stream, snaps, readPos, looking, skipped, forgotten>>
  BY DEF GatewayCrash, sourceVars
<1>0. \/ rows' = rows
      \/ mutations # <<>> /\ rows' = Inserted(Head(mutations).frame)
  BY DEF GatewayCrash
<1>2. OutboxInv' /\ Onward /\ log' = log /\ acked' = acked
  BY <1>1, Idle
<1>3. ASSUME mutations # <<>> PROVE Head(mutations).frame \in GoodFrames
  <2>1. Head(mutations) \in Calls
    BY <1>3 DEF DInv, LinksOK
  <2> QED
    BY <2>1 DEF Calls
<1>4. rows' \in [Event -> {0, 1}] /\ Recorded \subseteq Recorded'
  BY <1>0, <1>3, RowsSame, RowsInserted
<1>5. AckedIsRecorded'
  BY <1>2, <1>4, AckedStays
<1>6. /\ up' \in [Sockets -> Seq(GoodFrames')]
      /\ down' \in Seq(GoodAcks') /\ mutations' \in Seq(Calls')
  BY <1>1
<1> QED
  BY <1>1, <1>2, <1>4, <1>5, <1>6, Calm

(* An event that happened later is produced as well.                        *)
LEMMA ProducedMore ==
  ASSUME DInv, NEW q \in Queue,
         \/ stream' = [stream EXCEPT ![q] = @ + 1] /\ snaps' = snaps
         \/ snaps' = [snaps EXCEPT ![q] = @ + 1] /\ stream' = stream
  PROVE  Produced \subseteq Produced'
<1>1. \A p \in Queue : /\ stream[p] \in Nat /\ snaps[p] \in Nat
                       /\ stream[p] <= stream'[p] /\ snaps[p] <= snaps'[p]
                       /\ stream'[p] \in Nat /\ snaps'[p] \in Nat
  <2>1. /\ stream \in [Queue -> 0 .. MaxStream]
        /\ snaps \in [Queue -> 0 .. MaxSnapshots]
    BY DEF DInv, SourcesOK
  <2>2. \A p \in Queue : stream[p] \in Nat /\ snaps[p] \in Nat
    BY <2>1
  <2>3. CASE stream' = [stream EXCEPT ![q] = @ + 1] /\ snaps' = snaps
    BY <2>1, <2>2, <2>3
  <2>4. CASE snaps' = [snaps EXCEPT ![q] = @ + 1] /\ stream' = stream
    BY <2>1, <2>2, <2>4
  <2> QED
    BY <2>3, <2>4
<1>2. ASSUME NEW e \in Produced PROVE e \in Produced'
  <2>1. e \in Event /\ e.queue \in Queue /\ e.n \in Nat
    BY OutboxAssumption DEF Produced, Event
  <2>2. CASE e.kind = "terminal"
    <3>1. e.n <= stream[e.queue]
      BY <2>2 DEF Produced
    <3>2. e.n <= stream'[e.queue]
      BY <1>1, <2>1, <3>1
    <3> QED
      BY <2>1, <2>2, <3>2 DEF Produced
  <2>3. CASE e.kind # "terminal"
    <3>1. e.n <= snaps[e.queue]
      BY <2>3 DEF Produced
    <3>2. e.n <= snaps'[e.queue]
      BY <1>1, <2>1, <3>1
    <3> QED
      BY <2>1, <2>3, <3>2 DEF Produced
  <2> QED
    BY <2>2, <2>3
<1> QED
  BY <1>2

(* A step that may enqueue, look up or produce an event, but only links and *)
(* outbox move otherwise.                                                   *)
LEMMA Busy ==
  ASSUME DInv, OutboxInv', Onward, FramesWhole', SourcesOK',
         UNCHANGED <<readPos, acked, rows, down, mutations, skipped, forgotten>>,
         up' = up \/ SendOut,
         LookedUp \subseteq Coverage', LookedUp' \subseteq LookedUp,
         \A r \in (Len(log) + 1) .. Len(log') :
           log'[r] \in LookedUp \/ log'[r].kind # "terminal"
  PROVE  DInv'
<1>1. rows' \in [Event -> {0, 1}] /\ Recorded \subseteq Recorded'
  BY RowsSame
<1>2. AckedIsRecorded'
  BY <1>1, AckedStays
<1>3. /\ up \in [Sockets -> Seq(GoodFrames')]
      /\ down' \in Seq(GoodAcks') /\ mutations' \in Seq(Calls')
  BY <1>1, LinksStay DEF DInv
<1>4. out' \subseteq GoodFrames' /\ IsFiniteSet(out')
  <2>1. (OutboxInv /\ FramesWhole)' => (out \subseteq GoodFrames /\ IsFiniteSet(out))'
    BY FramesGood, PTL
  <2> QED
    BY <2>1
<1>5. up' \in [Sockets -> Seq(GoodFrames')]
  BY <1>3, <1>4, Sent
<1>6. LinksOK'
  BY <1>3, <1>5 DEF LinksOK
<1>7. Coverage \subseteq Coverage'
  BY <1>1, <1>2, Covering
<1>8. \A q \in Queue : Marks(q)' \subseteq Marks(q)
  BY MarksStay
<1>9. ReadersOK'
  BY <1>7, <1>8, ReadersMove
<1> QED
  BY <1>2, <1>6, <1>9 DEF DInv

(* A job ends.                                                              *)
LEMMA JobEndsStep ==
  ASSUME DInv, NEW q \in Queue, JobEnds(q)
  PROVE  DInv'
<1>1. /\ OutboxIdle
      /\ stream[q] < MaxStream
      /\ stream' = [stream EXCEPT ![q] = @ + 1] /\ snaps' = snaps
      /\ UNCHANGED <<readPos, looking, rows, up, down, mutations, skipped,
                     forgotten>>
  BY DEF JobEnds, linkVars, hubVars, lifeVars
<1>2. OutboxInv' /\ Onward /\ log' = log /\ acked' = acked /\ FramesWhole'
  BY <1>1, Idle, WholeFrames DEF OutboxIdle
<1>3. Produced \subseteq Produced'
  BY <1>1, ProducedMore
<1>4. stream' \in [Queue -> 0 .. MaxStream]
  <2>1. stream \in [Queue -> 0 .. MaxStream]
    BY DEF DInv, SourcesOK
  <2>2. stream[q] + 1 \in 0 .. MaxStream
    BY <1>1, <2>1, OutboxAssumption
  <2> QED
    BY <1>1, <2>1, <2>2
<1>5. \A r \in (Len(log) + 1) .. Len(log') : FALSE
  BY <1>2 DEF DInv, OutboxInv, TypeOK
<1>6. SourcesOK'
  <2>1. /\ snaps' \in [Queue -> 0 .. MaxSnapshots]
        /\ readPos' \in [Queue -> Nat] /\ rows' \in [Event -> {0, 1}]
        /\ \A x \in looking' : x.event \in Produced'
    BY <1>1, <1>3 DEF DInv, SourcesOK
  <2> QED
    BY <1>1, <1>2, <1>3, <1>4, <1>5, <2>1, SourcesMove
<1>7. LookedUp' = LookedUp /\ LookedUp \subseteq Coverage'
  BY <1>1 DEF LookedUp, Coverage
<1> QED
  BY <1>1, <1>2, <1>5, <1>6, <1>7, Busy

(* A snapshot is taken and enqueued.                                        *)
LEMMA TakeSnapshotStep ==
  ASSUME DInv, NEW q \in Queue, TakeSnapshot(q)
  PROVE  DInv'
<1> DEFINE e == Snapshot(q, snaps[q] + 1)
<1>1. /\ snaps[q] < MaxSnapshots
      /\ Enqueue(e)
      /\ SendOut
      /\ snaps' = [snaps EXCEPT ![q] = @ + 1] /\ stream' = stream
      /\ UNCHANGED <<readPos, looking, rows, down, mutations, skipped,
                     forgotten>>
  BY DEF TakeSnapshot, hubVars, lifeVars
<1>2. snaps \in [Queue -> 0 .. MaxSnapshots] /\ MaxSnapshots \in 0 .. MaxStream
  BY DeliveryAssumption DEF DInv, SourcesOK
<1>3. snaps[q] + 1 \in 0 .. MaxSnapshots /\ snaps[q] + 1 \in 1 .. MaxStream
  BY <1>1, <1>2, OutboxAssumption
<1>4. e \in Event
  BY <1>3 DEF Event, Snapshot
<1>5. /\ OutboxInv' /\ Onward /\ FramesWhole'
      /\ Len(log') = Len(log) + 1 /\ Len(log) \in Nat
      /\ log'[Len(log) + 1] = e
  BY <1>1, <1>4, EnqueueHeld DEF DInv
<1>6. acked' = acked
  BY <1>1 DEF Enqueue
<1>7. Produced \subseteq Produced'
  BY <1>1, ProducedMore
<1>8. e \in Produced'
  <2>1. e.kind # "terminal" /\ e.queue = q /\ e.n = snaps'[q]
    BY <1>1, <1>2 DEF Snapshot
  <2>2. snaps'[q] \in Nat /\ e.n <= snaps'[q]
    BY <1>1, <1>2, <1>3, <2>1
  <2> QED
    BY <1>4, <2>1, <2>2 DEF Produced
<1>9. \A r \in (Len(log) + 1) .. Len(log') : log'[r] = e
  <2>1. \A r \in (Len(log) + 1) .. (Len(log) + 1) : r = Len(log) + 1
    BY <1>5
  <2> QED
    BY <1>5, <2>1
<1>10. SourcesOK'
  <2>1. /\ stream' \in [Queue -> 0 .. MaxStream]
        /\ readPos' \in [Queue -> Nat] /\ rows' \in [Event -> {0, 1}]
        /\ \A x \in looking' : x.event \in Produced'
    BY <1>1, <1>7 DEF DInv, SourcesOK
  <2>2. snaps' \in [Queue -> 0 .. MaxSnapshots]
    BY <1>1, <1>2, <1>3
  <2>3. \A r \in (Len(log) + 1) .. Len(log') : log'[r] \in Produced'
    BY <1>8, <1>9
  <2> QED
    BY <1>1, <1>5, <1>7, <2>1, <2>2, <2>3, SourcesMove
<1>11. LookedUp' = LookedUp /\ LookedUp \subseteq Coverage'
  BY <1>1 DEF LookedUp, Coverage
<1>12. \A r \in (Len(log) + 1) .. Len(log') : log'[r].kind # "terminal"
  BY <1>9 DEF Snapshot
<1> QED
  BY <1>1, <1>5, <1>6, <1>10, <1>11, <1>12, Busy

(* A lookup ends and its event is enqueued: it is held now, or dropped.     *)
LEMMA LookupDoneStep ==
  ASSUME DInv, NEW x \in looking, LookupDone(x)
  PROVE  DInv'
<1>1. /\ Enqueue(x.event)
      /\ SendOut
      /\ looking' = looking \ {x}
      /\ UNCHANGED <<stream, snaps, readPos, rows, down, mutations, skipped,
                     forgotten>>
  BY DEF LookupDone, hubVars, lifeVars
<1>2. x.event \in Produced /\ x.event \in Event /\ x.event \in LookedUp
  BY DEF DInv, SourcesOK, Produced, LookedUp
<1>3. /\ OutboxInv' /\ Onward /\ FramesWhole'
      /\ Len(log') = Len(log) + 1 /\ Len(log) \in Nat
      /\ log'[Len(log) + 1] = x.event
  BY <1>1, <1>2, EnqueueHeld DEF DInv
<1>4. acked' = acked /\ Produced' = Produced
  BY <1>1 DEF Enqueue, Produced
<1>5. \A r \in (Len(log) + 1) .. Len(log') : log'[r] = x.event
  <2>1. \A r \in (Len(log) + 1) .. (Len(log) + 1) : r = Len(log) + 1
    BY <1>3
  <2> QED
    BY <1>3, <2>1
<1>6. SourcesOK'
  <2>1. /\ stream' \in [Queue -> 0 .. MaxStream]
        /\ snaps' \in [Queue -> 0 .. MaxSnapshots]
        /\ readPos' \in [Queue -> Nat] /\ rows' \in [Event -> {0, 1}]
        /\ \A y \in looking' : y.event \in Produced'
        /\ Produced \subseteq Produced'
    BY <1>1, <1>4 DEF DInv, SourcesOK
  <2>2. \A r \in (Len(log) + 1) .. Len(log') : log'[r] \in Produced'
    BY <1>2, <1>4, <1>5
  <2> QED
    BY <1>1, <1>3, <2>1, <2>2, SourcesMove
<1>7. Len(log) + 1 \in HeldRefs' \cup dropped'
  <2>1. \E D : /\ dropped' = dropped \cup D
               /\ HeldRefs \cup {Len(log) + 1} = HeldRefs' \cup D
    BY <1>1, <1>2, EnqueueHeld DEF DInv
  <2> QED
    BY <2>1
<1>8. LookedUp' \subseteq LookedUp /\ LookedUp \subseteq LookedUp' \cup {x.event}
  BY <1>1 DEF LookedUp
<1>9. x.event \in EventsOf(HeldRefs \cup dropped \cup forgotten)'
  BY <1>3, <1>7 DEF EventsOf
<1>10. LookedUp \subseteq Coverage'
  BY <1>8, <1>9 DEF Coverage
<1> QED
  BY <1>1, <1>2, <1>3, <1>4, <1>5, <1>6, <1>8, <1>10, Busy

-----------------------------------------------------------------------------
(* The steps of the readers: the outbox is idle, nothing is recorded or     *)
(* sent, and only looking, readPos and skipped change.                      *)
LEMMA ReaderStep ==
  ASSUME DInv, OutboxIdle,
         UNCHANGED <<stream, snaps, rows, up, down, mutations, forgotten>>,
         readPos' \in [Queue -> Nat], skipped \subseteq skipped',
         looking \subseteq looking', \A x \in looking' : x.event \in Produced,
         \A q \in Queue : \A m \in Marks(q)' :
           \/ m \in Marks(q)
           \/ \A i \in 1 .. m :
                Terminal(q, i) \in Coverage \cup LookedUp' \cup skipped'
  PROVE  DInv'
<1>1. OutboxInv' /\ Onward /\ log' = log /\ acked' = acked
  BY Idle
<1>2. rows' \in [Event -> {0, 1}] /\ Recorded \subseteq Recorded'
  BY RowsSame
<1>3. AckedIsRecorded'
  BY <1>1, <1>2, AckedStays
<1>4. LinksOK'
  <2>1. /\ up' \in [Sockets -> Seq(GoodFrames')]
        /\ down' \in Seq(GoodAcks') /\ mutations' \in Seq(Calls')
    BY <1>1, <1>2, LinksStay DEF DInv
  <2> QED
    BY <2>1 DEF LinksOK
<1>5. Produced' = Produced
  BY DEF Produced
<1>6. SourcesOK'
  <2>1. \A r \in (Len(log) + 1) .. Len(log') : FALSE
    BY <1>1 DEF DInv, OutboxInv, TypeOK
  <2>2. /\ stream' \in [Queue -> 0 .. MaxStream]
        /\ snaps' \in [Queue -> 0 .. MaxSnapshots]
    BY DEF DInv, SourcesOK
  <2> QED
    BY <1>1, <1>2, <1>5, <2>1, <2>2, SourcesMove
<1>7. LookedUp \subseteq LookedUp' /\ LookedUp' \subseteq Coverage'
      /\ skipped' \subseteq Coverage'
  BY DEF LookedUp, Coverage
<1>8. Coverage \subseteq Coverage'
  BY <1>1, <1>2, <1>3, <1>7, Covering
<1>9. ReadersOK'
  BY <1>7, <1>8, ReadersMove
<1> QED
  BY <1>1, <1>3, <1>4, <1>6, <1>9 DEF DInv

(* What is held, and the cursors, stay in an idle step.                     *)
LEMMA IdleMarks ==
  ASSUME DInv, OutboxIdle, NEW q \in Queue, NEW m \in Marks(q)'
  PROVE  \/ m \in Marks(q) \/ m = readPos'[q]
         \/ m \in 1 .. MaxStream /\ Terminal(q, m) \in LookedUp'
<1>1. HeldRefs' = HeldRefs /\ cursor' = cursor /\ log' = log
  BY Idle
<1>2. EventsOf(HeldRefs)' = EventsOf(HeldRefs)
  BY <1>1 DEF EventsOf
<1> QED
  BY <1>1, <1>2 DEF Marks

(* QueueEvents emits the next entry: it is looked up, and all before it are *)
(* accounted for.                                                           *)
LEMMA ReadEntryStep ==
  ASSUME DInv, NEW q \in Queue, ReadEntry(q)
  PROVE  DInv'
<1> DEFINE n == readPos[q] + 1
           x == [event |-> Terminal(q, n), gen |-> restarts]
<1>1. /\ OutboxIdle
      /\ readPos[q] < stream[q]
      /\ readPos' = [readPos EXCEPT ![q] = n]
      /\ looking' = looking \cup {x}
      /\ skipped' = skipped
      /\ UNCHANGED <<stream, snaps, rows, up, down, mutations, forgotten>>
  BY DEF ReadEntry, linkVars, hubVars, lifeVars
<1>2. /\ readPos \in [Queue -> Nat] /\ stream \in [Queue -> 0 .. MaxStream]
      /\ \A y \in looking : y.event \in Produced
  BY DEF DInv, SourcesOK
<1>3. n \in 1 .. MaxStream /\ n <= stream[q] /\ readPos[q] \in Nat
  BY <1>1, <1>2, OutboxAssumption
<1>4. Terminal(q, n) \in Produced
  BY <1>3 DEF Terminal, Produced, Event
<1>5. LookedUp' = LookedUp \cup {Terminal(q, n)}
  <2>1. x.event = Terminal(q, n)
    OBVIOUS
  <2> HIDE DEF x
  <2> QED
    BY <1>1, <2>1 DEF LookedUp
<1>6. \A y \in looking' : y.event \in Produced
  BY <1>1, <1>2, <1>4
<1>7. readPos' \in [Queue -> Nat]
  BY <1>1, <1>2, <1>3
<1>8. \A i \in 1 .. n : Terminal(q, i) \in Coverage \cup LookedUp'
  <2>1. \A i \in 1 .. readPos[q] : Terminal(q, i) \in Coverage
    BY DEF DInv, ReadersOK, Marks
  <2>2. \A i \in 1 .. n : i \in 1 .. readPos[q] \/ i = n
    BY <1>3
  <2> QED
    BY <1>5, <2>1, <2>2
<1> HIDE DEF n, x
<1>9. ASSUME NEW p \in Queue, NEW m \in Marks(p)', m \notin Marks(p)
      PROVE  p = q /\ m = n
  <2>1. CASE m = readPos'[p]
    <3>1. readPos[p] \in Marks(p)
      BY DEF Marks
    <3> QED
      BY <1>1, <1>2, <1>9, <2>1, <3>1
  <2>2. CASE m \in 1 .. MaxStream /\ Terminal(p, m) \in LookedUp'
    <3>1. Terminal(p, m) \notin LookedUp
      BY <1>9, <2>2 DEF Marks
    <3>2. Terminal(p, m) = Terminal(q, n)
      BY <1>5, <2>2, <3>1
    <3> QED
      BY <3>2 DEF Terminal
  <2> QED
    BY <1>1, <1>9, <2>1, <2>2, IdleMarks
<1>10. \A p \in Queue : \A m \in Marks(p)' :
         \/ m \in Marks(p)
         \/ \A i \in 1 .. m :
              Terminal(p, i) \in Coverage \cup LookedUp' \cup skipped'
  BY <1>8, <1>9
<1> QED
  BY <1>1, <1>6, <1>7, <1>10, ReaderStep

(* Where a new reader starts, everything below is accounted for, or is one  *)
(* of the entries it passes.                                                *)
LEMMA StartCovered ==
  ASSUME DInv, NEW q \in Queue, NEW i \in 1 .. StartPosition(q)
  PROVE  Terminal(q, i) \in Coverage \cup Passed(q)
<1>1. CASE cursor[q] # 0
  BY <1>1 DEF StartPosition, DInv, ReadersOK, Marks
<1>2. CASE cursor[q] = 0
  <2>1. i \in 1 .. stream[q]
    BY <1>2 DEF StartPosition
  <2>2. readPos[q] \in Nat /\ stream[q] \in Nat
    BY DEF DInv, SourcesOK
  <2>3. i \in 1 .. readPos[q] \/ i \in (readPos[q] + 1) .. stream[q]
    BY <2>1, <2>2
  <2>4. CASE i \in 1 .. readPos[q]
    BY <2>4 DEF DInv, ReadersOK, Marks
  <2>5. CASE i \in (readPos[q] + 1) .. stream[q]
    BY <1>2, <2>5 DEF Passed
  <2> QED
    BY <2>3, <2>4, <2>5
<1> QED
  BY <1>1, <1>2

LEMMA StartIsNat ==
  ASSUME DInv, NEW q \in Queue
  PROVE  StartPosition(q) \in Nat
BY DEF DInv, SourcesOK, OutboxInv, TypeOK, StartPosition

(* restartQueue ends: a new reader, behind the cursor or at the end.        *)
LEMMA RestartEndsStep ==
  ASSUME DInv, NEW q \in Queue, RestartEnds(q)
  PROVE  DInv'
<1>1. /\ OutboxIdle
      /\ readPos' = [readPos EXCEPT ![q] = StartPosition(q)]
      /\ skipped' = skipped \cup Passed(q)
      /\ looking' = looking
      /\ UNCHANGED <<stream, snaps, rows, up, down, mutations, forgotten>>
  BY DEF RestartEnds, linkVars, hubVars, lifeVars
<1>2. readPos \in [Queue -> Nat] /\ \A x \in looking : x.event \in Produced
  BY DEF DInv, SourcesOK
<1>3. readPos' \in [Queue -> Nat]
  BY <1>1, <1>2, StartIsNat
<1>4. LookedUp' = LookedUp
  BY <1>1 DEF LookedUp
<1>5. ASSUME NEW p \in Queue, NEW m \in Marks(p)', m \notin Marks(p)
      PROVE  p = q /\ m = StartPosition(q)
  <2>1. m = readPos'[p]
    BY <1>1, <1>4, <1>5, IdleMarks DEF Marks
  <2>2. readPos[p] \in Marks(p)
    BY DEF Marks
  <2> QED
    BY <1>1, <1>2, <1>5, <2>1, <2>2
<1>6. \A i \in 1 .. StartPosition(q) : Terminal(q, i) \in Coverage \cup skipped'
  BY <1>1, StartCovered
<1>7. \A p \in Queue : \A m \in Marks(p)' :
         \/ m \in Marks(p)
         \/ \A i \in 1 .. m :
              Terminal(p, i) \in Coverage \cup LookedUp' \cup skipped'
  BY <1>5, <1>6
<1> QED
  BY <1>1, <1>2, <1>3, <1>7, ReaderStep

(* startIngest in a new process: a new reader on every queue.               *)
LEMMA BootStep ==
  ASSUME DInv, Boot
  PROVE  DInv'
<1>1. /\ OutboxIdle
      /\ readPos' = [q \in Queue |-> StartPosition(q)]
      /\ skipped' = skipped \cup UNION {Passed(q) : q \in Queue}
      /\ looking' = looking
      /\ UNCHANGED <<stream, snaps, rows, up, down, mutations, forgotten>>
  BY DEF Boot, linkVars, hubVars
<1>2. \A x \in looking' : x.event \in Produced
  BY <1>1 DEF DInv, SourcesOK
<1>3. readPos' \in [Queue -> Nat]
  BY <1>1, StartIsNat
<1>4. LookedUp' = LookedUp
  BY <1>1 DEF LookedUp
<1>5. ASSUME NEW p \in Queue, NEW m \in Marks(p)', m \notin Marks(p)
      PROVE  m = StartPosition(p)
  BY <1>1, <1>4, <1>5, IdleMarks DEF Marks
<1>6. \A p \in Queue : \A i \in 1 .. StartPosition(p) :
        Terminal(p, i) \in Coverage \cup skipped'
  <2>1. \A p \in Queue : Passed(p) \subseteq skipped'
    BY <1>1
  <2> QED
    BY <2>1, StartCovered
<1>7. \A p \in Queue : \A m \in Marks(p)' :
         \/ m \in Marks(p)
         \/ \A i \in 1 .. m :
              Terminal(p, i) \in Coverage \cup LookedUp' \cup skipped'
  BY <1>5, <1>6
<1> QED
  BY <1>1, <1>2, <1>3, <1>7, ReaderStep

(* The connector dies: what the outbox held is forgotten, what was looked   *)
(* up is skipped, and no cursor is left.                                    *)
LEMMA ConnectorCrashStep ==
  ASSUME DInv, ConnectorCrash
  PROVE  DInv'
<1>1. /\ buffer' = <<>> /\ unacked' = <<>>
      /\ cursor' = [q \in Queue |-> 0]
      /\ attached' = FALSE /\ ticking' = TRUE
      /\ forgotten' = forgotten \cup HeldRefs
      /\ skipped' = skipped \cup LookedUp
      /\ looking' = {}
      /\ down' = <<>>
      /\ UNCHANGED <<log, nextBatch, acked, dropped>>
      /\ UNCHANGED <<stream, snaps, readPos, up, mutations, rows>>
  BY DEF ConnectorCrash, hubVars, LookedUp
<1>2. /\ DOMAIN unacked' = {} /\ DOMAIN buffer' = {}
      /\ Len(unacked') = 0 /\ Len(buffer') = 0
  BY <1>1
<1>3. HeldRefs' = {}
  <2>1. \A r : r \notin Refs(unacked', buffer')
    BY <1>2, InRefs
  <2> QED
    BY <2>1 DEF HeldRefs
<1>4. OutboxInv'
  <2>1. TypeOK'
    <3>1. unacked' \in Seq(Entry) /\ buffer' \in Seq(Nat)
      BY <1>1
    <3>2. cursor' \in [Queue -> 0 .. MaxStream]
      BY <1>1, OutboxAssumption
    <3>3. /\ log' \in Seq(Event) /\ nextBatch' \in Nat \ {0}
          /\ attached' \in BOOLEAN /\ ticking' \in BOOLEAN
          /\ acked' \subseteq 1 .. Len(log') /\ dropped' \subseteq 1 .. Len(log')
      BY <1>1 DEF DInv, OutboxInv, TypeOK
    <3>4. \A i \in DOMAIN unacked' : unacked'[i].batch \in 1 .. (nextBatch' - 1)
      BY <1>2
    <3> QED
      BY <3>1, <3>2, <3>3, <3>4 DEF TypeOK
  <2>2. WithinCapacity'
    BY <1>2, OutboxAssumption DEF WithinCapacity
  <2>3. ArrivalOrder' /\ BatchesFit(unacked')
    BY <1>2 DEF ArrivalOrder, InOrder, BatchesFit
  <2> QED
    BY <1>3, <2>1, <2>2, <2>3 DEF OutboxInv
<1>5. rows' \in [Event -> {0, 1}] /\ Recorded' = Recorded /\ Produced' = Produced
  BY <1>1 DEF DInv, SourcesOK, Recorded, Produced
<1>6. SourcesOK'
  <2>1. forgotten' \subseteq 1 .. Len(log')
    BY <1>1 DEF DInv, SourcesOK, OutboxInv
  <2> QED
    BY <1>1, <1>5, <2>1 DEF DInv, SourcesOK
<1>7. LinksOK'
  <2>1. GoodFrames \subseteq GoodFrames'
    BY <1>1, <1>2 DEF GoodFrames
  <2>2. Calls \subseteq Calls'
    BY <2>1 DEF Calls, Sockets
  <2>3. \A s \in Sockets : up[s] \in Seq(GoodFrames')
    <3>1. ASSUME NEW s \in Sockets PROVE up[s] \in Seq(GoodFrames')
      <4>1. up[s] \in Seq(GoodFrames)
        BY DEF DInv, LinksOK
      <4> QED
        BY <2>1, <4>1, SeqOver
    <3> QED
      BY <3>1
  <2>4. up' \in [Sockets -> Seq(GoodFrames')]
    BY <1>1, <2>3 DEF DInv, LinksOK
  <2>5. mutations' \in Seq(Calls')
    BY <1>1, <2>2, SeqOver DEF DInv, LinksOK
  <2>6. down' \in Seq(GoodAcks')
    BY <1>1
  <2> QED
    BY <2>4, <2>5, <2>6 DEF LinksOK
<1>8. AckedIsRecorded'
  BY <1>1, <1>5 DEF DInv, AckedIsRecorded, EventsOf
<1>9. Coverage \subseteq Coverage'
  BY <1>1, <1>5 DEF Coverage, EventsOf
<1>10. ASSUME NEW q \in Queue, NEW m \in Marks(q)'
       PROVE  m \in Marks(q) \/ \A i \in 1 .. m : Terminal(q, i) \in Coverage'
  <2>1. LookedUp' = {} /\ EventsOf(HeldRefs)' = {}
    BY <1>1, <1>3 DEF LookedUp, EventsOf
  <2>2. m = readPos'[q] \/ m = 0
    BY <1>1, <2>1 DEF Marks
  <2>3. CASE m = readPos'[q]
    BY <1>1, <2>3 DEF Marks
  <2>4. CASE m = 0
    BY <2>4
  <2> QED
    BY <2>2, <2>3, <2>4
<1>11. ReadersOK'
  BY <1>9, <1>10, ReadersMove
<1> QED
  BY <1>4, <1>6, <1>7, <1>8, <1>11 DEF DInv

(* Nothing has happened yet.                                                *)
LEMMA InitDInv == Init2 => DInv
<1> SUFFICES ASSUME Init2 PROVE DInv
  OBVIOUS
<1>1. /\ log = <<>> /\ unacked = <<>> /\ buffer = <<>> /\ acked = {}
      /\ stream = [q \in Queue |-> 0] /\ snaps = [q \in Queue |-> 0]
      /\ readPos = [q \in Queue |-> 0] /\ cursor = [q \in Queue |-> 0]
      /\ looking = {} /\ forgotten = {}
      /\ up = [s \in Sockets |-> <<>>] /\ down = <<>> /\ mutations = <<>>
      /\ rows = [e \in Event |-> 0]
  BY DEF Init2, Init
<1>2. OutboxInv
  BY InitIInv DEF Init2, IInv
<1>3. SourcesOK
  <2>1. Len(log) = 0
    BY <1>1
  <2> QED
    BY <1>1, <2>1, OutboxAssumption, DeliveryAssumption DEF SourcesOK
<1>4. LinksOK
  BY <1>1 DEF LinksOK
<1>5. AckedIsRecorded
  BY <1>1 DEF AckedIsRecorded, EventsOf
<1>6. HeldRefs = {}
  <2>1. DOMAIN unacked = {} /\ DOMAIN buffer = {}
    BY <1>1
  <2>2. \A r : r \notin Refs(unacked, buffer)
    BY <2>1, InRefs
  <2> QED
    BY <2>2 DEF HeldRefs
<1>7. \A q \in Queue : \A m \in Marks(q) : m = 0
  BY <1>1, <1>6 DEF Marks, LookedUp, EventsOf
<1>8. ReadersOK
  BY <1>7 DEF ReadersOK
<1> QED
  BY <1>2, <1>3, <1>4, <1>5, <1>8 DEF DInv

(* A step in which nothing changes.                                         *)
LEMMA StutterStep ==
  ASSUME DInv, UNCHANGED vars
  PROVE  DInv'
<1>1. /\ UNCHANGED <<log, buffer, unacked, nextBatch, cursor, acked, dropped,
                     attached, ticking>>
      /\ UNCHANGED <<stream, snaps, readPos, looking, skipped, forgotten>>
      /\ UNCHANGED <<up, down, mutations, rows>>
  BY DEF vars, outboxVars, sourceVars, linkVars, hubVars, lifeVars
<1>2. OutboxInv' /\ Onward
  <2>1. attached' \in BOOLEAN /\ ticking' \in BOOLEAN
    BY <1>1 DEF DInv, OutboxInv, TypeOK
  <2> QED
    BY <1>1, <2>1, SameOutbox DEF DInv
<1>3. rows' \in [Event -> {0, 1}] /\ Recorded \subseteq Recorded'
  BY <1>1, RowsSame
<1>4. AckedIsRecorded'
  BY <1>1, <1>2, <1>3, AckedStays
<1>5. /\ up' \in [Sockets -> Seq(GoodFrames')]
      /\ down' \in Seq(GoodAcks') /\ mutations' \in Seq(Calls')
  BY <1>1, <1>2, <1>3, LinksStay DEF DInv
<1> QED
  BY <1>1, <1>2, <1>3, <1>4, <1>5, Calm

(* Every step keeps the invariant of delivery.                              *)
LEMMA NextDInv == DInv /\ [Next2]_vars => DInv'
<1> SUFFICES ASSUME DInv, [Next2]_vars PROVE DInv'
  OBVIOUS
<1>1. ASSUME NEW q \in Queue,
             \/ JobEnds(q) \/ ReadEntry(q) \/ TakeSnapshot(q)
             \/ RestartBegins(q) \/ RestartEnds(q)
      PROVE  DInv'
  BY <1>1, JobEndsStep, ReadEntryStep, TakeSnapshotStep, BreakStep,
     RestartEndsStep
<1>2. ASSUME NEW x \in looking, LookupDone(x) PROVE DInv'
  BY <1>2, LookupDoneStep
<1>3. CASE FlushTimer \/ Connect \/ Closed
  BY <1>3, TransportStep
<1>4. CASE Break
  BY <1>4, BreakStep
<1>5. ASSUME NEW s \in Sockets, LosePipe(s) \/ GatewayReceives(s)
      PROVE  DInv'
  BY <1>5, BreakStep, ReceiveStep
<1>6. CASE RecordBatch \/ RecordFails
  BY <1>6, RecordStep
<1>7. CASE AckArrives
  BY <1>7, AckArrivesStep
<1>8. CASE GatewayCrash
  BY <1>8, GatewayCrashStep
<1>9. CASE ConnectorCrash
  BY <1>9, ConnectorCrashStep
<1>10. CASE Boot
  BY <1>10, BootStep
<1>11. CASE UNCHANGED vars
  BY <1>11, StutterStep
<1> QED
  BY <1>1, <1>2, <1>3, <1>4, <1>5, <1>6, <1>7, <1>8, <1>9, <1>10, <1>11
     DEF Next2

-----------------------------------------------------------------------------

(* The invariant of delivery holds whatever breaks, crashes or restarts.    *)
THEOREM DeliveryInvariance == DeliverySpec => []DInv
BY InitDInv, NextDInv, PTL DEF DeliverySpec

(* AckedIsRecorded: an event whose batch was acked is in ingestEvents, with *)
(* frames resent, truncated by evictions, delivered late or twice, and      *)
(* recordBatch calls that fail.                                             *)
THEOREM AckedRecorded == DeliverySpec => []AckedIsRecorded
<1>1. DInv => AckedIsRecorded
  BY DEF DInv
<1> QED
  BY <1>1, DeliveryInvariance, PTL

(* NothingVanishes: a terminal event is unread, looked up, held, recorded,  *)
(* or lost in a way the code allows; a reader restarted from a cursor that  *)
(* stands above unacked events passes nothing.                              *)
THEOREM NoneVanishes == DeliverySpec => []NothingVanishes
<1>1. DInv => NothingVanishes
  <2> SUFFICES ASSUME DInv, NEW q \in Queue, NEW i \in 1 .. stream[q]
               PROVE  i > readPos[q] \/ Terminal(q, i) \in Coverage
    BY DEF NothingVanishes, Coverage, LookedUp
  <2>1. stream[q] \in Nat /\ readPos[q] \in Nat
    BY DEF DInv, SourcesOK
  <2>2. i > readPos[q] \/ i \in 1 .. readPos[q]
    BY <2>1
  <2> QED
    BY <2>2 DEF DInv, ReadersOK, Marks
<1> QED
  BY <1>1, DeliveryInvariance, PTL

(* JobEnds and TakeSnapshot each produce one event.                         *)
LEMMA ProducedNext ==
  ASSUME DInv, NEW q \in Queue, JobEnds(q) \/ TakeSnapshot(q)
  PROVE  \E e \in Event : Ledger!Produce(e)
<1>0. /\ stream \in [Queue -> 0 .. MaxStream]
      /\ snaps \in [Queue -> 0 .. MaxSnapshots]
      /\ MaxStream \in Nat /\ MaxSnapshots \in 0 .. MaxStream
  BY OutboxAssumption, DeliveryAssumption DEF DInv, SourcesOK
<1>1. CASE JobEnds(q)
  <2> DEFINE n == stream[q] + 1
             e == Terminal(q, n)
  <2>1. /\ stream[q] < MaxStream /\ stream' = [stream EXCEPT ![q] = n]
        /\ snaps' = snaps /\ rows' = rows
    BY <1>1 DEF JobEnds, hubVars
  <2>2. n \in 1 .. MaxStream /\ stream[q] \in Nat
    BY <1>0, <2>1
  <2>3. /\ e \in Event /\ e.queue = q /\ e.kind = "terminal" /\ e.n = n
    BY <2>2 DEF Terminal, Event
  <2>4. e \notin Produced
    BY <2>2, <2>3 DEF Produced
  <2>5. ASSUME NEW d \in Event
        PROVE  d \in Produced' <=> d \in Produced \/ d = e
    <3>0. d.queue \in Queue /\ d.n \in Nat /\ d.kind \in {"terminal", "snapshot"}
      BY DEF Event
    <3>1. CASE d.queue = q /\ d.kind = "terminal"
      <4>1. d = e <=> d.n = n
        BY <2>3, <3>1 DEF Event, Terminal
      <4>2. d.n <= n <=> d.n <= stream[q] \/ d.n = n
        BY <2>2, <3>0
      <4>3. stream'[q] = n
        BY <1>0, <2>1
      <4> QED
        BY <3>1, <4>1, <4>2, <4>3 DEF Produced
    <3>2. CASE ~(d.queue = q /\ d.kind = "terminal")
      <4>1. d # e
        BY <2>3, <3>2
      <4>2. d.kind = "terminal" => stream'[d.queue] = stream[d.queue]
        BY <1>0, <2>1, <3>0, <3>2
      <4> QED
        BY <2>1, <3>0, <4>1, <4>2 DEF Produced
    <3> QED
      BY <3>1, <3>2
  <2>6. Produced' = Produced \cup {e}
    BY <2>3, <2>5 DEF Produced
  <2> QED
    BY <2>1, <2>3, <2>4, <2>6 DEF Ledger!Produce
<1>2. CASE TakeSnapshot(q)
  <2> DEFINE n == snaps[q] + 1
             e == Snapshot(q, n)
  <2>1. /\ snaps[q] < MaxSnapshots /\ snaps' = [snaps EXCEPT ![q] = n]
        /\ stream' = stream /\ rows' = rows
    BY <1>2 DEF TakeSnapshot, hubVars
  <2>2. n \in 1 .. MaxStream /\ snaps[q] \in Nat
    BY <1>0, <2>1
  <2>3. /\ e \in Event /\ e.queue = q /\ e.kind = "snapshot" /\ e.n = n
    BY <2>2 DEF Snapshot, Event
  <2>4. e \notin Produced
    BY <2>2, <2>3 DEF Produced
  <2>5. ASSUME NEW d \in Event
        PROVE  d \in Produced' <=> d \in Produced \/ d = e
    <3>0. d.queue \in Queue /\ d.n \in Nat /\ d.kind \in {"terminal", "snapshot"}
      BY DEF Event
    <3>1. CASE d.queue = q /\ d.kind = "snapshot"
      <4>1. d = e <=> d.n = n
        BY <2>3, <3>1 DEF Event, Snapshot
      <4>2. d.n <= n <=> d.n <= snaps[q] \/ d.n = n
        BY <2>2, <3>0
      <4>3. snaps'[q] = n
        BY <1>0, <2>1
      <4> QED
        BY <3>1, <4>1, <4>2, <4>3 DEF Produced
    <3>2. CASE ~(d.queue = q /\ d.kind = "snapshot")
      <4>1. d # e
        BY <2>3, <3>2
      <4>2. d.kind # "terminal" => snaps'[d.queue] = snaps[d.queue]
        BY <1>0, <2>1, <3>0, <3>2
      <4> QED
        BY <2>1, <3>0, <4>1, <4>2 DEF Produced
    <3> QED
      BY <3>1, <3>2
  <2>6. Produced' = Produced \cup {e}
    BY <2>3, <2>5 DEF Produced
  <2> QED
    BY <2>1, <2>3, <2>4, <2>6 DEF Ledger!Produce
<1> QED
  BY <1>1, <1>2

(* Inserting a good frame records events that happened and have no row yet, *)
(* or changes nothing.                                                      *)
LEMMA InsertedRecords ==
  ASSUME DInv, NEW f \in GoodFrames, rows' = Inserted(f), Produced' = Produced
  PROVE  Ledger!Next \/ UNCHANGED <<Produced, rows>>
<1> DEFINE S == {e \in EventsOf(f.refs) : rows[e] = 0}
<1>1. EventsOf(f.refs) \subseteq Produced
  BY DEF EventsOf, GoodFrames, DInv, SourcesOK
<1>2. Produced \subseteq Event
  BY DEF Produced
<1>3. rows' = [e \in Event |-> IF e \in S THEN 1 ELSE rows[e]]
  BY DEF Inserted
<1>4. rows \in [Event -> {0, 1}]
  BY DEF DInv, SourcesOK
<1>5. S \in SUBSET Event /\ S \subseteq Produced /\ \A e \in S : rows[e] = 0
  BY <1>1, <1>2
<1> HIDE DEF S
<1>6. CASE S = {}
  BY <1>3, <1>4, <1>6
<1>7. CASE S # {}
  BY <1>3, <1>5, <1>7 DEF Ledger!Next, Ledger!Record
<1> QED
  BY <1>6, <1>7

(* Each step of delivery is a step of the ledger or leaves it alone.        *)
LEMMA LedgerStep ==
  DInv /\ [Next2]_vars => [Ledger!Next]_<<Produced, rows>>
<1> SUFFICES ASSUME DInv, [Next2]_vars
             PROVE  Ledger!Next \/ UNCHANGED <<Produced, rows>>
  OBVIOUS
<1>0. ASSUME UNCHANGED <<stream, snaps, rows>>
      PROVE  UNCHANGED <<Produced, rows>>
  BY <1>0 DEF Produced
<1>1. ASSUME NEW q \in Queue, JobEnds(q) \/ TakeSnapshot(q)
      PROVE  Ledger!Next
  BY <1>1, ProducedNext DEF Ledger!Next
<1>2. ASSUME NEW q \in Queue, ReadEntry(q) \/ RestartBegins(q) \/ RestartEnds(q)
      PROVE  UNCHANGED <<stream, snaps, rows>>
  BY <1>2 DEF ReadEntry, RestartBegins, RestartEnds, hubVars
<1>3. ASSUME NEW x \in looking, LookupDone(x)
      PROVE  UNCHANGED <<stream, snaps, rows>>
  BY <1>3 DEF LookupDone, hubVars
<1>4. ASSUME NEW s \in Sockets, LosePipe(s) \/ GatewayReceives(s)
      PROVE  UNCHANGED <<stream, snaps, rows>>
  BY <1>4 DEF LosePipe, GatewayReceives, hubVars, sourceVars
<1>5. CASE \/ FlushTimer \/ Connect \/ Break \/ Closed \/ AckArrives
           \/ ConnectorCrash \/ Boot \/ UNCHANGED vars
  <2>1. UNCHANGED <<stream, snaps, rows>>
    BY <1>5 DEF FlushTimer, Connect, Break, Closed, AckArrives, ConnectorCrash,
                Boot, vars, hubVars, sourceVars
  <2> QED
    BY <1>0, <2>1
<1>6. CASE RecordBatch \/ RecordFails \/ GatewayCrash
  <2>1. stream' = stream /\ snaps' = snaps
    BY <1>6 DEF RecordBatch, RecordFails, GatewayCrash, sourceVars
  <2>2. \/ rows' = rows
        \/ mutations # <<>> /\ rows' = Inserted(Head(mutations).frame)
    BY <1>6 DEF RecordBatch, RecordFails, GatewayCrash
  <2>3. ASSUME mutations # <<>> PROVE Head(mutations).frame \in GoodFrames
    <3>1. Head(mutations) \in Calls
      BY <2>3 DEF DInv, LinksOK
    <3> QED
      BY <3>1 DEF Calls
  <2>4. Produced' = Produced
    BY <2>1 DEF Produced
  <2> QED
    BY <1>0, <2>1, <2>2, <2>3, <2>4, InsertedRecords
<1> QED
  BY <1>0, <1>1, <1>2, <1>3, <1>4, <1>5, <1>6 DEF Next2

(* ImplementsLedger: at most one row per uuid and only for events that      *)
(* happened, whatever is resent, re-read, duplicated or half-failed.        *)
THEOREM LedgerImplemented == DeliverySpec => ImplementsLedger
<1>1. Init2 => Ledger!Init
  <2> SUFFICES ASSUME Init2 PROVE Ledger!Init
    OBVIOUS
  <2>1. /\ stream = [q \in Queue |-> 0] /\ snaps = [q \in Queue |-> 0]
        /\ rows = [e \in Event |-> 0]
    BY DEF Init2
  <2>2. ASSUME NEW e \in Produced PROVE FALSE
    <3>1. e.queue \in Queue /\ e.n \in 1 .. MaxStream
      BY DEF Produced, Event
    <3> QED
      BY <2>1, <3>1, OutboxAssumption DEF Produced
  <2> QED
    BY <2>1, <2>2 DEF Ledger!Init
<1>2. DInv /\ [Next2]_vars => [Ledger!Next]_(Ledger!ledgerVars)
  BY LedgerStep DEF Ledger!ledgerVars
<1> QED
  BY <1>1, <1>2, DeliveryInvariance, PTL
     DEF ImplementsLedger, DeliverySpec, Ledger!Spec
=============================================================================
