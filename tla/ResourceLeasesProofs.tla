------------------------- MODULE ResourceLeasesProofs -------------------------
(***************************************************************************)
(* Theorems about ResourceLeases, for every set of nodes, devices, leases, *)
(* workflows, requests and reported capacities.                            *)
(***************************************************************************)
EXTENDS ResourceLeases, FiniteSetTheorems, WellFoundedInduction, TLAPS

-------------------------------------------------------------------------------
(* Facts about data: least elements and sums of amounts.                     *)

\* Every nonempty set of device indexes has a smallest one, and Smallest is it.
LEMMA SmallestType ==
    ASSUME NEW S, S \subseteq Nat, S # {}
    PROVE  Smallest(S) \in S
<1>1. PICK g \in S : \A h \in S : ~(<<h, g>> \in OpToRel(<, Nat))
  <2>1. IsWellFoundedOn(OpToRel(<, Nat), Nat)
    BY NatLessThanWellFounded
  <2>2. QED
    BY <2>1, WFMin
<1>2. \A h, k \in Nat : h < k => <<h, k>> \in OpToRel(<, Nat)
  BY Zenon DEF OpToRel
<1>3. \A h \in S : ~(h < g)
  BY <1>1, <1>2
<1>4. \A h \in S : g <= h
  BY <1>3
<1>5. QED
  BY <1>4 DEF Smallest

\* The units behind a finite sum are finitely many.
LEMMA UnitsFinite ==
    ASSUME NEW S, IsFiniteSet(S), NEW f, \A x \in S : f[x] \in Nat
    PROVE  IsFiniteSet(UNION {{x} \X (1..f[x]) : x \in S})
<1> DEFINE T == {{x} \X (1..f[x]) : x \in S}
           m == [x \in S |-> {x} \X (1..f[x])]
<1>1. m \in Surjection(S, T)
  BY DEF Surjection
<1>2. IsFiniteSet(T)
  BY <1>1, FS_Surjection
<1>3. \A U \in T : IsFiniteSet(U)
  <2> TAKE U \in T
  <2>1. PICK x \in S : U = {x} \X (1..f[x])
    OBVIOUS
  <2>2. IsFiniteSet(1..f[x])
    <3>1. f[x] \in Int /\ 1 \in Int
      OBVIOUS
    <3>2. QED
      BY <3>1, FS_Interval
  <2>3. IsFiniteSet({x})
    BY FS_Singleton
  <2>4. QED
    BY <2>1, <2>2, <2>3, FS_Product
<1>4. QED
  BY <1>2, <1>3, FS_UNION

\* A sum of natural numbers is a natural number.
LEMMA SumType ==
    ASSUME NEW f, IsFiniteSet(DOMAIN f), \A x \in DOMAIN f : f[x] \in Nat
    PROVE  Sum(f) \in Nat
<1>1. IsFiniteSet(UNION {{x} \X (1..f[x]) : x \in DOMAIN f})
  BY UnitsFinite
<1>2. QED
  BY <1>1, FS_CardinalityType DEF Sum

\* The sum over no elements is zero.
LEMMA SumEmpty ==
    ASSUME NEW f, DOMAIN f = {}
    PROVE  Sum(f) = 0
<1>1. UNION {{x} \X (1..f[x]) : x \in DOMAIN f} = {}
  OBVIOUS
<1>2. QED
  BY <1>1, FS_EmptySet DEF Sum

\* Adding one amount to a sum adds that amount.
LEMMA SumAdd ==
    ASSUME NEW f, NEW g, NEW y,
           IsFiniteSet(DOMAIN f), y \notin DOMAIN f, DOMAIN g = DOMAIN f \cup {y},
           \A x \in DOMAIN f : f[x] \in Nat /\ g[x] = f[x], g[y] \in Nat
    PROVE  Sum(g) = Sum(f) + g[y]
<1> DEFINE S == DOMAIN f
           U == UNION {{x} \X (1..f[x]) : x \in S}
           V == {y} \X (1..g[y])
<1>1. IsFiniteSet(U)
  BY UnitsFinite
<1>2. IsFiniteSet(V) /\ Cardinality(V) = g[y]
  <2>1. g[y] \in Nat
    OBVIOUS
  <2>2. IsFiniteSet(1..g[y]) /\ Cardinality(1..g[y]) = g[y]
    BY <2>1, FS_Interval
  <2>3. IsFiniteSet({y}) /\ Cardinality({y}) = 1
    BY FS_Singleton
  <2>4. /\ IsFiniteSet({y} \X (1..g[y]))
        /\ Cardinality({y} \X (1..g[y])) = Cardinality({y}) * Cardinality(1..g[y])
    BY <2>2, <2>3, FS_Product
  <2>5. 1 * g[y] = g[y]
    BY <2>1
  <2>6. QED
    BY <2>2, <2>3, <2>4, <2>5
<1>3. U \cap V = {}
  OBVIOUS
<1>4. UNION {{x} \X (1..g[x]) : x \in DOMAIN g} = U \cup V
  OBVIOUS
<1>5. Cardinality(U \cup V) = Cardinality(U) + Cardinality(V) - Cardinality({})
  BY <1>1, <1>2, <1>3, FS_Union
<1>6. Sum(f) = Cardinality(U) /\ Sum(g) = Cardinality(U \cup V)
  BY <1>4 DEF Sum
<1>7. Cardinality(U) \in Nat /\ g[y] \in Nat /\ Cardinality({}) = 0
  BY <1>1, FS_CardinalityType, FS_EmptySet
<1>8. QED
  BY <1>2, <1>5, <1>6, <1>7

-------------------------------------------------------------------------------
(* Facts about reservations.                                                 *)

\* Any set of leases of a well-typed lease table is finite.
LEMMA LeaseSetsFinite ==
    ASSUME NEW ls, NEW n, NEW g
    PROVE  /\ IsFiniteSet(LeasesOn(ls, n))
           /\ IsFiniteSet(TaskLeasesOn(ls, n))
           /\ IsFiniteSet(HoldersOf(ls, n, g))
<1>1. /\ LeasesOn(ls, n) \subseteq Leases
      /\ TaskLeasesOn(ls, n) \subseteq Leases
      /\ HoldersOf(ls, n, g) \subseteq Leases
  BY DEF LeasesOn, TaskLeasesOn, HoldersOf, Active
<1>2. QED
  BY <1>1, IdsAssumption, FS_Subset

\* The recomputation yields available amounts of the right type.
LEMMA RecomputedType ==
    ASSUME NEW cap \in Capacity, NEW ls \in [Leases -> LeaseRec \cup {NoLease}], NEW n
    PROVE  Recomputed(cap, ls, n) \in [cpu : Nat, free : SUBSET Gpus, mem : [Gpus -> Nat]]
<1>1. CpuHeld(ls, n) \in Nat
  <2>1. \A l \in LeasesOn(ls, n) : ls[l].cpu \in Nat
    BY DEF LeasesOn, Active, LeaseRec
  <2>2. QED
    BY <2>1, SumType, LeaseSetsFinite DEF CpuHeld
<1>2. ASSUME NEW g \in Gpus PROVE MemHeld(ls, n, g) \in Nat
  <2>1. \A l \in HoldersOf(ls, n, g) : ls[l].mem \in Nat
    BY DEF HoldersOf, LeasesOn, Active, LeaseRec
  <2>2. QED
    BY <2>1, SumType, LeaseSetsFinite DEF MemHeld
<1>3. cap.cpu \in Nat /\ cap.dev \subseteq Gpus /\ cap.mem \in [Gpus -> Nat]
  BY DEF Capacity
<1>4. Monus(cap.cpu, CpuHeld(ls, n)) \in Nat
  BY <1>1, <1>3 DEF Monus
<1>5. \A g \in Gpus : Monus(cap.mem[g], MemHeld(ls, n, g)) \in Nat
  BY <1>2, <1>3 DEF Monus
<1>6. QED
  BY <1>3, <1>4, <1>5 DEF Recomputed

\* What a node has left depends on the leases on that node only.
LEMMA RecomputedLocal ==
    ASSUME NEW cap, NEW ls, NEW ms, NEW n,
           LeasesOn(ls, n) = LeasesOn(ms, n),
           \A l \in LeasesOn(ls, n) : ls[l] = ms[l]
    PROVE  /\ Recomputed(cap, ls, n) = Recomputed(cap, ms, n)
           /\ TaskLeasesOn(ls, n) = TaskLeasesOn(ms, n)
<1>1. /\ TaskLeasesOn(ls, n) = TaskLeasesOn(ms, n)
      /\ \A g : HoldersOf(ls, n, g) = HoldersOf(ms, n, g)
  BY DEF TaskLeasesOn, HoldersOf
<1>2. CpuHeld(ls, n) = CpuHeld(ms, n)
  <2>1. [l \in LeasesOn(ls, n) |-> ls[l].cpu] = [l \in LeasesOn(ms, n) |-> ms[l].cpu]
    OBVIOUS
  <2>2. QED
    BY <2>1, Zenon DEF CpuHeld
<1>3. ASSUME NEW g PROVE MemHeld(ls, n, g) = MemHeld(ms, n, g)
  <2>1. [l \in HoldersOf(ls, n, g) |-> ls[l].mem] = [l \in HoldersOf(ms, n, g) |-> ms[l].mem]
    BY <1>1 DEF HoldersOf
  <2>2. QED
    BY <2>1, Zenon DEF MemHeld
<1>4. QED
  BY <1>1, <1>2, <1>3 DEF Recomputed

\* ms is ls with the new lease l, of record r.
Granted(ls, ms, l, r) ==
    /\ l \in Leases /\ ls[l] = NoLease /\ r \in LeaseRec
    /\ \A k \in Leases : ms[k] = IF k = l THEN r ELSE ls[k]

\* The amounts a can hold the record r.
Fits(r, a) ==
    /\ r.cpu <= a.cpu
    /\ r.gpu # NoGpu => r.gpu \in a.free /\ r.mem <= a.mem[r.gpu]

\* Granting l on n by subtraction gives what the recomputation would give,
\* when the request fits and the device taken was free.
LEMMA GrantExact ==
    ASSUME NEW cap \in Capacity, NEW n \in Nodes,
           NEW ls \in [Leases -> LeaseRec \cup {NoLease}], NEW ms, NEW l, NEW r,
           Granted(ls, ms, l, r), r.node = n, Fits(r, Recomputed(cap, ls, n))
    PROVE  LET a == Recomputed(cap, ls, n)
               R == Recomputed(cap, ms, n)
           IN  /\ R.cpu = a.cpu - r.cpu
               /\ R.free = a.free \ {r.gpu}
               /\ \A h \in Gpus :
                    R.mem[h] = IF h = r.gpu THEN a.mem[h] - r.mem ELSE a.mem[h]
               /\ CpuHeld(ls, n) \in Nat
               /\ CpuHeld(ms, n) = CpuHeld(ls, n) + r.cpu
<1> DEFINE a == Recomputed(cap, ls, n)
<1>0. /\ \A k \in Leases : ms[k] = IF k = l THEN r ELSE ls[k]
      /\ l \in Leases /\ ls[l] = NoLease /\ r \in LeaseRec
      /\ r.cpu <= a.cpu
      /\ r.gpu # NoGpu => r.gpu \in a.free /\ r.mem <= a.mem[r.gpu]
  BY DEF Granted, Fits
<1>1. /\ LeasesOn(ms, n) = LeasesOn(ls, n) \cup {l}
      /\ l \notin LeasesOn(ls, n)
      /\ LeasesOn(ls, n) \subseteq Leases
  BY NullAssumption, <1>0 DEF LeasesOn, Active
<1>2. ASSUME NEW g
      PROVE  HoldersOf(ms, n, g) =
               IF g = r.gpu THEN HoldersOf(ls, n, g) \cup {l} ELSE HoldersOf(ls, n, g)
  <2>1. \A k \in LeasesOn(ms, n) : ms[k].gpu = IF k = l THEN r.gpu ELSE ls[k].gpu
    BY <1>0, <1>1
  <2>2. HoldersOf(ms, n, g) =
          {k \in LeasesOn(ls, n) \cup {l} : (IF k = l THEN r.gpu ELSE ls[k].gpu) = g}
    BY <1>1, <2>1 DEF HoldersOf
  <2>3. QED
    BY <1>1, <2>2 DEF HoldersOf
<1>3. CpuHeld(ms, n) = CpuHeld(ls, n) + r.cpu /\ CpuHeld(ls, n) \in Nat
  <2> DEFINE f == [k \in LeasesOn(ls, n) |-> ls[k].cpu]
             g == [k \in LeasesOn(ms, n) |-> ms[k].cpu]
  <2>1. /\ DOMAIN f = LeasesOn(ls, n) /\ DOMAIN g = LeasesOn(ls, n) \cup {l}
        /\ \A k \in LeasesOn(ls, n) : f[k] \in Nat /\ g[k] = f[k]
        /\ g[l] = r.cpu /\ r.cpu \in Nat
    BY <1>0, <1>1 DEF LeasesOn, Active, LeaseRec
  <2>2. CpuHeld(ls, n) = Sum(f) /\ CpuHeld(ms, n) = Sum(g)
    BY DEF CpuHeld
  <2>3. IsFiniteSet(DOMAIN f) /\ l \notin DOMAIN f
    BY <1>1, LeaseSetsFinite
  <2> HIDE DEF f, g
  <2>4. QED
    BY <2>1, <2>2, <2>3, SumAdd, SumType
<1>4. ASSUME NEW h \in Gpus, h # r.gpu
      PROVE  MemHeld(ms, n, h) = MemHeld(ls, n, h)
  <2>1. HoldersOf(ms, n, h) = HoldersOf(ls, n, h) /\ HoldersOf(ls, n, h) \subseteq Leases \ {l}
    BY <1>1, <1>2, <1>4 DEF HoldersOf
  <2>2. [k \in HoldersOf(ms, n, h) |-> ms[k].mem] = [k \in HoldersOf(ls, n, h) |-> ls[k].mem]
    BY <1>0, <2>1
  <2>3. QED
    BY <2>2 DEF MemHeld
<1>5. ASSUME r.gpu # NoGpu
      PROVE  MemHeld(ls, n, r.gpu) = 0 /\ MemHeld(ms, n, r.gpu) = r.mem
  <2> DEFINE f == [k \in HoldersOf(ls, n, r.gpu) |-> ls[k].mem]
             g == [k \in HoldersOf(ms, n, r.gpu) |-> ms[k].mem]
  <2>1. HoldersOf(ls, n, r.gpu) = {} /\ HoldersOf(ms, n, r.gpu) = {l}
    BY <1>0, <1>2, <1>5 DEF Recomputed
  <2>2. /\ DOMAIN f = {} /\ DOMAIN g = DOMAIN f \cup {l} /\ IsFiniteSet(DOMAIN f)
        /\ g[l] = r.mem /\ r.mem \in Nat /\ \A k \in DOMAIN f : f[k] \in Nat /\ g[k] = f[k]
    BY <1>0, <2>1, FS_EmptySet DEF LeaseRec
  <2>3. MemHeld(ls, n, r.gpu) = Sum(f) /\ MemHeld(ms, n, r.gpu) = Sum(g)
    BY DEF MemHeld
  <2> HIDE DEF f, g
  <2>4. Sum(f) = 0
    BY <2>2, SumEmpty
  <2>5. Sum(g) = Sum(f) + g[l]
    BY <2>2, SumAdd
  <2>6. QED
    BY <2>2, <2>3, <2>4, <2>5
<1>6. Monus(cap.cpu, CpuHeld(ms, n)) = a.cpu - r.cpu
  <2>1. cap.cpu \in Nat /\ r.cpu \in Nat /\ a.cpu = Monus(cap.cpu, CpuHeld(ls, n))
    BY <1>0 DEF Capacity, LeaseRec, Recomputed
  <2>2. QED
    BY <1>0, <1>3, <2>1 DEF Monus
<1>7. {g \in cap.dev : HoldersOf(ms, n, g) = {}} = a.free \ {r.gpu}
  BY <1>2 DEF Recomputed
<1>8. ASSUME NEW h \in Gpus
      PROVE  Monus(cap.mem[h], MemHeld(ms, n, h)) =
               IF h = r.gpu THEN a.mem[h] - r.mem ELSE a.mem[h]
  <2>1. a.mem[h] = Monus(cap.mem[h], MemHeld(ls, n, h))
    BY DEF Recomputed
  <2>2. CASE h # r.gpu
    BY <1>4, <2>1, <2>2
  <2>3. CASE h = r.gpu
    <3>1. r.gpu # NoGpu
      BY <2>3, GpusAssumption
    <3>2. cap.mem[h] \in Nat /\ r.mem \in Nat
      BY <1>0 DEF Capacity, LeaseRec
    <3>3. a.mem[h] = Monus(cap.mem[h], 0) /\ MemHeld(ms, n, h) = r.mem
      BY <1>5, <2>1, <2>3, <3>1
    <3>4. r.mem <= a.mem[h]
      BY <1>0, <2>3, <3>1
    <3> HIDE DEF a
    <3>5. QED
      BY <2>3, <3>2, <3>3, <3>4 DEF Monus
  <2>4. QED
    BY <2>2, <2>3
<1>9. /\ Recomputed(cap, ms, n).cpu = Monus(cap.cpu, CpuHeld(ms, n))
      /\ Recomputed(cap, ms, n).free = {g \in cap.dev : HoldersOf(ms, n, g) = {}}
      /\ \A h \in Gpus : Recomputed(cap, ms, n).mem[h] = Monus(cap.mem[h], MemHeld(ms, n, h))
  BY DEF Recomputed
<1>10. QED
  BY <1>3, <1>6, <1>7, <1>8, <1>9

\* A granted device is one the node has registered, was free, and has the memory.
LEMMA GrantedDevice ==
    ASSUME NEW cap \in Capacity, NEW n \in Nodes,
           NEW ls \in [Leases -> LeaseRec \cup {NoLease}], NEW ms, NEW l, NEW r,
           Granted(ls, ms, l, r), r.node = n, Fits(r, Recomputed(cap, ls, n)),
           r.gpu # NoGpu
    PROVE  /\ r.gpu \in cap.dev
           /\ HoldersOf(ms, n, r.gpu) = {l}
           /\ MemHeld(ms, n, r.gpu) <= cap.mem[r.gpu]
<1> DEFINE d == r.gpu
           f == [k \in HoldersOf(ls, n, d) |-> ls[k].mem]
           g == [k \in HoldersOf(ms, n, d) |-> ms[k].mem]
<1>1. /\ \A k \in Leases : ms[k] = IF k = l THEN r ELSE ls[k]
      /\ l \in Leases /\ ls[l] = NoLease /\ r \in LeaseRec
      /\ d \in cap.dev /\ HoldersOf(ls, n, d) = {}
      /\ r.mem <= Recomputed(cap, ls, n).mem[d]
  BY DEF Granted, Fits, Recomputed
<1>2. d \in Gpus /\ cap.mem[d] \in Nat /\ r.mem \in Nat
  BY <1>1 DEF Capacity, LeaseRec
<1>3. HoldersOf(ms, n, d) = {l}
  BY NullAssumption, <1>1 DEF HoldersOf, LeasesOn, Active
<1>4. MemHeld(ls, n, d) = 0 /\ MemHeld(ms, n, d) = r.mem
  <2>1. /\ DOMAIN f = {} /\ DOMAIN g = DOMAIN f \cup {l} /\ IsFiniteSet(DOMAIN f)
        /\ g[l] = r.mem /\ \A k \in DOMAIN f : f[k] \in Nat /\ g[k] = f[k]
    BY <1>1, <1>3, FS_EmptySet
  <2>2. MemHeld(ls, n, d) = Sum(f) /\ MemHeld(ms, n, d) = Sum(g)
    BY DEF MemHeld
  <2> HIDE DEF f, g
  <2>3. Sum(f) = 0
    BY <2>1, SumEmpty
  <2>4. Sum(g) = Sum(f) + g[l]
    BY <1>2, <2>1, SumAdd
  <2>5. QED
    BY <1>2, <2>1, <2>2, <2>3, <2>4
<1>5. Recomputed(cap, ls, n).mem[d] = cap.mem[d]
  BY <1>2, <1>4 DEF Recomputed, Monus
<1>6. QED
  BY <1>1, <1>2, <1>3, <1>4, <1>5

-------------------------------------------------------------------------------
(* The inductive invariant: each property of the run needs the others.       *)

IInv == TypeOK /\ AvailabilityExact /\ CountsExact /\ ContextsExact /\ GpuExclusive

LEMMA InitIInv == Init => IInv
<1> SUFFICES ASSUME Init PROVE IInv
  OBVIOUS
<1>1. PICK cap \in Reports :
        /\ total = [n \in Nodes |-> IF n = HeadNode THEN cap ELSE Blank]
        /\ avail = [n \in Nodes |->
                      IF n = HeadNode
                      THEN [cpu |-> cap.cpu, free |-> cap.dev, mem |-> cap.mem]
                      ELSE BlankFree]
  BY DEF Init
<1>2. cap \in Capacity /\ Blank \in Capacity
      /\ BlankFree \in [cpu : Nat, free : SUBSET Gpus, mem : [Gpus -> Nat]]
  BY DemandAssumption DEF Capacity, Blank, BlankFree
<1>3. TypeOK
  BY <1>1, <1>2, NodesAssumption DEF Init, TypeOK, Capacity
<1>4. Active(lease) = {}
  BY DEF Init, Active
<1>5. \A n, g : LeasesOn(lease, n) = {} /\ TaskLeasesOn(lease, n) = {}
                 /\ HoldersOf(lease, n, g) = {}
  BY <1>4 DEF LeasesOn, TaskLeasesOn, HoldersOf
<1>6. Sum([l \in {} |-> lease[l].cpu]) = 0 /\ Sum([l \in {} |-> lease[l].mem]) = 0
  BY SumEmpty
<1>7. \A n, g : CpuHeld(lease, n) = 0 /\ MemHeld(lease, n, g) = 0
  BY <1>5, <1>6, Zenon DEF CpuHeld, MemHeld
<1>8. AvailabilityExact
  <2>1. Recomputed(cap, lease, HeadNode)
          = [cpu |-> cap.cpu, free |-> cap.dev, mem |-> cap.mem]
    <3>1. Monus(cap.cpu, CpuHeld(lease, HeadNode)) = cap.cpu
      BY <1>2, <1>7 DEF Monus, Capacity
    <3>2. {g \in cap.dev : HoldersOf(lease, HeadNode, g) = {}} = cap.dev
      BY <1>5
    <3>3. [g \in Gpus |-> Monus(cap.mem[g], MemHeld(lease, HeadNode, g))] = cap.mem
      BY <1>2, <1>7 DEF Monus, Capacity
    <3>4. QED
      BY <3>1, <3>2, <3>3, Zenon DEF Recomputed
  <2>2. QED
    BY <1>1, <2>1, NodesAssumption DEF Init, AvailabilityExact
<1>9. CountsExact
  BY <1>5, NodesAssumption, FS_EmptySet DEF Init, CountsExact
<1>10. ContextsExact
  <2>1. \A n \in Nodes : Preferring(n) = {}
    BY NodesAssumption DEF Init, Preferring
  <2>2. QED
    BY <2>1, NodesAssumption, FS_EmptySet DEF Init, ContextsExact
<1>11. GpuExclusive
  BY <1>4 DEF GpuExclusive
<1>12. QED
  BY <1>3, <1>8, <1>9, <1>10, <1>11 DEF IInv

\* Forgetting the contexts of a set of nodes keeps every load exact.
LEMMA ReleaseContextsExact ==
    ASSUME TypeOK, ContextsExact, NEW D \in SUBSET Nodes, ReleaseNodeContexts(D)
    PROVE  /\ prefers' \in [Workflows -> Nodes \cup {NoNode}]
           /\ load' \in [Nodes -> Nat]
           /\ \A n \in Nodes : load'[n] = Cardinality(Preferring(n)')
           /\ \A w \in Workflows : prefers'[w] # NoNode =>
                prefers'[w] \in registered \ D
<1>1. \A n \in Nodes : load[n] = Cardinality(Preferring(n)) /\ load[n] \in Nat
  BY DEF TypeOK, ContextsExact
<1>2. \A n \in Nodes : Preferring(n)' = IF n \in D THEN {} ELSE Preferring(n)
  BY NodesAssumption DEF ReleaseNodeContexts, Preferring, TypeOK
<1>3. \A n \in Nodes : load'[n] = IF n \in D THEN 0 ELSE load[n]
  BY <1>1 DEF ReleaseNodeContexts, Monus
<1>4. prefers' \in [Workflows -> Nodes \cup {NoNode}]
  BY DEF ReleaseNodeContexts, TypeOK
<1>5. load' \in [Nodes -> Nat]
  BY <1>1, <1>3 DEF ReleaseNodeContexts
<1>6. \A n \in Nodes : load'[n] = Cardinality(Preferring(n)')
  BY <1>1, <1>2, <1>3, FS_EmptySet
<1>7. \A w \in Workflows : prefers'[w] # NoNode => prefers'[w] \in registered \ D
  BY DEF ReleaseNodeContexts, ContextsExact
<1>8. QED
  BY <1>4, <1>5, <1>6, <1>7

\* Steps that touch neither leases nor what nodes offer keep what they imply.
LEMMA RayStep ==
    ASSUME IInv, NEW n \in Nodes, RayJoin(n) \/ RayDie(n)
    PROVE  IInv'
<1> USE DEF IInv, RayJoin, RayDie
<1>1. TypeOK'
  BY DEF TypeOK
<1>2. /\ AvailabilityExact' /\ CountsExact' /\ GpuExclusive'
      /\ ContextsExact'
  BY DEF AvailabilityExact, CountsExact, GpuExclusive, ContextsExact, Preferring
<1>3. QED
  BY <1>1, <1>2

LEMMA SetNodeDisabledStep ==
    ASSUME IInv, NEW n \in Nodes, NEW off \in BOOLEAN, SetNodeDisabled(n, off)
    PROVE  IInv'
<1> USE DEF IInv, SetNodeDisabled
<1>1. TypeOK'
  BY DEF TypeOK
<1>2. AvailabilityExact' /\ CountsExact' /\ GpuExclusive'
  BY DEF AvailabilityExact, CountsExact, GpuExclusive
<1>3. ContextsExact'
  BY DEF ContextsExact, Preferring
<1>4. QED
  BY <1>1, <1>2, <1>3

\* Forgetting nodes: their leases stay, everything recorded of them goes.
LEMMA StopWorkerStep ==
    ASSUME IInv, NEW n \in Nodes, StopWorker(n)
    PROVE  IInv'
<1> USE DEF IInv
<1>1. /\ prefers' \in [Workflows -> Nodes \cup {NoNode}]
      /\ load' \in [Nodes -> Nat]
      /\ \A m \in Nodes : load'[m] = Cardinality(Preferring(m)')
      /\ \A w \in Workflows : prefers'[w] # NoNode => prefers'[w] \in registered \ {n}
  BY ReleaseContextsExact DEF StopWorker
<1>2. TypeOK'
  BY <1>1 DEF TypeOK, StopWorker, Blank, BlankFree, Capacity
<1>3. ContextsExact'
  BY <1>1 DEF ContextsExact, StopWorker
<1>4. AvailabilityExact' /\ CountsExact' /\ GpuExclusive'
  BY DEF AvailabilityExact, CountsExact, GpuExclusive, StopWorker, TypeOK
<1>5. QED
  BY <1>2, <1>3, <1>4

LEMMA CheckDeadNodeStep ==
    ASSUME IInv, CheckDeadNode
    PROVE  IInv'
<1> USE DEF IInv
<1> DEFINE dead == {m \in registered : ray[m] # "alive"}
<1>1. dead \in SUBSET Nodes
  BY DEF TypeOK
<1>2. /\ prefers' \in [Workflows -> Nodes \cup {NoNode}]
      /\ load' \in [Nodes -> Nat]
      /\ \A m \in Nodes : load'[m] = Cardinality(Preferring(m)')
      /\ \A w \in Workflows : prefers'[w] # NoNode => prefers'[w] \in registered \ dead
  <2>1. ReleaseNodeContexts(dead)
    BY DEF CheckDeadNode
  <2> HIDE DEF dead
  <2>2. QED
    BY <1>1, <2>1, ReleaseContextsExact
<1>3. TypeOK'
  BY <1>2 DEF TypeOK, CheckDeadNode, Blank, BlankFree, Capacity
<1>4. ContextsExact'
  BY <1>2 DEF ContextsExact, CheckDeadNode
<1>5. AvailabilityExact' /\ CountsExact' /\ GpuExclusive'
  BY DEF AvailabilityExact, CountsExact, GpuExclusive, CheckDeadNode, TypeOK
<1>6. QED
  BY <1>3, <1>4, <1>5

LEMMA StartWorkerStep ==
    ASSUME IInv, NEW n \in Nodes, NEW cap \in Reports, StartWorker(n, cap)
    PROVE  IInv'
<1> USE DEF IInv
<1> DEFINE stale == {m \in registered \ {n} : HostOf[m] = HostOf[n] /\ ray[m] # "alive"}
<1>1. stale \in SUBSET Nodes /\ n \notin stale
  BY DEF TypeOK
<1>2. /\ prefers' \in [Workflows -> Nodes \cup {NoNode}]
      /\ load' \in [Nodes -> Nat]
      /\ \A m \in Nodes : load'[m] = Cardinality(Preferring(m)')
      /\ \A w \in Workflows : prefers'[w] # NoNode => prefers'[w] \in registered \ stale
  <2>1. ReleaseNodeContexts(stale)
    BY DEF StartWorker
  <2> HIDE DEF stale
  <2>2. QED
    BY <1>1, <2>1, ReleaseContextsExact
<1>3. cap \in Capacity
  BY DemandAssumption
<1>4. Recomputed(cap, lease, n) \in [cpu : Nat, free : SUBSET Gpus, mem : [Gpus -> Nat]]
  BY <1>3, RecomputedType DEF TypeOK
<1>5. Cardinality(TaskLeasesOn(lease, n)) \in Nat
  BY LeaseSetsFinite, FS_CardinalityType
<1>6. TypeOK'
  <2>1. total' \in [Nodes -> Capacity]
    BY <1>3 DEF TypeOK, StartWorker, Blank, Capacity
  <2>2. avail' \in [Nodes -> [cpu : Nat, free : SUBSET Gpus, mem : [Gpus -> Nat]]]
    BY <1>4 DEF TypeOK, StartWorker, BlankFree
  <2>3. taskCount' \in [Nodes -> Nat]
    BY <1>5 DEF TypeOK, StartWorker
  <2>4. QED
    BY <1>2, <2>1, <2>2, <2>3 DEF TypeOK, StartWorker
<1>7. ContextsExact'
  BY <1>2 DEF ContextsExact, StartWorker
<1>8. AvailabilityExact'
  BY <1>1 DEF AvailabilityExact, StartWorker, TypeOK
<1>9. CountsExact'
  BY <1>1 DEF CountsExact, StartWorker, TypeOK
<1>10. GpuExclusive'
  BY DEF GpuExclusive, StartWorker
<1>11. QED
  BY <1>6, <1>7, <1>8, <1>9, <1>10

LEMMA ReleaseDagContextStep ==
    ASSUME IInv, NEW w \in Workflows, ReleaseDagContext(w)
    PROVE  IInv'
<1> USE DEF IInv
<1> DEFINE n == prefers[w]
<1>1. n \in Nodes /\ w \in Preferring(n) /\ load[n] = Cardinality(Preferring(n))
  BY DEF ReleaseDagContext, TypeOK, Preferring, ContextsExact
<1>2. \A m \in Nodes : Preferring(m)' = IF m = n THEN Preferring(m) \ {w} ELSE Preferring(m)
  BY NodesAssumption DEF ReleaseDagContext, TypeOK, Preferring
<1>3. IsFiniteSet(Preferring(n))
  BY IdsAssumption, FS_Subset DEF Preferring
<1>4. Cardinality(Preferring(n) \ {w}) = load[n] - 1 /\ load[n] - 1 \in Nat
  <2>1. /\ IsFiniteSet(Preferring(n) \ {w})
        /\ Cardinality(Preferring(n) \ {w}) = Cardinality(Preferring(n)) - 1
    BY <1>1, <1>3, FS_RemoveElement
  <2>2. QED
    BY <1>1, <2>1, FS_CardinalityType
<1>5. load' = [load EXCEPT ![n] = load[n] - 1]
  <2>1. Monus(load[n], 1) = load[n] - 1
    BY <1>1, <1>4 DEF Monus, TypeOK
  <2>2. QED
    BY <2>1 DEF ReleaseDagContext
<1>6. TypeOK'
  BY <1>1, <1>4, <1>5 DEF TypeOK, ReleaseDagContext
<1>7. ContextsExact'
  <2>1. \A m \in Nodes : load'[m] = Cardinality(Preferring(m)')
    BY <1>1, <1>2, <1>4, <1>5 DEF ContextsExact, TypeOK
  <2>2. QED
    BY <2>1 DEF ContextsExact, ReleaseDagContext, TypeOK
<1>8. AvailabilityExact' /\ CountsExact' /\ GpuExclusive'
  BY DEF AvailabilityExact, CountsExact, GpuExclusive, ReleaseDagContext
<1>9. QED
  BY <1>6, <1>7, <1>8

\* Giving a lease back changes what its own node offers, and no other node.
LEMMA ReleaseLeaseStep ==
    ASSUME IInv, NEW l \in Leases, ReleaseLease(l)
    PROVE  IInv'
<1> USE DEF IInv
<1> DEFINE n == lease[l].node
           rest == [lease EXCEPT ![l] = NoLease]
<1>1. /\ lease[l] \in LeaseRec /\ n \in Nodes
      /\ lease' = rest /\ rest \in [Leases -> LeaseRec \cup {NoLease}]
      /\ \A k \in Leases : rest[k] = IF k = l THEN NoLease ELSE lease[k]
  BY DEF ReleaseLease, TypeOK, LeaseRec
<1>2. ASSUME NEW m \in Nodes, m # n
      PROVE  /\ Recomputed(total[m], lease, m) = Recomputed(total[m], rest, m)
             /\ TaskLeasesOn(lease, m) = TaskLeasesOn(rest, m)
  <2>1. /\ LeasesOn(lease, m) = LeasesOn(rest, m)
        /\ \A k \in LeasesOn(lease, m) : lease[k] = rest[k]
    BY <1>1, <1>2 DEF LeasesOn, Active
  <2> HIDE DEF n, rest
  <2>2. QED
    BY <2>1, RecomputedLocal
<1>3. total[n] \in Capacity
  BY <1>1 DEF TypeOK
<1>4. Recomputed(total[n], rest, n)
        \in [cpu : Nat, free : SUBSET Gpus, mem : [Gpus -> Nat]]
  BY <1>1, <1>3, RecomputedType
<1>5. TypeOK'
  <2>1. avail' \in [Nodes -> [cpu : Nat, free : SUBSET Gpus, mem : [Gpus -> Nat]]]
    BY <1>4 DEF ReleaseLease, TypeOK
  <2>2. taskCount' \in [Nodes -> Nat]
    <3>1. taskCount \in [Nodes -> Nat] /\ Monus(taskCount[n], 1) \in Nat
      BY <1>1 DEF TypeOK, Monus
    <3>2. taskCount' = taskCount
            \/ taskCount' = [taskCount EXCEPT ![n] = Monus(taskCount[n], 1)]
      BY <3>1 DEF ReleaseLease
    <3>3. QED
      BY <3>1, <3>2
  <2>3. QED
    BY <1>1, <2>1, <2>2 DEF ReleaseLease, TypeOK
<1>6. AvailabilityExact'
  <2> SUFFICES ASSUME NEW m \in registered
               PROVE  avail'[m] = Recomputed(total[m], rest, m)
    BY <1>1 DEF AvailabilityExact, ReleaseLease
  <2>1. CASE m = n
    BY <1>1, <2>1 DEF ReleaseLease, TypeOK
  <2>2. CASE m # n
    BY <1>1, <1>2, <2>2 DEF ReleaseLease, TypeOK, AvailabilityExact
  <2>3. QED
    BY <2>1, <2>2
<1>7. CountsExact'
  <2> SUFFICES ASSUME NEW m \in registered
               PROVE  taskCount'[m] = Cardinality(TaskLeasesOn(rest, m))
    BY <1>1 DEF CountsExact, ReleaseLease
  <2>1. taskCount[m] = Cardinality(TaskLeasesOn(lease, m)) /\ m \in Nodes
    BY DEF CountsExact, TypeOK
  <2>2. CASE m # n
    BY <1>1, <1>2, <2>1, <2>2 DEF ReleaseLease, TypeOK
  <2>3. CASE m = n
    <3>1. IsFiniteSet(TaskLeasesOn(lease, n))
      BY LeaseSetsFinite
    <3>2. CASE lease[l].kind = "task"
      <4>1. /\ TaskLeasesOn(rest, n) = TaskLeasesOn(lease, n) \ {l}
            /\ l \in TaskLeasesOn(lease, n)
        BY <1>1, <3>2, NullAssumption DEF TaskLeasesOn, LeasesOn, Active
      <4>2. Cardinality(TaskLeasesOn(lease, n) \ {l})
              = Cardinality(TaskLeasesOn(lease, n)) - 1
        BY <3>1, <4>1, FS_RemoveElement
      <4>3. /\ Cardinality(TaskLeasesOn(lease, n)) \in Nat
            /\ Cardinality(TaskLeasesOn(lease, n) \ {l}) \in Nat
        BY <3>1, FS_RemoveElement, FS_CardinalityType
      <4>4. taskCount'[m] = Monus(taskCount[m], 1)
        BY <2>1, <2>3, <3>2 DEF ReleaseLease, TypeOK
      <4>5. Monus(taskCount[m], 1) = Cardinality(TaskLeasesOn(lease, n)) - 1
        BY <2>1, <2>3, <4>2, <4>3 DEF Monus
      <4>6. QED
        BY <2>3, <4>1, <4>2, <4>4, <4>5
    <3>3. CASE lease[l].kind # "task"
      <4>1. TaskLeasesOn(rest, n) = TaskLeasesOn(lease, n)
        BY <1>1, <3>3, NullAssumption DEF TaskLeasesOn, LeasesOn, Active
      <4>2. taskCount'[m] = taskCount[m]
        BY <2>1, <2>3, <3>3 DEF ReleaseLease, TypeOK
      <4>3. QED
        BY <2>1, <2>3, <4>1, <4>2
    <3>4. QED
      BY <3>2, <3>3
  <2>4. QED
    BY <2>2, <2>3
<1>8. ContextsExact'
  BY DEF ContextsExact, Preferring, ReleaseLease
<1>9. GpuExclusive'
  BY <1>1 DEF GpuExclusive, Active
<1>10. QED
  BY <1>5, <1>6, <1>7, <1>8, <1>9

\* The facts about a grant that the preservation and the capacity theorem use.
LEMMA SelectNodeFacts ==
    ASSUME IInv, NEW l \in Leases, NEW kind \in Kinds, NEW w \in Workflows,
           NEW need \in Needs, NEW eligible \in SUBSET Nodes,
           SelectNode(l, kind, w, need, eligible)
    PROVE  \E n \in registered, r \in LeaseRec :
              /\ ray[n] = "alive" /\ n \notin disabled /\ r.node = n /\ r.kind = kind
              /\ r.cpu <= avail[n].cpu
              /\ r.gpu # NoGpu => r.gpu \in avail[n].free /\ r.mem <= avail[n].mem[r.gpu]
              /\ lease[l] = NoLease /\ lease' = [lease EXCEPT ![l] = r]
              /\ avail' = [avail EXCEPT ![n] = Recomputed(total[n], lease', n)]
              /\ taskCount' = [taskCount EXCEPT
                                 ![n] = IF kind = "task" THEN @ + 1 ELSE @]
              /\ \/ prefers' = prefers /\ load' = load
                 \/ /\ prefers[w] = NoNode
                    /\ prefers' = [prefers EXCEPT ![w] = n]
                    /\ load' = [load EXCEPT ![n] = @ + 1]
              /\ UNCHANGED <<ray, registered, total, disabled>>
<1> USE DEF IInv
<1> DEFINE isTask == kind = "task"
           cands == {n \in registered \cap eligible : CanRun(n, need)}
<1>1. PICK n \in Best(cands, isTask, w) :
        LET g == IF need.gpu > 0 THEN Smallest(GpuOptions(n, need)) ELSE NoGpu
            new == isTask /\ prefers[w] = NoNode
        IN  /\ avail' = [avail EXCEPT ![n] =
                  [cpu  |-> @.cpu - need.cpu,
                   free |-> @.free \ {g},
                   mem  |-> [h \in Gpus |->
                               IF h = g THEN @.mem[h] - need.mem ELSE @.mem[h]]]]
            /\ taskCount' = [taskCount EXCEPT ![n] = IF isTask THEN @ + 1 ELSE @]
            /\ prefers' = IF new THEN [prefers EXCEPT ![w] = n] ELSE prefers
            /\ load' = IF new THEN [load EXCEPT ![n] = @ + 1] ELSE load
            /\ lease' = [lease EXCEPT ![l] =
                  [kind |-> kind, node |-> n, gpu |-> g,
                   cpu |-> need.cpu, mem |-> need.mem]]
  BY Zenon DEF SelectNode
<1> DEFINE g == IF need.gpu > 0 THEN Smallest(GpuOptions(n, need)) ELSE NoGpu
           r == [kind |-> kind, node |-> n, gpu |-> g, cpu |-> need.cpu, mem |-> need.mem]
<1>2. n \in cands
  BY <1>1 DEF Best
<1>3. n \in registered /\ n \in Nodes /\ CanRun(n, need) /\ need \in Request
  BY <1>2, DemandAssumption DEF TypeOK
<1>4. need.gpu > 0 => g \in GpuOptions(n, need)
  <2>1. SUFFICES ASSUME need.gpu > 0 PROVE Smallest(GpuOptions(n, need)) \in GpuOptions(n, need)
    OBVIOUS
  <2>2. GpuOptions(n, need) # {}
    BY <1>3, <2>1 DEF CanRun
  <2>3. GpuOptions(n, need) \subseteq Nat
    BY <1>3, GpusAssumption DEF GpuOptions, TypeOK
  <2>4. QED
    BY <2>2, <2>3, SmallestType
<1>5. g # NoGpu => g \in avail[n].free /\ need.mem <= avail[n].mem[g] /\ g \in Gpus
  BY <1>3, <1>4 DEF GpuOptions, Request, TypeOK
<1>6. r \in LeaseRec
  <2>1. g \in Gpus \cup {NoGpu}
    BY <1>5
  <2> HIDE DEF g
  <2>2. QED
    BY <1>3, <2>1 DEF LeaseRec, Request
<1>7. lease[l] = NoLease /\ lease' = [lease EXCEPT ![l] = r]
      /\ UNCHANGED <<ray, registered, total, disabled>>
  BY <1>1 DEF SelectNode
<1>8. avail' = [avail EXCEPT ![n] = Recomputed(total[n], lease', n)]
  <2> DEFINE a == avail[n]
  <2>1. avail' = [avail EXCEPT ![n] =
            [cpu  |-> a.cpu - need.cpu,
             free |-> a.free \ {g},
             mem  |-> [h \in Gpus |-> IF h = g THEN a.mem[h] - need.mem ELSE a.mem[h]]]]
    BY <1>1, Zenon
  <2>2. /\ total[n] \in Capacity
        /\ lease \in [Leases -> LeaseRec \cup {NoLease}]
        /\ a = Recomputed(total[n], lease, n)
        /\ r.node = n /\ r.cpu = need.cpu /\ r.mem = need.mem /\ r.gpu = g
        /\ r.cpu <= a.cpu
        /\ r.gpu # NoGpu => r.gpu \in a.free /\ r.mem <= a.mem[r.gpu]
    <3>1. need.cpu <= a.cpu
      BY <1>3 DEF CanRun, Request, TypeOK
    <3> HIDE DEF g
    <3>2. QED
      BY <1>3, <1>5, <3>1 DEF TypeOK, AvailabilityExact
  <2> DEFINE R == Recomputed(total[n], lease', n)
  <2>3. /\ R.cpu = a.cpu - r.cpu
        /\ R.free = a.free \ {r.gpu}
        /\ \A h \in Gpus : R.mem[h] = IF h = r.gpu THEN a.mem[h] - r.mem ELSE a.mem[h]
    <3>1. Granted(lease, lease', l, r)
      BY <1>6, <1>7, <2>2 DEF Granted
    <3>2. r.node = n /\ Fits(r, a)
      BY <2>2 DEF Fits
    <3> HIDE DEF a, r
    <3>3. QED
      BY <1>3, <2>2, <3>1, <3>2, GrantExact
  <2>4. R = [cpu  |-> a.cpu - need.cpu,
             free |-> a.free \ {g},
             mem  |-> [h \in Gpus |-> IF h = g THEN a.mem[h] - need.mem ELSE a.mem[h]]]
    <3>1. R = [cpu |-> R.cpu, free |-> R.free, mem |-> [h \in Gpus |-> R.mem[h]]]
      BY DEF Recomputed
    <3> HIDE DEF a, r, R, g
    <3>2. QED
      BY <2>2, <2>3, <3>1
  <2>5. QED
    BY <2>1, <2>4
<1>9. /\ ray[n] = "alive" /\ n \notin disabled /\ r.node = n /\ r.kind = kind
      /\ r.cpu <= avail[n].cpu
      /\ r.gpu # NoGpu => r.gpu \in avail[n].free /\ r.mem <= avail[n].mem[r.gpu]
  <2>1. r.node = n /\ r.kind = kind /\ r.cpu = need.cpu /\ r.mem = need.mem /\ r.gpu = g
    BY Zenon
  <2>2. ray[n] = "alive" /\ n \notin disabled /\ need.cpu <= avail[n].cpu
    BY <1>3 DEF CanRun, Request, TypeOK
  <2>3. QED
    BY <1>5, <2>1, <2>2
<1>10. \/ prefers' = prefers /\ load' = load
       \/ /\ prefers[w] = NoNode
          /\ prefers' = [prefers EXCEPT ![w] = n]
          /\ load' = [load EXCEPT ![n] = @ + 1]
  BY <1>1
<1>11. taskCount' = [taskCount EXCEPT ![n] = IF kind = "task" THEN @ + 1 ELSE @]
  BY <1>1
<1>12. QED
  <2> HIDE DEF r
  <2>1. QED
    BY <1>3, <1>6, <1>7, <1>8, <1>9, <1>10, <1>11

LEMMA SelectNodeStep ==
    ASSUME IInv, NEW l \in Leases, NEW kind \in Kinds, NEW w \in Workflows,
           NEW need \in Needs, NEW eligible \in SUBSET Nodes,
           SelectNode(l, kind, w, need, eligible)
    PROVE  IInv'
<1> USE DEF IInv
<1>1. PICK n \in registered, r \in LeaseRec :
              /\ ray[n] = "alive" /\ n \notin disabled /\ r.node = n /\ r.kind = kind
              /\ r.cpu <= avail[n].cpu
              /\ r.gpu # NoGpu => r.gpu \in avail[n].free /\ r.mem <= avail[n].mem[r.gpu]
              /\ lease[l] = NoLease /\ lease' = [lease EXCEPT ![l] = r]
              /\ avail' = [avail EXCEPT ![n] = Recomputed(total[n], lease', n)]
              /\ taskCount' = [taskCount EXCEPT
                                 ![n] = IF kind = "task" THEN @ + 1 ELSE @]
              /\ \/ prefers' = prefers /\ load' = load
                 \/ /\ prefers[w] = NoNode
                    /\ prefers' = [prefers EXCEPT ![w] = n]
                    /\ load' = [load EXCEPT ![n] = @ + 1]
              /\ UNCHANGED <<ray, registered, total, disabled>>
  BY SelectNodeFacts
<1>2. /\ n \in Nodes /\ l \notin Active(lease)
      /\ lease' \in [Leases -> LeaseRec \cup {NoLease}]
      /\ \A k \in Leases : lease'[k] = IF k = l THEN r ELSE lease[k]
      /\ Active(lease)' = Active(lease) \cup {l}
  <2>1. /\ n \in Nodes /\ l \notin Active(lease)
        /\ lease' \in [Leases -> LeaseRec \cup {NoLease}]
        /\ \A k \in Leases : lease'[k] = IF k = l THEN r ELSE lease[k]
    BY <1>1 DEF TypeOK, Active
  <2>2. QED
    BY <2>1, NullAssumption DEF Active
<1>3. ASSUME NEW m \in Nodes, m # n
      PROVE  /\ Recomputed(total[m], lease, m) = Recomputed(total[m], lease', m)
             /\ TaskLeasesOn(lease, m) = TaskLeasesOn(lease', m)
  <2>1. /\ LeasesOn(lease, m) = LeasesOn(lease', m)
        /\ \A k \in LeasesOn(lease, m) : lease[k] = lease'[k]
    BY <1>1, <1>2, <1>3 DEF LeasesOn, Active
  <2>2. QED
    BY <2>1, RecomputedLocal
<1>4. TypeOK'
  <2>1. total[n] \in Capacity
    BY <1>2 DEF TypeOK
  <2>2. Recomputed(total[n], lease', n)
          \in [cpu : Nat, free : SUBSET Gpus, mem : [Gpus -> Nat]]
    BY <1>2, <2>1, RecomputedType
  <2>3. avail' \in [Nodes -> [cpu : Nat, free : SUBSET Gpus, mem : [Gpus -> Nat]]]
    BY <1>1, <2>2 DEF TypeOK
  <2>4. taskCount' \in [Nodes -> Nat]
    BY <1>1 DEF TypeOK
  <2>5. prefers' \in [Workflows -> Nodes \cup {NoNode}] /\ load' \in [Nodes -> Nat]
    <3>1. /\ prefers \in [Workflows -> Nodes \cup {NoNode}]
          /\ load \in [Nodes -> Nat] /\ n \in Nodes
      BY <1>2 DEF TypeOK
    <3>2. CASE prefers' = prefers /\ load' = load
      BY <3>1, <3>2
    <3>3. CASE /\ prefers' = [prefers EXCEPT ![w] = n]
               /\ load' = [load EXCEPT ![n] = @ + 1]
      BY <3>1, <3>3
    <3>4. QED
      BY <1>1, <3>2, <3>3
  <2>6. QED
    BY <1>1, <1>2, <2>3, <2>4, <2>5 DEF TypeOK
<1>5. AvailabilityExact'
  <2> SUFFICES ASSUME NEW m \in registered
               PROVE  avail'[m] = Recomputed(total[m], lease', m)
    BY <1>1 DEF AvailabilityExact
  <2>1. CASE m = n
    BY <1>1, <1>2, <2>1 DEF TypeOK
  <2>2. CASE m # n
    BY <1>1, <1>3, <2>2 DEF TypeOK, AvailabilityExact
  <2>3. QED
    BY <2>1, <2>2
<1>6. CountsExact'
  <2> SUFFICES ASSUME NEW m \in registered
               PROVE  taskCount'[m] = Cardinality(TaskLeasesOn(lease', m))
    BY <1>1 DEF CountsExact
  <2>1. taskCount[m] = Cardinality(TaskLeasesOn(lease, m)) /\ m \in Nodes
    BY DEF CountsExact, TypeOK
  <2>2. CASE m # n
    BY <1>1, <1>3, <2>1, <2>2 DEF TypeOK
  <2>3. CASE m = n
    <3>1. IsFiniteSet(TaskLeasesOn(lease, n)) /\ l \notin TaskLeasesOn(lease, n)
      <4>1. IsFiniteSet(TaskLeasesOn(lease, n))
        BY LeaseSetsFinite
      <4>2. l \notin TaskLeasesOn(lease, n)
        BY <1>2 DEF TaskLeasesOn, LeasesOn
      <4>3. QED
        BY <4>1, <4>2
    <3>2. CASE kind = "task"
      <4>1. TaskLeasesOn(lease', n) = TaskLeasesOn(lease, n) \cup {l}
        BY <1>1, <1>2, <3>2 DEF TaskLeasesOn, LeasesOn, Active
      <4>2. Cardinality(TaskLeasesOn(lease, n) \cup {l})
              = Cardinality(TaskLeasesOn(lease, n)) + 1
        BY <3>1, FS_AddElement
      <4>3. QED
        BY <1>1, <2>1, <2>3, <3>2, <4>1, <4>2 DEF TypeOK
    <3>3. CASE kind # "task"
      <4>1. TaskLeasesOn(lease', n) = TaskLeasesOn(lease, n)
        BY <1>1, <1>2, <3>3 DEF TaskLeasesOn, LeasesOn, Active
      <4>2. QED
        BY <1>1, <2>1, <2>3, <3>3, <4>1 DEF TypeOK
    <3>4. QED
      BY <3>2, <3>3
  <2>4. QED
    BY <2>2, <2>3
<1>7. ContextsExact'
  <2>1. CASE prefers' = prefers /\ load' = load
    BY <1>1, <2>1 DEF ContextsExact, Preferring
  <2>2. CASE /\ prefers[w] = NoNode
             /\ prefers' = [prefers EXCEPT ![w] = n]
             /\ load' = [load EXCEPT ![n] = @ + 1]
    <3>1. \A m \in Nodes :
            Preferring(m)' = IF m = n THEN Preferring(n) \cup {w} ELSE Preferring(m)
      BY <1>2, <2>2, NodesAssumption DEF Preferring, TypeOK
    <3>2. IsFiniteSet(Preferring(n)) /\ w \notin Preferring(n)
      BY <1>2, <2>2, IdsAssumption, NodesAssumption, FS_Subset DEF Preferring
    <3>3. Cardinality(Preferring(n) \cup {w}) = Cardinality(Preferring(n)) + 1
      BY <3>2, FS_AddElement
    <3>4. \A m \in Nodes : load'[m] = Cardinality(Preferring(m)')
      BY <1>2, <2>2, <3>1, <3>3 DEF ContextsExact, TypeOK
    <3>5. \A v \in Workflows : prefers'[v] # NoNode => prefers'[v] \in registered
      BY <1>1, <2>2 DEF ContextsExact, TypeOK
    <3>6. QED
      BY <1>1, <3>4, <3>5 DEF ContextsExact
  <2>3. QED
    BY <1>1, <2>1, <2>2
<1>8. GpuExclusive'
  <2>1. r.gpu # NoGpu => HoldersOf(lease, n, r.gpu) = {}
    <3>1. avail[n] = Recomputed(total[n], lease, n)
      BY DEF AvailabilityExact
    <3>2. QED
      BY <1>1, <3>1 DEF Recomputed
  <2>2. \A k \in Active(lease) : lease[k].node = n /\ lease[k].gpu = r.gpu => r.gpu = NoGpu
    BY <2>1 DEF HoldersOf, LeasesOn
  <2>3. QED
    BY <1>1, <1>2, <2>2 DEF GpuExclusive, Active
<1>9. QED
  BY <1>4, <1>5, <1>6, <1>7, <1>8

-------------------------------------------------------------------------------
(* The theorems.                                                             *)

LEMMA NextIInv == IInv /\ [Next]_vars => IInv'
<1> SUFFICES ASSUME IInv, [Next]_vars PROVE IInv'
  OBVIOUS
<1>1. CASE \E n \in Nodes : RayJoin(n) \/ RayDie(n) \/ StopWorker(n)
  BY <1>1, RayStep, StopWorkerStep
<1>2. CASE \E n \in Nodes, cap \in Reports : StartWorker(n, cap)
  BY <1>2, StartWorkerStep
<1>3. CASE \E n \in Nodes, off \in BOOLEAN : SetNodeDisabled(n, off)
  BY <1>3, SetNodeDisabledStep
<1>4. CASE CheckDeadNode
  BY <1>4, CheckDeadNodeStep
<1>5. CASE \E l \in Leases, kind \in Kinds, w \in Workflows, need \in Needs,
              eligible \in SUBSET Nodes : SelectNode(l, kind, w, need, eligible)
  BY <1>5, SelectNodeStep
<1>6. CASE \E l \in Leases : ReleaseLease(l)
  BY <1>6, ReleaseLeaseStep
<1>7. CASE \E w \in Workflows : ReleaseDagContext(w)
  BY <1>7, ReleaseDagContextStep
<1>8. CASE UNCHANGED vars
  <2>1. TypeOK' /\ GpuExclusive'
    BY <1>8 DEF IInv, vars, TypeOK, GpuExclusive
  <2>2. AvailabilityExact' /\ CountsExact' /\ ContextsExact'
    BY <1>8 DEF IInv, vars, AvailabilityExact, CountsExact, ContextsExact, Preferring
  <2>3. QED
    BY <2>1, <2>2 DEF IInv
<1>9. QED
  BY <1>1, <1>2, <1>3, <1>4, <1>5, <1>6, <1>7, <1>8 DEF Next

\* Every reachable state satisfies the inductive invariant.
THEOREM Invariance == Spec => []IInv
<1>1. QED
  BY InitIInv, NextIInv, PTL DEF Spec

\* The registry, the lease table and the counters keep their types: no amount
\* that select_node subtracts or release_lease recomputes goes below zero.
THEOREM TypeCorrect == Spec => []TypeOK
<1>1. IInv => TypeOK
  BY DEF IInv
<1>2. QED
  BY <1>1, Invariance, PTL

\* Available resources are the registered capacity minus the active leases.
THEOREM AvailabilityIsExact == Spec => []AvailabilityExact
<1>1. IInv => AvailabilityExact
  BY DEF IInv
<1>2. QED
  BY <1>1, Invariance, PTL

\* A device is never held by two leases.
THEOREM GpusAreExclusive == Spec => []GpuExclusive
<1>1. IInv => GpuExclusive
  BY DEF IInv
<1>2. QED
  BY <1>1, Invariance, PTL

\* running_task_counts counts the task leases of every registered node.
THEOREM CountsAreExact == Spec => []CountsExact
<1>1. IInv => CountsExact
  BY DEF IInv
<1>2. QED
  BY <1>1, Invariance, PTL

\* Affinity contexts, their loads and the disabled flags follow the registry.
THEOREM ContextsAreExact == Spec => []ContextsExact
<1>1. IInv => ContextsExact
  BY DEF IInv
<1>2. QED
  BY <1>1, Invariance, PTL

\* Every grant is on a registered, enabled node that is alive, and stays within
\* the capacity the node has registered, cpu, device and memory.
THEOREM GrantsStayWithinCapacity == Spec => GrantWithinCapacity
<1> DEFINE A == \A l \in Leases :
                  lease[l] = NoLease /\ lease'[l] # NoLease =>
                     LET n == lease'[l].node
                         g == lease'[l].gpu
                     IN  /\ n \in registered \ disabled /\ ray[n] = "alive"
                         /\ lease'[l].cpu > 0 => CpuHeld(lease', n) <= total[n].cpu
                         /\ g # NoGpu => /\ g \in total[n].dev
                                         /\ HoldersOf(lease', n, g) = {l}
                                         /\ MemHeld(lease', n, g) <= total[n].mem[g]
<1>1. ASSUME IInv, [Next]_vars PROVE A \/ UNCHANGED vars
  <2>1. CASE \E l \in Leases, kind \in Kinds, w \in Workflows, need \in Needs,
              eligible \in SUBSET Nodes : SelectNode(l, kind, w, need, eligible)
    <3>1. PICK l \in Leases, kind \in Kinds, w \in Workflows, need \in Needs,
              eligible \in SUBSET Nodes : SelectNode(l, kind, w, need, eligible)
      BY <2>1
    <3>2. PICK n \in registered, r \in LeaseRec :
              /\ ray[n] = "alive" /\ n \notin disabled /\ r.node = n
              /\ r.cpu <= avail[n].cpu
              /\ r.gpu # NoGpu => r.gpu \in avail[n].free /\ r.mem <= avail[n].mem[r.gpu]
              /\ lease[l] = NoLease /\ lease' = [lease EXCEPT ![l] = r]
      BY <1>1, <3>1, SelectNodeFacts
    <3>3. /\ n \in Nodes /\ total[n] \in Capacity
          /\ lease \in [Leases -> LeaseRec \cup {NoLease}]
          /\ lease' \in [Leases -> LeaseRec \cup {NoLease}]
          /\ avail[n] = Recomputed(total[n], lease, n)
      BY <1>1, <3>2 DEF IInv, TypeOK, AvailabilityExact
    <3>4. Granted(lease, lease', l, r) /\ Fits(r, Recomputed(total[n], lease, n))
      BY <3>2, <3>3 DEF Granted, Fits
    <3>5. /\ CpuHeld(lease, n) \in Nat
          /\ CpuHeld(lease', n) = CpuHeld(lease, n) + r.cpu
      BY <3>2, <3>3, <3>4, GrantExact
    <3>6. r.cpu \in Nat /\ total[n].cpu \in Nat
      BY <3>3 DEF LeaseRec, Capacity
    <3>7. r.cpu > 0 => CpuHeld(lease', n) <= total[n].cpu
      <4>1. r.cpu <= Monus(total[n].cpu, CpuHeld(lease, n))
        BY <3>2, <3>3 DEF Recomputed
      <4> HIDE DEF A
      <4>2. QED
        BY <3>5, <3>6, <4>1 DEF Monus
    <3>8. r.gpu # NoGpu => /\ r.gpu \in total[n].dev
                           /\ HoldersOf(lease', n, r.gpu) = {l}
                           /\ MemHeld(lease', n, r.gpu) <= total[n].mem[r.gpu]
      <4> HIDE DEF A
      <4>1. ASSUME r.gpu # NoGpu
            PROVE  /\ r.gpu \in total[n].dev
                   /\ HoldersOf(lease', n, r.gpu) = {l}
                   /\ MemHeld(lease', n, r.gpu) <= total[n].mem[r.gpu]
        <5> DEFINE cap == total[n]
                   ms == lease'
        <5>1. cap \in Capacity /\ Granted(lease, ms, l, r) /\ r.node = n
              /\ Fits(r, Recomputed(cap, lease, n))
          BY <3>2, <3>3, <3>4
        <5> HIDE DEF cap, ms
        <5>2. /\ r.gpu \in cap.dev
              /\ HoldersOf(ms, n, r.gpu) = {l}
              /\ MemHeld(ms, n, r.gpu) <= cap.mem[r.gpu]
          BY <3>3, <4>1, <5>1, GrantedDevice
        <5>3. QED
          BY <5>2 DEF cap, ms
      <4>2. QED
        BY <4>1
    <3>9. A
      BY <3>2, <3>3, <3>7, <3>8
    <3>10. QED
      BY <3>9
  <2>2. CASE UNCHANGED lease
    BY <2>2
  <2>3. CASE \E l \in Leases : ReleaseLease(l)
    BY <1>1, <2>3, NullAssumption DEF ReleaseLease, IInv, TypeOK
  <2>4. QED
    BY <1>1, <2>1, <2>2, <2>3 DEF Next, RayJoin, RayDie, StopWorker, StartWorker,
       SetNodeDisabled, CheckDeadNode, ReleaseDagContext, vars
<1>2. IInv /\ [Next]_vars => [A]_vars
  BY <1>1
<1>3. QED
  BY <1>2, Invariance, PTL DEF Spec, GrantWithinCapacity
===============================================================================
