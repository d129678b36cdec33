------------------------ MODULE DeviceRegistryProofs ------------------------
(***************************************************************************)
(* Theorems about the slot map, for every number of slots and ports.       *)
(* The step that matters is a rebuild; it is taken apart into what each    *)
(* phase returns, and the lemmas about the phases are put together in      *)
(* RebuildStep.                                                            *)
(***************************************************************************)
EXTENDS DeviceRegistry, FiniteSetTheorems, TLAPS

\* Two objects in the pool are of different ports.  This is what makes the
\* port path a key in phase 2a, and it is stronger than distinct objects.
PathsApart ==
    \A s, t \in Slots : s # t /\ devices[s] # None /\ devices[t] # None
                          => Path(devices[s]) # Path(devices[t])

\* No EyeToy's path is in two slots.
EyeToysApart ==
    \A s, t \in Slots : s # t /\ eyeToySlot[s] # None => eyeToySlot[s] # eyeToySlot[t]

\* The inductive invariant.
IInv == TypeOK /\ NeverShared /\ PathsApart /\ EyeToysApart

-----------------------------------------------------------------------------
(* The driver's pool. *)

\* An object is named by its port while it is plugged in.
LEMMA SamePath ==
  ASSUME NEW d \in Ps3Eyes, NEW e \in Ps3Eyes, Path(d) = Path(e)
  PROVE  d = e
  BY DEF Ps3Eyes, Current, Path

LEMMA Ps3EyesType == TypeOK => Ps3Eyes \subseteq Objects
  BY DEF TypeOK, Ps3Eyes, Current, Objects

\* Phase 1 keeps exactly the listed objects, each in its slot.
LEMMA KeepPhase ==
  ASSUME NEW listed
  PROVE  /\ Keep(listed) \in [Slots -> listed \cup {None}]
         /\ \A s \in Slots : devices[s] \in listed => Keep(listed)[s] = devices[s]
         /\ \A s \in Slots : Keep(listed)[s] # None => Keep(listed)[s] = devices[s]
  BY DEF Keep

\* The pool after has what kept had, and otherwise opened objects in slots that
\* were the same port's.
Restores(after, kept, opened) ==
    /\ \A s \in Slots : kept[s] # None => after[s] = kept[s]
    /\ \A s \in Slots : after[s] # kept[s]
           => /\ kept[s] = None /\ devices[s] # None
              /\ after[s] \in opened /\ Path(after[s]) = Path(devices[s])

\* Phase 2a restores objects that opened to the slots that phase 1 vacated.
LEMMA ReplugPhase ==
  ASSUME NEW listed, NEW pool \in [Slots -> listed \cup {None}],
         NEW opened \in SUBSET listed
  PROVE  /\ Replugged(pool, opened) \in [Slots -> listed \cup {None}]
         /\ Restores(Replugged(pool, opened), pool, opened)
<1> DEFINE Comes(s) == pool[s] = None /\ devices[s] # None
                         /\ \E d \in opened : Path(d) = Path(devices[s])
           new(s) == CHOOSE d \in opened : Path(d) = Path(devices[s])
<1>1. \A s \in Slots : Comes(s) => new(s) \in opened /\ Path(new(s)) = Path(devices[s])
  OBVIOUS
<1>2. Replugged(pool, opened) = [s \in Slots |-> IF Comes(s) THEN new(s) ELSE pool[s]]
  BY DEF Replugged
<1> QED BY <1>1, <1>2 DEF Restores

\* The pool after has what pool had, and in slots where pool had nothing objects
\* of new, each once.
Fills(after, pool, new) ==
    /\ \A s \in Slots : pool[s] # None => after[s] = pool[s]
    /\ \A s \in Slots : after[s] # pool[s] => after[s] \in new
    /\ \A s, t \in Slots : s # t /\ after[s] # pool[s] /\ after[t] # pool[t]
                              => after[s] # after[t]

\* Phase 2b fills the pool with new objects.
LEMMA AdoptPhase ==
  ASSUME NEW listed, NEW pool \in [Slots -> listed \cup {None}], NEW new \in SUBSET listed,
         NEW adoption \in Adoptions(pool, new)
  PROVE  /\ Adopt(pool, adoption) \in [Slots -> listed \cup {None}]
         /\ Fills(Adopt(pool, adoption), pool, new)
<1>1. PICK low \in FirstEmpty(pool) : adoption \in [low -> new] /\ IsInjective(adoption)
  BY DEF Adoptions
<1>2. low \subseteq Slots /\ \A s \in low : pool[s] = None
  BY DEF FirstEmpty
<1>3. \A s, t \in low : s # t => adoption[s] # adoption[t]
  BY <1>1 DEF IsInjective
<1> QED BY <1>1, <1>2, <1>3 DEF Adopt, Fills

\* The driver's part of a rebuild: the pool holds listed objects only, an object
\* that is still listed stays in its slot, and the ports are apart again.
LEMMA PoolStep ==
  ASSUME PathsApart, NEW listed \in SUBSET Ps3Eyes, NEW eyes, RebuildLocked(listed, eyes)
  PROVE  /\ devices' \in [Slots -> listed \cup {None}]
         /\ \A s \in Slots : devices[s] \in listed /\ devices[s] # None
                                => devices'[s] = devices[s]
         /\ PathsApart'
<1> DEFINE kept == Keep(listed)
           new  == listed \ Values(kept)
<1>1. PICK opened \in SUBSET new :
        \E adoption \in Adoptions(Replugged(kept, opened), new \ opened) :
           devices' = Adopt(Replugged(kept, opened), adoption)
  BY DEF RebuildLocked, Returning
<1> DEFINE pool == Replugged(kept, opened)
<1>2. PICK adoption \in Adoptions(pool, new \ opened) : devices' = Adopt(pool, adoption)
  BY <1>1
<1>3. /\ kept \in [Slots -> listed \cup {None}]
      /\ \A s \in Slots : devices[s] \in listed => kept[s] = devices[s]
      /\ \A s \in Slots : kept[s] # None => kept[s] = devices[s]
  BY KeepPhase
<1> HIDE DEF kept
<1>4. opened \in SUBSET listed /\ new \ opened \in SUBSET listed
  OBVIOUS
<1>5. \A s \in Slots : kept[s] # None => kept[s] \notin new
  BY DEF Values
<1> HIDE DEF new
<1>6. /\ pool \in [Slots -> listed \cup {None}]
      /\ \A s \in Slots : kept[s] # None => pool[s] = kept[s]
      /\ \A s \in Slots : pool[s] # kept[s]
             => /\ kept[s] = None /\ devices[s] # None
                /\ pool[s] \in opened /\ Path(pool[s]) = Path(devices[s])
  <2>1. pool \in [Slots -> listed \cup {None}] /\ Restores(pool, kept, opened)
    BY <1>3, <1>4, ReplugPhase
  <2> QED BY <2>1 DEF Restores
<1> HIDE DEF pool
<1>7. /\ devices' \in [Slots -> listed \cup {None}]
      /\ \A s \in Slots : pool[s] # None => devices'[s] = pool[s]
      /\ \A s \in Slots : devices'[s] # pool[s] => devices'[s] \in new \ opened
      /\ \A s, t \in Slots : s # t /\ devices'[s] # pool[s] /\ devices'[t] # pool[t]
                                => devices'[s] # devices'[t]
  <2>1. new \ opened \in SUBSET listed /\ pool \in [Slots -> listed \cup {None}]
    BY <1>4, <1>6
  <2>2. devices' \in [Slots -> listed \cup {None}] /\ Fills(devices', pool, new \ opened)
    BY <1>2, <2>1, AdoptPhase
  <2> QED BY <2>2 DEF Fills
<1>8. ASSUME NEW s \in Slots, NEW t \in Slots, s # t,
             devices'[s] # None, devices'[t] # None
      PROVE  devices'[s] # devices'[t]
  <2>1. CASE devices'[s] # pool[s] /\ devices'[t] # pool[t]
    BY <1>7, <1>8, <2>1
  <2>2. ASSUME NEW u \in Slots, NEW v \in Slots, devices'[u] # None,
               devices'[u] = pool[u], devices'[v] # pool[v]
        PROVE  devices'[u] # devices'[v]
    <3>1. devices'[v] \in new \ opened
      BY <1>7, <2>2
    <3>2. CASE pool[u] # kept[u]
      BY <1>6, <2>2, <3>1, <3>2
    <3>3. CASE pool[u] = kept[u]
      <4>1. pool[u] \notin new
        BY <1>5, <2>2, <3>3
      <4> QED BY <2>2, <3>1, <4>1
    <3> QED BY <3>2, <3>3
  <2>3. CASE devices'[s] = pool[s] /\ devices'[t] = pool[t]
    <3>1. CASE pool[s] = kept[s] /\ pool[t] = kept[t]
      BY <1>3, <1>8, <2>3, <3>1 DEF PathsApart
    <3>2. CASE pool[s] # kept[s] /\ pool[t] # kept[t]
      BY <1>6, <1>8, <2>3, <3>2 DEF PathsApart
    <3>3. ASSUME NEW u \in Slots, NEW v \in Slots, pool[u] # None,
                 pool[u] = kept[u], pool[v] # kept[v]
          PROVE  pool[u] # pool[v]
      <4>1. pool[u] \notin new
        BY <1>5, <3>3
      <4>2. pool[v] \in opened
        BY <1>6, <3>3
      <4> QED BY <4>1, <4>2
    <3> QED BY <1>8, <2>3, <3>1, <3>2, <3>3
  <2> QED BY <1>8, <2>1, <2>2, <2>3
<1>9. PathsApart'
  <2> SUFFICES ASSUME NEW s \in Slots, NEW t \in Slots, s # t,
                      devices'[s] # None, devices'[t] # None,
                      Path(devices'[s]) = Path(devices'[t])
               PROVE  FALSE
    BY DEF PathsApart
  <2>1. devices'[s] \in Ps3Eyes /\ devices'[t] \in Ps3Eyes
    BY <1>7
  <2>2. devices'[s] = devices'[t]
    BY <2>1, SamePath
  <2> QED BY <1>8, <2>2
<1>10. ASSUME NEW s \in Slots, devices[s] \in listed, devices[s] # None
      PROVE  devices'[s] = devices[s]
  BY <1>3, <1>6, <1>7, <1>10
<1> QED BY <1>7, <1>9, <1>10

-----------------------------------------------------------------------------
(* The EyeToys. *)

\* Different slots have different numbers of free slots above them.
LEMMA FreeAbove ==
  ASSUME NEW free \in SUBSET Slots, NEW s \in free, NEW t \in free, s # t
  PROVE  Cardinality({u \in free : u > s}) # Cardinality({u \in free : u > t})
<1>1. IsFiniteSet(Slots)
  BY FS_Interval, RegistryAssumption DEF Slots
<1>2. free \subseteq Int
  BY RegistryAssumption DEF Slots
<1>3. ASSUME NEW a \in free, NEW b \in free, a < b
      PROVE  Cardinality({u \in free : u > a}) # Cardinality({u \in free : u > b})
  <2> DEFINE A == {u \in free : u > a}
             B == {u \in free : u > b}
  <2>1. IsFiniteSet(A)
    BY <1>1, FS_Subset
  <2>2. B \in SUBSET A
    <3>1. \A u \in free : u > b => u > a
      BY <1>2, <1>3
    <3> QED BY <3>1
  <2>3. b \in A /\ b \notin B
    BY <1>2, <1>3
  <2> QED BY <2>1, <2>2, <2>3, FS_Subset
<1>4. s < t \/ t < s
  BY <1>2
<1> QED BY <1>3, <1>4

\* The registry's part of a rebuild, for any pool: EyeToys in slots without a
\* PS3 Eye only, each in one slot, and a kept one where it was.
LEMMA EyeStep ==
  ASSUME EyeToysApart, NEW listed, None \notin listed, NEW ps3
  PROVE  LET e == AssignEyeToys(listed, KeepEyeToys(listed, ps3), ps3)
         IN /\ e \in [Slots -> listed \cup {None}]
            /\ \A s \in Slots : ps3[s] = None \/ e[s] = None
            /\ \A s \in Slots : eyeToySlot[s] \in listed /\ ps3[s] = None
                                    => e[s] = eyeToySlot[s]
            /\ \A s, t \in Slots : s # t /\ e[s] # None => e[s] # e[t]
<1> DEFINE kept == KeepEyeToys(listed, ps3)
           new  == NewEyeToys(listed, kept)
           free == {s \in Slots : kept[s] = None /\ ps3[s] = None}
           Meets(p, s) == Cardinality({q \in new : q < p}) = Cardinality({t \in free : t > s})
           Gets(s) == s \in free /\ \E p \in new : Meets(p, s)
           first(s) == CHOOSE p \in new : Meets(p, s)
           e == AssignEyeToys(listed, kept, ps3)
<1>1. e = [s \in Slots |-> IF Gets(s) THEN first(s) ELSE kept[s]]
  BY DEF AssignEyeToys
<1>2. \A s \in Slots : Gets(s) => first(s) \in new /\ Meets(first(s), s)
  OBVIOUS
<1>3. /\ kept \in [Slots -> listed \cup {None}]
      /\ \A s \in Slots : kept[s] # None => kept[s] = eyeToySlot[s] /\ ps3[s] = None
      /\ \A s \in Slots : eyeToySlot[s] \in listed /\ ps3[s] = None => kept[s] = eyeToySlot[s]
  BY DEF KeepEyeToys
<1>4. new \subseteq listed /\ \A s \in Slots : kept[s] # None => kept[s] \notin new
  BY DEF NewEyeToys, Values
<1>5. \A s, t \in Slots : s # t /\ Gets(s) /\ Gets(t) => first(s) # first(t)
  <2> SUFFICES ASSUME NEW s \in Slots, NEW t \in Slots, s # t, Gets(s), Gets(t),
                      first(s) = first(t)
               PROVE  FALSE
    OBVIOUS
  <2>1. Cardinality({u \in free : u > s}) = Cardinality({u \in free : u > t})
    BY <1>2
  <2>2. free \in SUBSET Slots /\ s \in free /\ t \in free
    OBVIOUS
  <2> HIDE DEF free
  <2> QED BY <2>1, <2>2, FreeAbove
<1>6. \A s \in Slots : Gets(s) => kept[s] = None /\ ps3[s] = None
  OBVIOUS
<1> HIDE DEF Gets, first, e, kept, new
<1>7. e \in [Slots -> listed \cup {None}]
  BY <1>1, <1>2, <1>3, <1>4
<1>8. \A s \in Slots : ps3[s] = None \/ e[s] = None
  BY <1>1, <1>3, <1>6
<1>9. \A s \in Slots : eyeToySlot[s] \in listed /\ ps3[s] = None => e[s] = eyeToySlot[s]
  BY <1>1, <1>3, <1>6
<1>10. ASSUME NEW s \in Slots, NEW t \in Slots, s # t, e[s] # None
       PROVE  e[s] # e[t]
  <2>1. CASE Gets(s) /\ Gets(t)
    BY <1>1, <1>5, <1>10, <2>1
  <2>2. CASE Gets(s) /\ ~Gets(t)
    BY <1>1, <1>2, <1>4, <1>10, <2>2
  <2>3. CASE ~Gets(s) /\ Gets(t)
    BY <1>1, <1>2, <1>4, <1>10, <2>3
  <2>4. CASE ~Gets(s) /\ ~Gets(t)
    BY <1>1, <1>3, <1>10, <2>4 DEF EyeToysApart
  <2> QED BY <2>1, <2>2, <2>3, <2>4
<1> QED BY <1>7, <1>8, <1>9, <1>10 DEF e, kept

\* What counts the elements of a finite set from 0 counts all of them: an
\* injection of S into the first |S| naturals reaches each of those.
LEMMA CountedOff ==
  ASSUME NEW S, IsFiniteSet(S), NEW count \in [S -> 0..(Cardinality(S) - 1)],
         \A x, y \in S : x # y => count[x] # count[y],
         NEW n \in 0..(Cardinality(S) - 1)
  PROVE  \E x \in S : count[x] = n
<1> DEFINE T == 0..(Cardinality(S) - 1)
<1>1. Cardinality(S) \in Nat
  BY FS_CardinalityType
<1>2. IsFiniteSet(T) /\ Cardinality(T) = Cardinality(S)
  BY <1>1, FS_Interval
<1>3. count \in Injection(S, T)
  BY DEF Injection, IsInjective
<1> HIDE DEF T
<1>4. count \in Surjection(S, T)
  BY <1>2, <1>3, FS_Injection
<1> QED BY <1>4 DEF Surjection, T

\* What each element of a finite set of integers has below or above it in the
\* set is fewer than all of it.
LEMMA FewerBeside ==
  ASSUME NEW S \in SUBSET Int, IsFiniteSet(S), NEW x \in S
  PROVE  /\ Cardinality({y \in S : y < x}) \in 0..(Cardinality(S) - 1)
         /\ Cardinality({y \in S : y > x}) \in 0..(Cardinality(S) - 1)
<1>1. ASSUME NEW part \in SUBSET S, x \notin part
      PROVE  Cardinality(part) \in 0..(Cardinality(S) - 1)
  <2>1. Cardinality(S) \in Nat
    BY FS_CardinalityType
  <2>2. IsFiniteSet(part) /\ Cardinality(part) <= Cardinality(S)
    BY FS_Subset
  <2>3. Cardinality(part) # Cardinality(S)
    BY <1>1, FS_Subset
  <2>4. Cardinality(part) \in Nat
    BY <2>2, FS_CardinalityType
  <2> QED BY <2>1, <2>2, <2>3, <2>4
<1>2. /\ x \notin {y \in S : y < x}
      /\ x \notin {y \in S : y > x}
  OBVIOUS
<1> QED BY <1>1, <1>2

\* Different elements have different numbers of elements below them.
LEMMA PathsBelow ==
  ASSUME NEW S \in SUBSET Int, IsFiniteSet(S), NEW x \in S, NEW y \in S, x # y
  PROVE  Cardinality({z \in S : z < x}) # Cardinality({z \in S : z < y})
<1>1. ASSUME NEW a \in S, NEW b \in S, a < b
      PROVE  Cardinality({z \in S : z < a}) # Cardinality({z \in S : z < b})
  <2> DEFINE A == {z \in S : z < a}
             B == {z \in S : z < b}
  <2>1. IsFiniteSet(B)
    BY FS_Subset
  <2>2. A \in SUBSET B
    <3>1. \A z \in S : z < a => z < b
      BY <1>1
    <3> QED BY <3>1
  <2>3. a \in B /\ a \notin A
    BY <1>1
  <2> QED BY <2>1, <2>2, <2>3, FS_Subset
<1>2. x < y \/ y < x
  OBVIOUS
<1> QED BY <1>1, <1>2

\* No EyeToy is left without a slot while a slot is left without a camera: if a
\* free slot is met by no new path, there are more free slots above it than new
\* paths, so that each of these meets one.
LEMMA EyesPlaced ==
  ASSUME NEW listed \in SUBSET Ports, NEW ps3
  PROVE  LET e == AssignEyeToys(listed, KeepEyeToys(listed, ps3), ps3)
         IN \/ listed \subseteq Values(e)
            \/ \A s \in Slots : ps3[s] # None \/ e[s] # None
<1> DEFINE kept == KeepEyeToys(listed, ps3)
           new  == NewEyeToys(listed, kept)
           free == {s \in Slots : kept[s] = None /\ ps3[s] = None}
           rank(p)  == Cardinality({q \in new : q < p})
           above(s) == Cardinality({t \in free : t > s})
           Gets(s)  == s \in free /\ \E p \in new : rank(p) = above(s)
           first(s) == CHOOSE p \in new : rank(p) = above(s)
           e == AssignEyeToys(listed, kept, ps3)
<1>1. e = [s \in Slots |-> IF Gets(s) THEN first(s) ELSE kept[s]]
  BY DEF AssignEyeToys
<1>2. \A s \in Slots : Gets(s) => first(s) \in new /\ rank(first(s)) = above(s)
  OBVIOUS
<1>3. /\ \A p \in listed : p # None
      /\ \A p \in listed : p \in new \/ \E s \in Slots : kept[s] = p
  <2>1. \A p \in listed : p # None
    BY RegistryAssumption
  <2> QED BY <2>1 DEF NewEyeToys, Values
<1>4. new \in SUBSET Int /\ new \subseteq listed /\ IsFiniteSet(new)
  <2>1. new \in SUBSET Ports /\ new \subseteq listed
    BY DEF NewEyeToys
  <2>2. Ports \subseteq Int /\ IsFiniteSet(Ports)
    BY RegistryAssumption
  <2> QED BY <2>1, <2>2, FS_Subset
<1>5. free \in SUBSET Slots /\ free \in SUBSET Int /\ IsFiniteSet(free)
  <2>1. IsFiniteSet(Slots) /\ Slots \subseteq Int
    BY FS_Interval, RegistryAssumption DEF Slots
  <2>2. free \in SUBSET Slots
    OBVIOUS
  <2> QED BY <2>1, <2>2, FS_Subset
<1>6. \A s \in Slots : s \in free <=> kept[s] = None /\ ps3[s] = None
  OBVIOUS
<1>7. \A s \in Slots : Gets(s) <=> s \in free /\ \E p \in new : rank(p) = above(s)
  OBVIOUS
<1>8. \A s \in Slots : kept[s] # None => ps3[s] = None
  BY DEF KeepEyeToys
<1> HIDE DEF kept, new, free, first, e
\* The ranks of the new paths are the first |new| numbers, each once.
<1>9. /\ \A p \in new : rank(p) \in 0..(Cardinality(new) - 1)
      /\ \A p, q \in new : p # q => rank(p) # rank(q)
  BY <1>4, FewerBeside, PathsBelow
<1>10. ASSUME NEW n \in 0..(Cardinality(new) - 1) PROVE \E p \in new : rank(p) = n
  <2> DEFINE count == [p \in new |-> rank(p)]
  <2>1. /\ count \in [new -> 0..(Cardinality(new) - 1)]
        /\ \A p, q \in new : p # q => count[p] # count[q]
    BY <1>9
  <2>2. \A p \in new : count[p] = rank(p)
    OBVIOUS
  <2> HIDE DEF count
  <2>3. \E p \in new : count[p] = n
    BY <1>4, <2>1, CountedOff
  <2> QED BY <2>2, <2>3
\* So are the numbers of free slots above the free slots.
<1>11. /\ \A s \in free : above(s) \in 0..(Cardinality(free) - 1)
       /\ \A s, t \in free : s # t => above(s) # above(t)
  BY <1>5, FewerBeside, FreeAbove
<1>12. ASSUME NEW n \in 0..(Cardinality(free) - 1) PROVE \E s \in free : above(s) = n
  <2> DEFINE count == [s \in free |-> above(s)]
  <2>1. /\ count \in [free -> 0..(Cardinality(free) - 1)]
        /\ \A s, t \in free : s # t => count[s] # count[t]
    BY <1>11
  <2>2. \A s \in free : count[s] = above(s)
    OBVIOUS
  <2> HIDE DEF count
  <2>3. \E s \in free : count[s] = n
    BY <1>5, <2>1, CountedOff
  <2> QED BY <2>2, <2>3
<1>13. Cardinality(new) \in Nat /\ Cardinality(free) \in Nat
  BY <1>4, <1>5, FS_CardinalityType
\* A free slot without a path: every path has a slot.
<1>14. ASSUME NEW s0 \in free, \A p \in new : rank(p) # above(s0), NEW p \in new
       PROVE  \E s \in Slots : e[s] = p
  <2>1. above(s0) >= Cardinality(new)
    <3>1. above(s0) \notin 0..(Cardinality(new) - 1)
      BY <1>10, <1>14
    <3>2. above(s0) \in 0..(Cardinality(free) - 1)
      BY <1>11
    <3> HIDE DEF above
    <3> QED BY <1>13, <3>1, <3>2
  <2>2. rank(p) \in 0..(Cardinality(free) - 1)
    <3>1. /\ rank(p) \in 0..(Cardinality(new) - 1)
          /\ above(s0) \in 0..(Cardinality(free) - 1)
      BY <1>9, <1>11
    <3> HIDE DEF above, rank
    <3> QED BY <1>13, <2>1, <3>1
  <2>3. PICK s \in free : above(s) = rank(p)
    BY <1>12, <2>2
  <2>4. s \in Slots /\ Gets(s)
    BY <1>5, <1>7, <2>3
  <2> HIDE DEF above, rank, Gets
  <2>5. first(s) = p
    BY <1>2, <1>9, <2>3, <2>4
  <2> QED BY <1>1, <2>4, <2>5
<1> HIDE DEF above, rank
<1>15. CASE \A s \in free : \E p \in new : rank(p) = above(s)
  <2>1. ASSUME NEW s \in Slots, ps3[s] = None, kept[s] = None
        PROVE  e[s] # None
    <3>1. Gets(s)
      BY <1>6, <1>7, <1>15, <2>1
    <3> HIDE DEF Gets
    <3> QED BY <1>1, <1>2, <1>3, <1>4, <3>1
  <2>2. ASSUME NEW s \in Slots, kept[s] # None
        PROVE  e[s] # None
    BY <1>1, <1>6, <2>2
  <2> QED BY <2>1, <2>2 DEF e, kept
<1>16. CASE \E s \in free : \A p \in new : rank(p) # above(s)
  <2>1. ASSUME NEW p \in listed PROVE \E s \in Slots : e[s] = p
    <3>1. CASE p \in new
      BY <1>14, <1>16, <3>1
    <3>2. ASSUME NEW s \in Slots, kept[s] = p PROVE e[s] = p
      BY <1>1, <1>3, <1>6, <3>2
    <3> QED BY <1>3, <3>1, <3>2
  <2>2. listed \subseteq Values(e)
    BY <1>3, <2>1 DEF Values
  <2> QED BY <2>2 DEF e, kept
<1> QED BY <1>15, <1>16

-----------------------------------------------------------------------------
(* The specification. *)

\* A rebuild from any two lists keeps the invariant.
LEMMA RebuildStep ==
  ASSUME IInv, NEW ps3Listed \in SUBSET Ps3Eyes, NEW eyesListed \in SUBSET EyeToys,
         RebuildLocked(ps3Listed, eyesListed)
  PROVE  IInv'
<1>1. /\ devices' \in [Slots -> ps3Listed \cup {None}]
      /\ PathsApart'
  BY PoolStep DEF IInv
<1>2. None \notin eyesListed /\ eyesListed \subseteq Ports
  BY RegistryAssumption DEF EyeToys
<1>3. eyeToySlot' = AssignEyeToys(eyesListed, KeepEyeToys(eyesListed, devices'), devices')
  BY DEF RebuildLocked
<1>4. /\ eyeToySlot' \in [Slots -> eyesListed \cup {None}]
      /\ \A s \in Slots : devices'[s] = None \/ eyeToySlot'[s] = None
      /\ \A s, t \in Slots : s # t /\ eyeToySlot'[s] # None => eyeToySlot'[s] # eyeToySlot'[t]
  BY <1>2, <1>3, EyeStep DEF IInv
<1>5. TypeOK'
  BY <1>1, <1>2, <1>4, Ps3EyesType DEF IInv, TypeOK, RebuildLocked
<1> QED BY <1>1, <1>4, <1>5 DEF IInv, NeverShared, EyeToysApart

\* The port of a pool object has a camera again that is not the same object, and
\* nothing fails: the rebuild puts the new object where the old one was.
LEMMA ReplugStep ==
  ASSUME IInv, Reliable, Rebuild, NEW s \in Slots, devices[s] # None,
         Current(Path(devices[s])) \in Ps3Eyes, devices[s] \notin Ps3Eyes
  PROVE  devices'[s] = Current(Path(devices[s]))
<1> DEFINE d    == Current(Path(devices[s]))
           kept == Keep(Ps3Eyes)
           new  == Ps3Eyes \ Values(kept)
           opened == Returning(kept, new)
           pool == Replugged(kept, opened)
<1>1. PICK adoption \in Adoptions(pool, new \ opened) : devices' = Adopt(pool, adoption)
  BY DEF Rebuild, RebuildLocked
<1>2. kept \in [Slots -> Ps3Eyes \cup {None}] /\ kept[s] = None
  BY DEF Keep
<1>3. Path(d) = Path(devices[s]) /\ d \in Ps3Eyes
  BY DEF Current, Path
<1>4. d \in new
  <2> SUFFICES ASSUME NEW t \in Slots, kept[t] = d, kept[t] # None PROVE FALSE
    BY <1>3 DEF Values
  <2>1. devices[t] = d /\ devices[t] # None
    BY KeepPhase
  <2>2. t # s
    BY <1>3, <2>1
  <2> QED BY <1>3, <2>1, <2>2 DEF IInv, PathsApart
<1>5. d \in opened /\ opened \in SUBSET Ps3Eyes
  BY <1>2, <1>3, <1>4 DEF Returning
<1> HIDE DEF kept, opened, d
<1>6. pool[s] = d
  <2>1. pool[s] = CHOOSE o \in opened : Path(o) = Path(devices[s])
    BY <1>2, <1>3, <1>5 DEF Replugged
  <2>2. \A o \in opened : Path(o) = Path(devices[s]) => o = d
    BY <1>3, <1>5, SamePath
  <2> QED BY <1>3, <1>5, <2>1, <2>2
<1>7. d # None
  BY <1>3, RegistryAssumption, Ps3EyesType DEF IInv, Objects
<1>8. pool \in [Slots -> Ps3Eyes \cup {None}]
  BY <1>2, <1>5, ReplugPhase
<1>9. new \ opened \in SUBSET Ps3Eyes
  OBVIOUS
<1> HIDE DEF pool, new
<1>10. devices'[s] = pool[s]
  <2> DEFINE others == new \ opened
  <2>1. others \in SUBSET Ps3Eyes /\ adoption \in Adoptions(pool, others)
    BY <1>1, <1>9
  <2> HIDE DEF others
  <2>2. Fills(devices', pool, others)
    BY <1>1, <1>8, <2>1, AdoptPhase
  <2> QED BY <1>6, <1>7, <2>2 DEF Fills
<1> QED BY <1>6, <1>10 DEF d

\* Init establishes the invariant.
LEMMA InitInv == Init => IInv
  BY DEF Init, IInv, TypeOK, NeverShared, PathsApart, EyeToysApart, EmptyMap

\* Every step keeps it.
LEMMA StepInv == IInv /\ [Next]_vars => IInv'
<1> SUFFICES ASSUME IInv, [Next]_vars PROVE IInv'
  OBVIOUS
<1>1. ASSUME NEW p \in Ports, NEW type \in Types, Plug(p, type) PROVE IInv'
  BY <1>1 DEF Plug, IInv, TypeOK, NeverShared, PathsApart, EyeToysApart, Objects
<1>2. ASSUME NEW p \in Ports, Unplug(p) PROVE IInv'
  BY <1>2 DEF Unplug, IInv, TypeOK, NeverShared, PathsApart, EyeToysApart, Objects
<1>3. CASE Rebuild
  BY <1>3, RebuildStep DEF Rebuild
<1>4. CASE RebuildBlind
  <2>1. CASE RebuildLocked({}, EyeToys)
    BY <2>1, RebuildStep
  <2>2. CASE RebuildLocked(Ps3Eyes, {})
    BY <2>2, RebuildStep
  <2>3. CASE RebuildLocked({}, {})
    BY <2>3, RebuildStep
  <2> QED BY <1>4, <2>1, <2>2, <2>3 DEF RebuildBlind
<1>5. CASE UNCHANGED vars
  BY <1>5 DEF vars, IInv, TypeOK, NeverShared, PathsApart, EyeToysApart, Objects
<1> QED BY <1>1, <1>2, <1>3, <1>4, <1>5 DEF Next

\* The inductive invariant holds in every reachable state.
THEOREM Invariant == Spec => []IInv
<1>1. Init => IInv
  BY InitInv
<1>2. IInv /\ [Next]_vars => IInv'
  BY StepInv
<1> QED BY <1>1, <1>2, PTL DEF Spec

\* Pool, EyeToy slots and ports are well typed: TypeOK.
THEOREM TypeCorrect == Spec => []TypeOK
<1>1. IInv => TypeOK
  BY DEF IInv
<1> QED BY <1>1, Invariant, PTL

\* No slot is given to a PS3 Eye and an EyeToy at once, whichever cameras come
\* and go and whatever the two enumerations return (Acquire relies on it).
THEOREM SlotsNeverShared == Spec => []NeverShared
<1>1. IInv => NeverShared
  BY DEF IInv
<1> QED BY <1>1, Invariant, PTL

\* No camera is in two slots.
THEOREM CamerasInOneSlot == Spec => []OneSlotEach
<1>1. IInv => OneSlotEach
  BY DEF IInv, OneSlotEach, PathsApart, EyeToysApart
<1> QED BY <1>1, Invariant, PTL

\* No rebuild leaves the object of an unplugged camera in the driver's pool.
THEOREM NoneStale == Spec => NoStaleObject
<1>1. IInv /\ [Next]_vars => [Rebuild \/ RebuildBlind => Values(devices') \subseteq Ps3Eyes]_vars
  <2> SUFFICES ASSUME IInv, Rebuild \/ RebuildBlind
               PROVE  Values(devices') \subseteq Ps3Eyes
    OBVIOUS
  <2>1. PICK listed \in SUBSET Ps3Eyes, eyes \in SUBSET EyeToys : RebuildLocked(listed, eyes)
    BY DEF Rebuild, RebuildBlind
  <2>2. devices' \in [Slots -> listed \cup {None}]
    BY <2>1, PoolStep DEF IInv
  <2> QED BY <2>2 DEF Values
<1> QED BY <1>1, Invariant, PTL DEF Spec, NoStaleObject

\* A PS3 Eye that stays plugged in keeps its slot, however many cameras of both
\* types come, go and compete for slots.
THEOREM Ps3Stable == Spec => Ps3StaysPut
<1>1. IInv /\ [Next]_vars =>
        [Rebuild => \A s \in Slots : devices[s] \in Ps3Eyes => devices'[s] = devices[s]]_vars
  <2> SUFFICES ASSUME IInv, Rebuild, NEW s \in Slots, devices[s] \in Ps3Eyes
               PROVE  devices'[s] = devices[s]
    OBVIOUS
  <2>1. devices[s] # None
    BY RegistryAssumption, Ps3EyesType DEF IInv, Objects
  <2> QED BY <2>1, PoolStep DEF IInv, Rebuild
<1> QED BY <1>1, Invariant, PTL DEF Spec, Ps3StaysPut

\* A PS3 Eye keeps its slot when it is unplugged and plugged into its port again
\* between two rebuilds, whatever else comes and goes: what ps3eye.cpp:1253 says
\* of vacated paths, as far as it is true.  With a rebuild in between it is not
\* (KeepsIndex).
RepluggedReturns ==
    [][Rebuild => \A s \in Slots :
          devices[s] # None /\ Current(Path(devices[s])) \in Ps3Eyes
             => devices'[s] = Current(Path(devices[s]))]_vars

\* If libusb lists and opens every camera, a PS3 Eye that is plugged in at two
\* rebuilds in a row keeps its slot, replugged in between or not.
THEOREM ReplugStable ==
  ASSUME Reliable
  PROVE  Spec => RepluggedReturns
<1>1. IInv /\ [Next]_vars =>
        [Rebuild => \A s \in Slots :
            devices[s] # None /\ Current(Path(devices[s])) \in Ps3Eyes
               => devices'[s] = Current(Path(devices[s]))]_vars
  <2> SUFFICES ASSUME IInv, Rebuild, NEW s \in Slots, devices[s] # None,
                      Current(Path(devices[s])) \in Ps3Eyes
               PROVE  devices'[s] = Current(Path(devices[s]))
    OBVIOUS
  <2>1. CASE devices[s] \in Ps3Eyes
    <3>1. devices'[s] = devices[s]
      BY <2>1, PoolStep DEF IInv, Rebuild
    <3>2. devices[s] = Current(Path(devices[s]))
      BY <2>1 DEF Ps3Eyes, Current, Path
    <3> QED BY <3>1, <3>2
  <2>2. CASE devices[s] \notin Ps3Eyes
    BY <2>2, ReplugStep
  <2> QED BY <2>1, <2>2
<1> QED BY <1>1, Invariant, PTL DEF Spec, RepluggedReturns

\* An EyeToy that is plugged in keeps its slot unless a PS3 Eye takes it.
THEOREM EyeToyStable == Spec => EyeToyStaysPut
<1>1. IInv /\ [Next]_vars =>
        [Rebuild => \A s \in Slots : eyeToySlot[s] \in EyeToys =>
                       eyeToySlot'[s] = eyeToySlot[s] \/ devices'[s] # None]_vars
  <2> SUFFICES ASSUME IInv, Rebuild, NEW s \in Slots, eyeToySlot[s] \in EyeToys,
                      devices'[s] = None
               PROVE  eyeToySlot'[s] = eyeToySlot[s]
    OBVIOUS
  <2>1. None \notin EyeToys
    BY RegistryAssumption DEF EyeToys
  <2> QED BY <2>1, EyeStep DEF IInv, Rebuild, RebuildLocked
<1> QED BY <1>1, Invariant, PTL DEF Spec, EyeToyStaysPut

\* After a rebuild every EyeToy that is plugged in has a slot, or no slot is left
\* without a camera.
THEOREM NoneLeftOut == Spec => EyeToysPlaced
<1>1. IInv /\ [Next]_vars =>
        [Rebuild => \/ EyeToys \subseteq Values(eyeToySlot')
                    \/ \A s \in Slots : devices'[s] # None \/ eyeToySlot'[s] # None]_vars
  <2> SUFFICES ASSUME Rebuild
               PROVE  \/ EyeToys \subseteq Values(eyeToySlot')
                      \/ \A s \in Slots : devices'[s] # None \/ eyeToySlot'[s] # None
    OBVIOUS
  <2>1. EyeToys \in SUBSET Ports
    BY DEF EyeToys
  <2>2. eyeToySlot' = AssignEyeToys(EyeToys, KeepEyeToys(EyeToys, devices'), devices')
    BY DEF Rebuild, RebuildLocked
  <2> QED BY <2>1, <2>2, EyesPlaced
<1> QED BY <1>1, Invariant, PTL DEF Spec, EyeToysPlaced
=============================================================================
