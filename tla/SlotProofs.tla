----------------------------- MODULE SlotProofs -----------------------------
(***************************************************************************)
(* Theorems about SlotQueue, for any week, slots, schedules, posts and     *)
(* bounds: type correctness, and that a firing publishes at most one post. *)
(*                                                                         *)
(* A firing is served in one of three ways: by a tick that is still to     *)
(* come, by the tick that has read it, or by the one that is serving it.   *)
(* The invariant says that the unused firings of a schedule cover all that *)
(* these could publish together; that no instant is in two windows is      *)
(* then what the sums of firings in adjacent windows come to.              *)
(***************************************************************************)
EXTENDS SlotQueue, TLAPS, FiniteSetTheorems, WellFoundedInduction

USE DEF vars, posts, scheduler, history, budgets

-----------------------------------------------------------------------------
(***************************************************************************)
(* The invariant.                                                          *)
(***************************************************************************)

\* What the goroutine has in hand at each step of a tick.
StepSound ==
  /\ pc \in {"sleep", "stopped"} => agenda = {}
  /\ pc \in {"sleep", "stopped", "tick"} <=> tick = NoTick
  /\ tick # NoTick => tick.served <= Len(tick.slots)

\* Counts for n slots, as firedSlotsBetween returns them.
CountsOf(n) == {c \in [1..n -> Nat] : \A k \in 1..n : c[k] <= MaxAge}

\* What a tick has read: a schedule that was created, and a count for each slot.
ReadSound(r) == rows[r.id].status # "unborn" /\ r.fires \in CountsOf(Len(r.slots))

AgendaSound ==
  /\ tick # NoTick => ReadSound(tick)
  /\ \A r \in agenda :
       /\ ReadSound(r) /\ r.served = 0
       /\ r.id # tick.id
       /\ \A q \in agenda : q.id = r.id => q = r
       /\ Exists(r.id) => lag <= rows[r.id].age

\* Firings that were earned or excused and have not been used.
Unused(i) == excused[i] + credit[i] - debt[i]

\* What a tick could publish of the firings of that age, were it to start now.
Due(i, age) ==
  IF Exists(i) THEN Servable(rows[i].slots, firedSlotsBetween(rows[i].slots, age)) ELSE 0

\* What the tick may yet publish of its schedule.
Left == Least(Len(tick.slots) - tick.served, Cardinality(Firings(tick.fires)))

\* The unused firings cover the window that is open, or those a tick has read
\* and the window it leaves open.
Covered ==
  /\ \A i \in Ids : debt[i] <= excused[i] /\ Due(i, rows[i].age) <= Unused(i)
  /\ \A r \in agenda : Servable(r.slots, r.fires) + Due(r.id, lag) <= Unused(r.id)
  /\ tick # NoTick => Left + Due(tick.id, rows[tick.id].age) <= Unused(tick.id)

Inv == TypeOK /\ StepSound /\ AgendaSound /\ Covered

-----------------------------------------------------------------------------
(***************************************************************************)
(* Instants of the week.                                                   *)
(***************************************************************************)

LEMMA Bounds ==
  /\ Period \in Nat \ {0} /\ MaxSlots \in Nat /\ MaxAge \in Nat
  /\ \A s \in SlotLists : s \in Seq(0..(Period - 1)) /\ Len(s) \in 0..MaxSlots
BY SlotAssumption DEF MaxAge

LEMMA ModAdd ==
  ASSUME NEW x \in Int
  PROVE  (x + Period) % Period = x % Period
<1> DEFINE q == x \div Period
           p == (x + Period) \div Period
           r == x % Period
           s == (x + Period) % Period
<1>1. x = Period * q + r /\ r \in 0..(Period - 1) /\ q \in Int
  BY Bounds
<1>2. x + Period = Period * p + s /\ s \in 0..(Period - 1) /\ p \in Int
  BY Bounds
<1> HIDE DEF q, p, r, s
<1>3. s - r = Period * (q + 1 - p)
  BY <1>1, <1>2, Bounds
<1>4. \A a \in Int : (a >= 1 => Period * a >= Period) /\ (a <= -1 => Period * a <= -Period)
  BY Bounds
<1>5. q + 1 - p = 0
  BY <1>1, <1>2, <1>3, <1>4, Bounds
<1>6. s = r
  BY <1>1, <1>2, <1>3, <1>5, Bounds
<1> QED
  BY <1>6 DEF r, s

\* An instant of the past is one further away when time moves.
LEMMA NextInstant ==
  ASSUME NEW at \in 0..(Period - 1)
  PROVE  /\ (at + 1) % Period \in 0..(Period - 1)
         /\ ((at + 1) % Period) % Period = (at + 1) % Period
         /\ \A d \in Nat : (((at + 1) % Period) - (d + 1)) % Period = (at - d) % Period
<1>1. (at + 1) % Period = IF at = Period - 1 THEN 0 ELSE at + 1
  BY Bounds
<1>2. ASSUME NEW x \in 0..(Period - 1) PROVE x % Period = x
  BY Bounds
<1>3. ASSUME NEW d \in Nat
      PROVE  (((at + 1) % Period) - (d + 1)) % Period = (at - d) % Period
  <2>1. CASE at = Period - 1
    <3>1. -(d + 1) \in Int
      OBVIOUS
    <3>2. ((-(d + 1)) + Period) % Period = (-(d + 1)) % Period
      BY <3>1, ModAdd
    <3> QED
      BY <1>1, <2>1, <3>2, Bounds
  <2>2. CASE at # Period - 1
    BY <1>1, <2>2, Bounds
  <2> QED
    BY <2>1, <2>2
<1>4. (at + 1) % Period \in 0..(Period - 1)
  BY <1>1, Bounds
<1>5. ((at + 1) % Period) % Period = (at + 1) % Period
  BY <1>2, <1>4
<1> QED
  BY <1>3, <1>4, <1>5

\* The firings of slot s in the window of that age that ends at the instant at.
Instants(at, age, s) == {d \in 0..(age - 1) : (at - d) % Period = s}

LEMMA InstantsFinite ==
  ASSUME NEW at, NEW age \in Nat, NEW s
  PROVE  IsFiniteSet(Instants(at, age, s)) /\ Cardinality(Instants(at, age, s)) \in 0..age
<1>1. IsFiniteSet(0..(age - 1)) /\ Cardinality(0..(age - 1)) = age
  BY FS_Interval
<1>2. Instants(at, age, s) \in SUBSET (0..(age - 1))
  BY DEF Instants
<1>3. IsFiniteSet(Instants(at, age, s)) /\ Cardinality(Instants(at, age, s)) <= age
  BY <1>1, <1>2, FS_Subset
<1> QED
  BY <1>3, FS_CardinalityType

LEMMA InstantsMonotone ==
  ASSUME NEW at, NEW s, NEW b \in Nat, NEW a \in 0..b
  PROVE  Cardinality(Instants(at, a, s)) <= Cardinality(Instants(at, b, s))
<1>1. Instants(at, a, s) \in SUBSET Instants(at, b, s)
  BY DEF Instants
<1> QED
  BY <1>1, InstantsFinite, FS_Subset

\* The next instant adds a firing to the window of a slot that it hits.
LEMMA InstantsGrow ==
  ASSUME NEW at \in 0..(Period - 1), NEW age \in Nat, NEW s \in 0..(Period - 1)
  PROVE  LET next == (at + 1) % Period
         IN  Cardinality(Instants(next, age + 1, s)) <=
               Cardinality(Instants(at, age, s)) + (IF s = next THEN 1 ELSE 0)
<1> DEFINE next == (at + 1) % Period
           old == Instants(at, age, s)
           new == Instants(next, age + 1, s)
           shift == [d \in new \ {0} |-> d - 1]
<1>1. IsFiniteSet(old) /\ IsFiniteSet(new) /\ Cardinality(old) \in Nat /\ Cardinality(new) \in Nat
  BY InstantsFinite
<1>2. shift \in Injection(new \ {0}, old)
  <2>1. ASSUME NEW d \in new \ {0} PROVE d - 1 \in old /\ d \in Int
    <3>1. d - 1 \in 0..(age - 1) /\ d - 1 \in Nat /\ (next - d) % Period = s
      BY DEF Instants
    <3>2. (next - ((d - 1) + 1)) % Period = (at - (d - 1)) % Period
      BY <3>1, NextInstant
    <3>3. (d - 1) + 1 = d /\ d \in Int
      BY <3>1 DEF Instants
    <3> QED
      BY <3>1, <3>2, <3>3 DEF Instants
  <2> QED
    BY <2>1 DEF Injection, IsInjective
<1>3. Cardinality(new \ {0}) <= Cardinality(old)
  BY <1>1, <1>2, FS_Injection
<1>4. 0 \in new => s = next
  BY NextInstant DEF Instants
<1>5. Cardinality(new \ {0}) = IF 0 \in new THEN Cardinality(new) - 1 ELSE Cardinality(new)
  BY <1>1, FS_RemoveElement
<1> QED
  BY <1>1, <1>3, <1>4, <1>5

-----------------------------------------------------------------------------
(***************************************************************************)
(* Counts of firings, one for each slot.                                   *)
(***************************************************************************)

LEMMA FiringsFinite ==
  ASSUME NEW n \in Nat, NEW counts \in CountsOf(n)
  PROVE  IsFiniteSet(Firings(counts)) /\ Cardinality(Firings(counts)) \in Nat
<1>1. DOMAIN counts = 1..n
  BY DEF CountsOf
<1>2. IsFiniteSet(1..n) /\ IsFiniteSet(1..MaxAge)
  BY Bounds, FS_Interval
<1>3. IsFiniteSet((1..n) \X (1..MaxAge))
  BY <1>2, FS_Product
<1>4. Firings(counts) \in SUBSET ((1..n) \X (1..MaxAge))
  BY <1>1 DEF Firings
<1> QED
  BY <1>3, <1>4, FS_Subset, FS_CardinalityType

LEMMA FiringsMonotone ==
  ASSUME NEW n \in Nat, NEW few \in CountsOf(n), NEW many \in CountsOf(n),
         \A k \in 1..n : few[k] <= many[k]
  PROVE  Cardinality(Firings(few)) <= Cardinality(Firings(many))
<1>1. Firings(few) \in SUBSET Firings(many)
  BY Bounds DEF Firings, CountsOf
<1> QED
  BY <1>1, FiringsFinite, FS_Subset

\* No counts, no firings.
LEMMA FiringsNone ==
  ASSUME NEW n \in Nat, NEW counts \in CountsOf(n), \A k \in 1..n : counts[k] = 0
  PROVE  Cardinality(Firings(counts)) = 0
<1>1. Firings(counts) = {}
  BY DEF Firings, CountsOf
<1> QED
  BY <1>1, FS_EmptySet

\* One firing of slot k is used, or all of them are dropped.
LEMMA FiringsUsed ==
  ASSUME NEW n \in Nat, NEW counts \in CountsOf(n), NEW k \in 1..n, counts[k] > 0
  PROVE  /\ [counts EXCEPT ![k] = @ - 1] \in CountsOf(n)
         /\ [counts EXCEPT ![k] = 0] \in CountsOf(n)
         /\ Cardinality(Firings([counts EXCEPT ![k] = @ - 1])) = Cardinality(Firings(counts)) - 1
         /\ Cardinality(Firings([counts EXCEPT ![k] = 0])) <= Cardinality(Firings(counts))
<1> DEFINE used == [counts EXCEPT ![k] = @ - 1]
           dropped == [counts EXCEPT ![k] = 0]
<1>1. used \in CountsOf(n) /\ dropped \in CountsOf(n)
  BY Bounds DEF CountsOf
<1>2. <<k, counts[k]>> \in Firings(counts)
  BY Bounds DEF Firings, CountsOf
<1>3. Firings(used) = Firings(counts) \ {<<k, counts[k]>>}
  <2>1. /\ DOMAIN counts = 1..n /\ DOMAIN used = 1..n
        /\ used[k] = counts[k] - 1 /\ counts[k] \in Nat
        /\ \A j \in 1..n : j # k => used[j] = counts[j]
    BY DEF CountsOf
  <2> HIDE DEF used
  <2>2. ASSUME NEW j \in 1..n, NEW m \in 1..MaxAge
        PROVE  m <= used[j] <=> m <= counts[j] /\ <<j, m>> # <<k, counts[k]>>
    <3>1. CASE j = k
      BY <2>1, <3>1, Bounds
    <3>2. CASE j # k
      BY <2>1, <3>2
    <3> QED
      BY <3>1, <3>2
  <2> QED
    BY <2>1, <2>2 DEF Firings
<1>4. \A j \in 1..n : dropped[j] <= counts[j]
  BY DEF CountsOf
<1>5. Cardinality(Firings(used)) = Cardinality(Firings(counts)) - 1
  BY <1>2, <1>3, FiringsFinite, FS_RemoveElement
<1>6. Cardinality(Firings(dropped)) <= Cardinality(Firings(counts))
  BY <1>1, <1>4, FiringsMonotone
<1> QED
  BY <1>1, <1>5, <1>6

\* Each slot of hit has fired once more.
LEMMA FiringsGrow ==
  ASSUME NEW n \in Nat, NEW old \in CountsOf(n), NEW new \in CountsOf(n), NEW hit \in SUBSET (1..n),
         \A k \in 1..n : new[k] <= old[k] + (IF k \in hit THEN 1 ELSE 0)
  PROVE  Cardinality(Firings(new)) <= Cardinality(Firings(old)) + Cardinality(hit)
<1> DEFINE more == Firings(new) \ Firings(old)
           slot == [f \in more |-> f[1]]
<1>1. IsFiniteSet(hit) /\ Cardinality(hit) \in Nat
  <2>1. IsFiniteSet(1..n)
    BY FS_Interval
  <2>2. IsFiniteSet(hit)
    BY <2>1, FS_Subset
  <2> QED
    BY <2>2, FS_CardinalityType
<1>2. slot \in Injection(more, hit)
  <2>1. ASSUME NEW f \in more
        PROVE  f = <<f[1], f[2]>> /\ f[1] \in hit /\ f[2] = old[f[1]] + 1
    <3>1. /\ f \in (1..n) \X (1..MaxAge) /\ f[2] <= new[f[1]] /\ ~(f[2] <= old[f[1]])
      BY DEF Firings, CountsOf
    <3>2. f[1] \in 1..n /\ f[2] \in 1..MaxAge /\ f = <<f[1], f[2]>>
      BY <3>1
    <3>3. old[f[1]] \in Nat /\ new[f[1]] \in Nat
      BY <3>2 DEF CountsOf
    <3> QED
      BY <3>1, <3>2, <3>3, Bounds
  <2>2. ASSUME NEW f \in more, NEW g \in more, f[1] = g[1]
        PROVE  f = g
    BY <2>1, <2>2
  <2> QED
    BY <2>1, <2>2 DEF Injection, IsInjective
<1>3. IsFiniteSet(more) /\ Cardinality(more) <= Cardinality(hit)
  BY <1>1, <1>2, FS_Injection
<1>4. /\ IsFiniteSet(Firings(old) \cup more)
      /\ Cardinality(Firings(old) \cup more) <= Cardinality(Firings(old)) + Cardinality(more)
  <2>1. IsFiniteSet(Firings(old)) /\ Cardinality(Firings(old) \cap more) = 0
    <3>1. Firings(old) \cap more = {}
      OBVIOUS
    <3> QED
      BY <3>1, FiringsFinite, FS_EmptySet
  <2>2. Cardinality(Firings(old)) \in Nat /\ Cardinality(more) \in Nat
    BY <1>3, FiringsFinite, FS_CardinalityType
  <2>3. /\ IsFiniteSet(Firings(old) \cup more)
        /\ Cardinality(Firings(old) \cup more) =
             Cardinality(Firings(old)) + Cardinality(more) - Cardinality(Firings(old) \cap more)
    BY <1>3, <2>1, FS_Union
  <2> HIDE DEF more
  <2> QED
    BY <2>1, <2>2, <2>3
<1>5. Firings(new) \in SUBSET (Firings(old) \cup more)
  OBVIOUS
<1>6. Cardinality(Firings(new)) <= Cardinality(Firings(old) \cup more)
  BY <1>4, <1>5, FS_Subset
<1> QED
  BY <1>1, <1>3, <1>4, <1>6, FiringsFinite, FS_CardinalityType

-----------------------------------------------------------------------------
(***************************************************************************)
(* Windows.                                                                *)
(***************************************************************************)

\* firedSlotsBetween for the window that ends at the instant at.
Window(at, slots, age) == [k \in DOMAIN slots |-> Cardinality(Instants(at, age, slots[k]))]

LEMMA FiredIsWindow ==
  /\ \A slots, age : firedSlotsBetween(slots, age) = Window(phase, slots, age)
  /\ \A slots, age : firedSlotsBetween(slots, age)' = Window(phase', slots', age')
BY DEF firedSlotsBetween, Window, Instants

LEMMA WindowType ==
  ASSUME NEW at, NEW slots \in SlotLists, NEW age \in 0..MaxAge
  PROVE  Window(at, slots, age) \in CountsOf(Len(slots))
<1>1. DOMAIN slots = 1..Len(slots)
  BY Bounds
<1>2. \A k \in 1..Len(slots) : Cardinality(Instants(at, age, slots[k])) \in 0..age
  BY Bounds, InstantsFinite
<1>3. \A k \in 1..Len(slots) : \A n \in 0..age : n \in Nat /\ n <= MaxAge
  BY Bounds
<1> DEFINE window == Window(at, slots, age)
<1>4. /\ window = [k \in 1..Len(slots) |-> window[k]]
      /\ \A k \in 1..Len(slots) : window[k] \in Nat /\ window[k] <= MaxAge
  BY <1>1, <1>2, <1>3 DEF Window
<1> HIDE DEF window
<1>5. window \in CountsOf(Len(slots))
  BY <1>4 DEF CountsOf
<1> QED
  BY <1>5 DEF window

LEMMA ServableType ==
  ASSUME NEW slots \in SlotLists, NEW counts \in CountsOf(Len(slots))
  PROVE  Servable(slots, counts) \in 0..Len(slots) /\ Servable(slots, counts) \in 0..MaxSlots
BY Bounds, FiringsFinite DEF Servable, Least

\* Fewer firings are not more to serve.
LEMMA ServableMonotone ==
  ASSUME NEW slots \in SlotLists, NEW few \in CountsOf(Len(slots)), NEW more \in Nat,
         NEW many \in CountsOf(Len(slots)),
         Cardinality(Firings(few)) <= Cardinality(Firings(many)) + more
  PROVE  Servable(slots, few) <= Servable(slots, many) + more
<1>1. Len(slots) \in Nat /\ Cardinality(Firings(few)) \in Nat /\ Cardinality(Firings(many)) \in Nat
  BY Bounds, FiringsFinite
<1> QED
  BY <1>1 DEF Servable, Least

LEMMA WindowMonotone ==
  ASSUME NEW at, NEW slots \in SlotLists, NEW b \in 0..MaxAge, NEW a \in 0..b
  PROVE  Servable(slots, Window(at, slots, a)) <= Servable(slots, Window(at, slots, b))
<1>1. /\ Window(at, slots, a) \in CountsOf(Len(slots))
      /\ Window(at, slots, b) \in CountsOf(Len(slots))
      /\ Len(slots) \in Nat /\ DOMAIN slots = 1..Len(slots)
  BY Bounds, WindowType
<1>2. \A k \in 1..Len(slots) : Window(at, slots, a)[k] <= Window(at, slots, b)[k]
  BY <1>1, Bounds, InstantsMonotone DEF Window
<1>3. Cardinality(Firings(Window(at, slots, a))) <= Cardinality(Firings(Window(at, slots, b))) + 0
  BY <1>1, <1>2, FiringsMonotone, FiringsFinite
<1>4. /\ Servable(slots, Window(at, slots, a)) \in Nat
      /\ Servable(slots, Window(at, slots, b)) \in Nat
  BY <1>1, ServableType
<1>5. Servable(slots, Window(at, slots, a)) <= Servable(slots, Window(at, slots, b)) + 0
  BY <1>1, <1>3, ServableMonotone
<1> QED
  BY <1>4, <1>5

LEMMA WindowEmpty ==
  ASSUME NEW at, NEW slots \in SlotLists
  PROVE  Servable(slots, Window(at, slots, 0)) = 0
<1>1. /\ Window(at, slots, 0) \in CountsOf(Len(slots))
      /\ Len(slots) \in Nat /\ DOMAIN slots = 1..Len(slots)
  BY Bounds, WindowType
<1>2. \A k \in 1..Len(slots) : Window(at, slots, 0)[k] = 0
  BY <1>1, InstantsFinite DEF Window
<1>3. Cardinality(Firings(Window(at, slots, 0))) = 0
  BY <1>1, <1>2, FiringsNone
<1> QED
  BY <1>1, <1>3 DEF Servable, Least

\* Time adds to a window at most the slots that fire at the next instant.
LEMMA WindowGrows ==
  ASSUME NEW at \in 0..(Period - 1), NEW slots \in SlotLists, NEW age \in 0..MaxAge
  PROVE  LET next == (at + 1) % Period
             hit  == {k \in DOMAIN slots : slots[k] = next}
         IN  /\ Cardinality(hit) \in Nat
             /\ Servable(slots, Window(next, slots, Least(MaxAge, age + 1))) <=
                  Servable(slots, Window(at, slots, age)) + Cardinality(hit)
<1> DEFINE next == (at + 1) % Period
           hit  == {k \in DOMAIN slots : slots[k] = next}
           older == Least(MaxAge, age + 1)
           old == Window(at, slots, age)
           new == Window(next, slots, older)
<1>1. older \in 0..(age + 1) /\ older \in 0..MaxAge /\ age \in Nat
  BY Bounds DEF Least
<1>2. /\ old \in CountsOf(Len(slots)) /\ new \in CountsOf(Len(slots))
      /\ Len(slots) \in Nat /\ DOMAIN slots = 1..Len(slots)
      /\ \A k \in 1..Len(slots) : slots[k] \in 0..(Period - 1)
  BY <1>1, Bounds, WindowType
<1>3. ASSUME NEW k \in 1..Len(slots)
      PROVE  new[k] <= old[k] + (IF k \in hit THEN 1 ELSE 0)
  <2>1. /\ new[k] = Cardinality(Instants(next, older, slots[k]))
        /\ old[k] = Cardinality(Instants(at, age, slots[k]))
    BY <1>2 DEF Window
  <2>2. Cardinality(Instants(next, older, slots[k])) <=
          Cardinality(Instants(next, age + 1, slots[k]))
    BY <1>1, InstantsMonotone
  <2>3. Cardinality(Instants(next, age + 1, slots[k])) <=
          Cardinality(Instants(at, age, slots[k])) + (IF slots[k] = next THEN 1 ELSE 0)
    BY <1>1, <1>2, InstantsGrow
  <2>4. /\ Cardinality(Instants(next, older, slots[k])) \in Nat
        /\ Cardinality(Instants(next, age + 1, slots[k])) \in Nat
        /\ Cardinality(Instants(at, age, slots[k])) \in Nat
    BY <1>1, InstantsFinite
  <2>5. k \in hit <=> slots[k] = next
    BY <1>2
  <2> HIDE DEF next, hit, older, old, new
  <2> QED
    BY <2>1, <2>2, <2>3, <2>4, <2>5
<1>4. hit \in SUBSET (1..Len(slots))
  BY <1>2
<1>5. Cardinality(hit) \in Nat
  <2>1. IsFiniteSet(1..Len(slots))
    BY <1>2, FS_Interval
  <2>2. IsFiniteSet(hit)
    BY <1>4, <2>1, FS_Subset
  <2> QED
    BY <2>2, FS_CardinalityType
<1>6. Cardinality(Firings(new)) <= Cardinality(Firings(old)) + Cardinality(hit)
  BY <1>2, <1>3, <1>4, FiringsGrow
<1>7. Servable(slots, new) <= Servable(slots, old) + Cardinality(hit)
  BY <1>2, <1>5, <1>6, ServableMonotone
<1> QED
  BY <1>5, <1>7

-----------------------------------------------------------------------------
(***************************************************************************)
(* What is due of a row.                                                   *)
(***************************************************************************)

RowSet ==
  {NoRow, DeletedRow} \cup [status: {"active", "paused"}, cred: Credentials,
                            slots: SlotLists, age: 0..MaxAge]

\* Due, of a row at an instant of the week.
DueOf(at, row, age) ==
  IF row.status \in {"active", "paused"}
  THEN Servable(row.slots, Window(at, row.slots, age)) ELSE 0

LEMMA DueIsDueOf ==
  /\ \A i, age : Due(i, age) = DueOf(phase, rows[i], age)
  /\ \A i : /\ Due(i, rows[i].age)' = DueOf(phase', rows'[i], rows'[i].age)
            /\ Due(i, lag)' = DueOf(phase', rows'[i], lag')
BY FiredIsWindow DEF Due, DueOf, Exists

LEMMA RowFields ==
  ASSUME NEW row \in RowSet
  PROVE  /\ row.status \in {"unborn", "deleted", "active", "paused"}
         /\ row.age \in 0..MaxAge
         /\ row.status \in {"active", "paused"} =>
              row.slots \in SlotLists /\ row.cred \in Credentials
         /\ row.status \notin {"active", "paused"} => row.slots = <<>>
<1>1. CASE row \in {NoRow, DeletedRow}
  BY <1>1, Bounds DEF NoRow, DeletedRow
<1>2. CASE row \in [status: {"active", "paused"}, cred: Credentials, slots: SlotLists,
                    age: 0..MaxAge]
  BY <1>2
<1> QED
  BY <1>1, <1>2 DEF RowSet

LEMMA DueType ==
  ASSUME NEW at, NEW row \in RowSet, NEW age \in 0..MaxAge
  PROVE  DueOf(at, row, age) \in 0..MaxSlots /\ DueOf(at, row, age) \in Nat
<1>1. CASE row.status \in {"active", "paused"}
  <2>1. row.slots \in SlotLists
    BY <1>1, RowFields
  <2> QED
    BY <1>1, <2>1, WindowType, ServableType, Bounds DEF DueOf
<1> QED
  BY <1>1, Bounds DEF DueOf

LEMMA DueMonotone ==
  ASSUME NEW at, NEW row \in RowSet, NEW b \in 0..MaxAge, NEW a \in 0..b
  PROVE  DueOf(at, row, a) <= DueOf(at, row, b)
<1>1. CASE row.status \in {"active", "paused"}
  <2>1. row.slots \in SlotLists
    BY <1>1, RowFields
  <2> QED
    BY <1>1, <2>1, WindowMonotone DEF DueOf
<1> QED
  BY <1>1 DEF DueOf

LEMMA DueEmpty ==
  ASSUME NEW at, NEW row \in RowSet
  PROVE  DueOf(at, row, 0) = 0
<1>1. CASE row.status \in {"active", "paused"}
  <2>1. row.slots \in SlotLists
    BY <1>1, RowFields
  <2> QED
    BY <1>1, <2>1, WindowEmpty DEF DueOf
<1> QED
  BY <1>1 DEF DueOf

\* As many firings as the schedule earns become due.
LEMMA DueGrows ==
  ASSUME NEW at \in 0..(Period - 1), NEW row \in RowSet, NEW age \in 0..MaxAge
  PROVE  LET next == (at + 1) % Period
             hit  == {k \in DOMAIN row.slots : row.slots[k] = next}
         IN  /\ Cardinality(hit) \in Nat
             /\ DueOf(next, row, Least(MaxAge, age + 1)) <= DueOf(at, row, age) + Cardinality(hit)
<1>1. CASE row.status \in {"active", "paused"}
  <2>1. row.slots \in SlotLists
    BY <1>1, RowFields
  <2> QED
    BY <1>1, <2>1, WindowGrows DEF DueOf
<1>2. CASE row.status \notin {"active", "paused"}
  <2> DEFINE hit == {k \in DOMAIN row.slots : row.slots[k] = (at + 1) % Period}
  <2>1. hit = {}
    BY <1>2, RowFields
  <2>2. Cardinality(hit) = 0
    BY <2>1, FS_EmptySet
  <2> QED
    BY <1>2, <2>2 DEF DueOf
<1> QED
  BY <1>1, <1>2

-----------------------------------------------------------------------------
(***************************************************************************)
(* Types, in groups that most actions leave alone.                         *)
(***************************************************************************)

TimeTypes == phase \in 0..(Period - 1) /\ lag \in 0..MaxAge

RowTypes == rows \in [Ids -> RowSet]

PostTypes ==
  /\ status \in [Posts -> {"unborn", "queued", "archived", "done"}]
  /\ attempts \in [Posts -> Nat]

StepTypes == pc \in {"sleep", "tick", "serve", "publish", "stopped"} /\ stopping \in BOOLEAN

AgendaTypes == agenda \subseteq Snapshots

TickTypes == tick \in Snapshots \cup {NoTick}

JobTypes == job \in Posts \cup {0}

PlanTypes ==
  plans \in [Clients -> {NoPlan} \cup [id: Ids, status: {"active", "paused"}, slots: SlotLists]]

HistoryTypes ==
  credit \in [Ids -> 0..(2 * MaxSlots)] /\ debt \in [Ids -> Nat] /\ excused \in [Ids -> Nat]

LimitTypes ==
  requestsLeft \in Nat /\ faultsLeft \in Nat /\ crashesLeft \in Nat /\ stopsLeft \in Nat

LEMMA TypeParts ==
  /\ TypeOK <=> /\ TimeTypes /\ RowTypes /\ PostTypes /\ StepTypes /\ AgendaTypes /\ TickTypes
                /\ JobTypes /\ PlanTypes /\ HistoryTypes /\ LimitTypes
  /\ TypeOK' <=> /\ TimeTypes' /\ RowTypes' /\ PostTypes' /\ StepTypes' /\ AgendaTypes'
                 /\ TickTypes' /\ JobTypes' /\ PlanTypes' /\ HistoryTypes' /\ LimitTypes'
BY DEF TypeOK, TimeTypes, RowTypes, PostTypes, StepTypes, AgendaTypes, TickTypes, JobTypes,
       PlanTypes, HistoryTypes, LimitTypes, RowSet

LEMMA TypesKept ==
  /\ UNCHANGED <<phase, lag>> => (TimeTypes => TimeTypes')
  /\ UNCHANGED rows => (RowTypes => RowTypes')
  /\ UNCHANGED posts => (PostTypes => PostTypes')
  /\ UNCHANGED <<pc, stopping>> => (StepTypes => StepTypes')
  /\ UNCHANGED agenda => (AgendaTypes => AgendaTypes')
  /\ UNCHANGED tick => (TickTypes => TickTypes')
  /\ UNCHANGED job => (JobTypes => JobTypes')
  /\ UNCHANGED plans => (PlanTypes => PlanTypes')
  /\ UNCHANGED history => (HistoryTypes => HistoryTypes')
  /\ UNCHANGED budgets => (LimitTypes => LimitTypes')
BY DEF TimeTypes, RowTypes, PostTypes, StepTypes, AgendaTypes, TickTypes, JobTypes,
       PlanTypes, HistoryTypes, LimitTypes

LEMMA LimitsKept ==
  ASSUME TypeOK
  PROVE  /\ Spend => LimitTypes'
         /\ Fault => LimitTypes'
BY TypeParts DEF Spend, Fault, LimitTypes

\* What the records hold.
LEMMA Fields ==
  ASSUME TypeOK
  PROVE  /\ \A i \in Ids : rows[i] \in RowSet /\ rows[i].age \in 0..MaxAge
         /\ \A i \in Ids : credit[i] \in 0..(2 * MaxSlots) /\ debt[i] \in Nat /\ excused[i] \in Nat
                           /\ Unused(i) \in Int
         /\ phase \in 0..(Period - 1) /\ lag \in 0..MaxAge
         /\ \A r \in agenda : r \in Snapshots
         /\ tick # NoTick => tick \in Snapshots
<1>1. \A i \in Ids : rows[i] \in RowSet /\ rows[i].age \in 0..MaxAge
  BY TypeParts, RowFields DEF RowTypes
<1>2. \A i \in Ids : credit[i] \in 0..(2 * MaxSlots) /\ debt[i] \in Nat /\ excused[i] \in Nat
  BY TypeParts DEF HistoryTypes
<1>3. \A i \in Ids : Unused(i) \in Int
  BY <1>2, Bounds DEF Unused
<1> QED
  BY <1>1, <1>2, <1>3, TypeParts DEF TimeTypes, AgendaTypes, TickTypes

LEMMA SnapshotFields ==
  ASSUME NEW r \in Snapshots
  PROVE  /\ r.id \in Ids /\ r.cred \in Credentials /\ r.slots \in SlotLists /\ r.served \in Nat
         /\ r.fires \in Seq(Nat) /\ r # NoTick /\ r.id # NoId
BY IdAssumption DEF Snapshots, NoTick

LEMMA LeftType ==
  ASSUME Inv, tick # NoTick
  PROVE  Left \in 0..MaxSlots
<1>1. tick \in Snapshots /\ tick.slots \in SlotLists
  BY Fields, SnapshotFields DEF Inv
<1>2. Len(tick.slots) \in 0..MaxSlots /\ tick.served \in Nat /\ tick.served <= Len(tick.slots)
  BY <1>1, SnapshotFields, Bounds DEF Inv, StepSound
<1>3. Cardinality(Firings(tick.fires)) \in Nat
  BY <1>2, FiringsFinite DEF Inv, AgendaSound, ReadSound
<1> QED
  BY <1>2, <1>3, Bounds DEF Left, Least

LEMMA InitInv == Init => Inv
<1> SUFFICES ASSUME Init PROVE Inv
  OBVIOUS
<1>1. TimeTypes /\ RowTypes /\ PostTypes /\ StepTypes /\ AgendaTypes
  <2>1. TimeTypes
    BY Bounds DEF Init, TimeTypes
  <2>2. RowTypes
    BY DEF Init, RowTypes, RowSet
  <2>3. PostTypes /\ StepTypes /\ AgendaTypes
    BY DEF Init, PostTypes, StepTypes, AgendaTypes
  <2> QED
    BY <2>1, <2>2, <2>3
<1>2. TickTypes /\ JobTypes /\ PlanTypes
  BY DEF Init, TickTypes, JobTypes, PlanTypes
<1>3. HistoryTypes /\ LimitTypes
  BY Bounds, BoundAssumption DEF Init, HistoryTypes, LimitTypes
<1>4. TypeOK
  BY <1>1, <1>2, <1>3, TypeParts
<1>5. StepSound /\ AgendaSound
  BY DEF Init, StepSound, AgendaSound
<1>6. \A i \in Ids : Due(i, rows[i].age) = 0 /\ Unused(i) = 0 /\ debt[i] = 0 /\ excused[i] = 0
  BY DEF Init, Due, Exists, NoRow, Unused
<1>7. Covered
  BY <1>6 DEF Init, Covered
<1> QED
  BY <1>4, <1>5, <1>7 DEF Inv

-----------------------------------------------------------------------------
(***************************************************************************)
(* Steps that leave the firings where they are.                            *)
(***************************************************************************)

\* What Inv says beyond the types.
Sound == StepSound /\ AgendaSound /\ Covered

LEMMA QuietStep ==
  ASSUME Inv, UNCHANGED <<phase, rows, agenda, tick, lag, history>>,
         pc' \in {"sleep", "stopped", "tick"} <=> pc \in {"sleep", "stopped", "tick"},
         pc' \in {"sleep", "stopped"} => agenda = {}
  PROVE  Sound'
<1>1. StepSound'
  BY DEF Inv, StepSound
<1>2. AgendaSound'
  BY DEF Inv, AgendaSound, ReadSound, Exists
<1>3. /\ \A i : Due(i, rows[i].age)' = Due(i, rows[i].age) /\ Due(i, lag)' = Due(i, lag)
      /\ \A i : Unused(i)' = Unused(i)
      /\ Left' = Left
  BY DueIsDueOf DEF Unused, Left
<1>4. Covered'
  BY <1>3 DEF Inv, Covered
<1> QED
  BY <1>1, <1>2, <1>4 DEF Sound

\* The tick ends or the process does: its firings are in the open window, or
\* will not be served.
LEMMA ResetStep ==
  ASSUME Inv, UNCHANGED <<phase, rows, history>>, agenda' = {}, tick' = NoTick, pc' = "sleep"
  PROVE  Sound'
<1>1. StepSound' /\ AgendaSound'
  BY DEF StepSound, AgendaSound
<1>2. \A i \in Ids : Due(i, rows[i].age)' = Due(i, rows[i].age) /\ Unused(i)' = Unused(i)
  BY DueIsDueOf DEF Unused
<1>3. Covered'
  BY <1>2 DEF Inv, Covered
<1> QED
  BY <1>1, <1>3 DEF Sound

LEMMA QuietSteps ==
  ASSUME Inv
  PROVE  /\ \A c \in Clients, i \in Ids : MCPUpdate(c, i) => Inv'
         /\ \A p \in Posts : Enqueue(p) \/ Withdraw(p) => Inv'
         /\ Exit \/ Stop => Inv'
<1>0. TypeOK
  BY DEF Inv
<1>1. ASSUME NEW c \in Clients, NEW i \in Ids, MCPUpdate(c, i) PROVE Inv'
  <2>1. UNCHANGED <<rows, posts, history, phase, scheduler>> /\ Spend
    BY <1>1 DEF MCPUpdate, Calm
  <2>2. PlanTypes'
    BY <1>0, <1>1, TypeParts DEF MCPUpdate, PlanTypes
  <2>3. Sound'
    BY <2>1, QuietStep DEF Inv, StepSound
  <2> QED
    BY <1>0, <2>1, <2>2, <2>3, TypeParts, TypesKept, LimitsKept DEF Inv, Sound
<1>2. ASSUME NEW p \in Posts, Enqueue(p) \/ Withdraw(p) PROVE Inv'
  <2>1. UNCHANGED <<rows, plans, history, phase, scheduler>> /\ (Spend \/ UNCHANGED budgets)
    BY <1>2 DEF Enqueue, Withdraw, Calm
  <2>2. PostTypes'
    BY <1>0, <1>2, TypeParts DEF Enqueue, Withdraw, PostTypes
  <2>3. Sound'
    BY <2>1, QuietStep DEF Inv, StepSound
  <2> QED
    BY <1>0, <2>1, <2>2, <2>3, TypeParts, TypesKept, LimitsKept DEF Inv, Sound
<1>3. ASSUME Exit \/ Stop PROVE Inv'
  <2>1. UNCHANGED <<phase, rows, posts, agenda, tick, job, lag, plans, history>>
    BY <1>3 DEF Exit, Stop
  <2>2. StepTypes'
    BY <1>0, <1>3, TypeParts DEF Exit, Stop, StepTypes
  <2>4. LimitTypes'
    BY <1>0, <1>3, TypeParts DEF Exit, Stop, LimitTypes
  <2>3. Sound'
    BY <1>3, <2>1, QuietStep DEF Inv, StepSound, Exit, Stop
  <2> QED
    BY <1>0, <2>1, <2>2, <2>3, <2>4, TypeParts, TypesKept DEF Inv, Sound
<1> QED
  BY <1>1, <1>2, <1>3

LEMMA publishWithRetryStep ==
  ASSUME Inv, publishWithRetry
  PROVE  Inv'
<1>0. TypeOK
  BY DEF Inv
<1>1. /\ UNCHANGED <<phase, rows, agenda, tick, lag, stopping, plans, history>>
      /\ pc = "publish" /\ pc' = "serve" /\ job' = 0
  BY DEF publishWithRetry
<1>2. StepTypes' /\ JobTypes'
  BY <1>0, <1>1, TypeParts DEF StepTypes, JobTypes
<1>3. PostTypes'
  <2>1. attempts' = attempts \/ attempts' = [attempts EXCEPT ![job] = @ + 1]
    BY DEF publishWithRetry, LogAttempt
  <2>2. \/ status' = status \/ status' = [status EXCEPT ![job] = "done"]
        \/ status' = [status EXCEPT ![job] = "queued"]
    BY DEF publishWithRetry
  <2> QED
    BY <1>0, <2>1, <2>2, TypeParts DEF PostTypes
<1>4. LimitTypes'
  BY <1>0, LimitsKept, TypeParts, TypesKept DEF publishWithRetry, LogAttempt
<1>5. Sound'
  BY <1>1, QuietStep
<1> QED
  BY <1>0, <1>1, <1>2, <1>3, <1>4, <1>5, TypeParts, TypesKept DEF Inv, Sound

LEMMA ResetSteps ==
  ASSUME Inv, EndTick \/ Restart \/ Crash
  PROVE  Inv'
<1>0. TypeOK
  BY DEF Inv
<1>1. /\ UNCHANGED <<phase, rows, posts, history>> /\ lag' = 0
      /\ agenda' = {} /\ tick' = NoTick /\ pc' = "sleep"
  BY DEF EndTick, Restart, Crash, Reboot
<1>2. Sound'
  BY <1>1, ResetStep
<1>3. TimeTypes' /\ AgendaTypes' /\ TickTypes'
  BY <1>0, <1>1, TypeParts, Bounds DEF TimeTypes, AgendaTypes, TickTypes
<1>4. StepTypes' /\ JobTypes' /\ PlanTypes'
  <2>1. CASE EndTick
    BY <1>0, <2>1, TypeParts, TypesKept DEF EndTick, StepTypes
  <2>2. CASE Reboot
    BY <2>2 DEF Reboot, StepTypes, JobTypes, PlanTypes
  <2> QED
    BY <2>1, <2>2 DEF Restart, Crash
<1>5. LimitTypes'
  BY <1>0, TypeParts DEF EndTick, Restart, Crash, LimitTypes
<1> QED
  BY <1>0, <1>1, <1>2, <1>3, <1>4, <1>5, TypeParts, TypesKept DEF Inv, Sound

-----------------------------------------------------------------------------
(***************************************************************************)
(* Time.                                                                   *)
(***************************************************************************)

LEMMA ClockTickStep ==
  ASSUME Inv, ClockTick
  PROVE  Inv'
<1> USE DEF Inv
<1> DEFINE at == (phase + 1) % Period
           older(i) == IF Exists(i) THEN Least(MaxAge, rows[i].age + 1) ELSE rows[i].age
           hits(i) == Cardinality({k \in DOMAIN rows[i].slots : rows[i].slots[k] = at})
<1>1. /\ phase' = at /\ at \in 0..(Period - 1)
      /\ lag' = IF pc = "sleep" \/ pc = "stopped" THEN 0 ELSE Least(MaxAge, lag + 1)
      /\ UNCHANGED <<posts, pc, agenda, tick, job, stopping, plans, debt, excused, budgets>>
  BY Fields, NextInstant DEF ClockTick
<1>2. lag' \in 0..MaxAge
  BY <1>1, Fields, Bounds DEF Least
<1>3. ASSUME NEW i \in Ids
      PROVE  /\ rows'[i] \in RowSet /\ rows'[i].status = rows[i].status
             /\ rows'[i].slots = rows[i].slots /\ rows'[i].age = older(i)
  <2>1. rows'[i] = [rows[i] EXCEPT !.age = older(i)]
    BY <1>3 DEF ClockTick
  <2>2. CASE Exists(i)
    <3>1. rows[i] \in [status: {"active", "paused"}, cred: Credentials, slots: SlotLists,
                       age: 0..MaxAge]
      BY <2>2, Fields DEF RowSet, Exists, NoRow, DeletedRow
    <3>2. older(i) \in 0..MaxAge
      BY <2>2, <3>1, Bounds DEF Least
    <3> QED
      BY <2>1, <3>1, <3>2 DEF RowSet
  <2>3. CASE ~Exists(i)
    <3>1. rows[i] = NoRow \/ rows[i] = DeletedRow
      BY <2>3, Fields DEF RowSet, Exists
    <3>2. [rows[i] EXCEPT !.age = rows[i].age] = rows[i]
      BY <3>1 DEF NoRow, DeletedRow
    <3> QED
      BY <2>1, <2>3, <3>2, Fields
  <2> QED
    BY <2>2, <2>3
<1>4. ASSUME NEW i \in Ids
      PROVE  /\ credit'[i] = Least(2 * MaxSlots, credit[i] + hits(i)) /\ hits(i) \in Nat
             /\ credit'[i] \in 0..(2 * MaxSlots)
  <2>1. credit'[i] = Least(2 * MaxSlots, credit[i] + hits(i))
    BY <1>4 DEF ClockTick, Strikes
  <2>2. hits(i) \in Nat
    BY Fields, DueGrows
  <2> HIDE DEF hits
  <2> QED
    BY <2>1, <2>2, Fields, Bounds DEF Least
<1>5. TypeOK'
  <2>1. RowTypes'
    BY <1>3 DEF ClockTick, RowTypes
  <2>2. HistoryTypes'
    <3>1. credit' \in [Ids -> 0..(2 * MaxSlots)]
      BY <1>4 DEF ClockTick
    <3> QED
      BY <1>1, <3>1, TypeParts DEF HistoryTypes
  <2>3. TimeTypes'
    BY <1>1, <1>2 DEF TimeTypes
  <2> QED
    BY <1>1, <2>1, <2>2, <2>3, TypeParts, TypesKept DEF StepTypes
<1>6. StepSound'
  BY <1>1 DEF StepSound
<1>7. AgendaSound'
  <2>1. ASSUME NEW r \in agenda, Exists(r.id)'
        PROVE  lag' <= rows'[r.id].age
    <3>1. r.id \in Ids /\ Exists(r.id) /\ lag <= rows[r.id].age /\ pc \notin {"sleep", "stopped"}
      BY <1>3, <2>1, Fields, SnapshotFields DEF Exists, AgendaSound, StepSound
    <3>2. lag' = Least(MaxAge, lag + 1) /\ rows'[r.id].age = Least(MaxAge, rows[r.id].age + 1)
      BY <1>1, <1>3, <3>1
    <3> QED
      BY <3>1, <3>2, Fields, Bounds DEF Least
  <2>2. \A r \in agenda : r.id \in Ids /\ ReadSound(r)'
    BY <1>3, Fields, SnapshotFields DEF AgendaSound, ReadSound
  <2>3. tick # NoTick => ReadSound(tick)'
    BY <1>1, <1>3, Fields, SnapshotFields DEF AgendaSound, ReadSound
  <2> QED
    BY <1>1, <2>1, <2>2, <2>3 DEF AgendaSound
<1>8. ASSUME NEW i \in Ids
      PROVE  /\ Due(i, rows[i].age)' <= Due(i, rows[i].age) + hits(i)
             /\ pc \notin {"sleep", "stopped"} => Due(i, lag)' <= Due(i, lag) + hits(i)
             /\ Due(i, rows[i].age)' \in 0..MaxSlots /\ Due(i, rows[i].age) \in 0..MaxSlots
             /\ Due(i, lag)' \in 0..MaxSlots /\ Due(i, lag) \in 0..MaxSlots
  <2>1. \A age : DueOf(at, rows'[i], age) = DueOf(at, rows[i], age)
    BY <1>3 DEF DueOf
  <2>2. CASE Exists(i)
    <3>1. /\ Due(i, rows[i].age)' = DueOf(at, rows[i], Least(MaxAge, rows[i].age + 1))
          /\ Due(i, rows[i].age) = DueOf(phase, rows[i], rows[i].age)
      BY <1>1, <1>3, <2>1, <2>2, DueIsDueOf
    <3>2. /\ Due(i, lag)' = DueOf(at, rows[i], lag')
          /\ Due(i, lag) = DueOf(phase, rows[i], lag)
      BY <1>1, <2>1, DueIsDueOf
    <3>3. /\ DueOf(at, rows[i], Least(MaxAge, rows[i].age + 1)) <=
               DueOf(phase, rows[i], rows[i].age) + hits(i)
          /\ DueOf(at, rows[i], Least(MaxAge, lag + 1)) <= DueOf(phase, rows[i], lag) + hits(i)
      BY Fields, DueGrows
    <3>4. Least(MaxAge, rows[i].age + 1) \in 0..MaxAge
      BY Fields, Bounds DEF Least
    <3> QED
      BY <1>1, <1>2, <3>1, <3>2, <3>3, <3>4, Fields, DueType
  <2>3. CASE ~Exists(i)
    <3>1. /\ Due(i, rows[i].age)' = 0 /\ Due(i, rows[i].age) = 0
          /\ Due(i, lag)' = 0 /\ Due(i, lag) = 0
      BY <1>3, <2>3 DEF Due, Exists
    <3> HIDE DEF hits
    <3> QED
      BY <1>4, <3>1, Bounds
  <2> QED
    BY <2>2, <2>3
<1> HIDE DEF hits
<1>9. ASSUME NEW i \in Ids
      PROVE  /\ Unused(i)' = Unused(i) + hits(i) \/ Unused(i)' >= 2 * MaxSlots
             /\ Unused(i)' \in Int
  <2>1. /\ Unused(i)' = excused[i] + credit'[i] - debt[i] /\ debt[i] <= excused[i]
        /\ Unused(i) = excused[i] + credit[i] - debt[i]
    BY <1>1 DEF Unused, Covered
  <2>2. /\ credit[i] \in Nat /\ credit'[i] \in Nat /\ debt[i] \in Nat /\ excused[i] \in Nat
        /\ hits(i) \in Nat
    BY <1>4, Fields, Bounds
  <2>3. credit'[i] = credit[i] + hits(i) \/ credit'[i] = 2 * MaxSlots
    BY <1>4 DEF Least
  <2> QED
    BY <2>1, <2>2, <2>3, Bounds
<1>10. Covered'
  <2>0. ASSUME NEW i \in Ids
        PROVE  hits(i) \in Nat /\ Unused(i)' \in Int /\ Unused(i) \in Int
    BY <1>4, <1>9, Fields
  <2>1. \A i \in Ids : debt'[i] <= excused'[i] /\ Due(i, rows[i].age)' <= Unused(i)'
    <3> SUFFICES ASSUME NEW i \in Ids
                 PROVE  debt'[i] <= excused'[i] /\ Due(i, rows[i].age)' <= Unused(i)'
      OBVIOUS
    <3>1. debt'[i] <= excused'[i] /\ Due(i, rows[i].age) <= Unused(i)
      BY <1>1 DEF Covered
    <3>2. /\ Due(i, rows[i].age)' <= Due(i, rows[i].age) + hits(i)
          /\ Due(i, rows[i].age)' \in 0..MaxSlots /\ Due(i, rows[i].age) \in 0..MaxSlots
      BY <1>8
    <3>3. Unused(i)' = Unused(i) + hits(i) \/ Unused(i)' >= 2 * MaxSlots
      BY <1>9
    <3>4. Due(i, rows[i].age)' <= Unused(i)'
      BY <2>0, <3>1, <3>2, <3>3, Bounds
    <3> QED
      BY <3>1, <3>4
  <2>2. ASSUME NEW r \in agenda
        PROVE  Servable(r.slots, r.fires) + Due(r.id, lag)' <= Unused(r.id)'
    <3>1. r.id \in Ids /\ pc \notin {"sleep", "stopped"}
      BY Fields, SnapshotFields DEF StepSound
    <3>2. Servable(r.slots, r.fires) \in 0..MaxSlots
      BY Fields, SnapshotFields, ServableType DEF AgendaSound, ReadSound
    <3>3. Servable(r.slots, r.fires) + Due(r.id, lag) <= Unused(r.id)
      BY DEF Covered
    <3>4. /\ Due(r.id, lag)' <= Due(r.id, lag) + hits(r.id)
          /\ Due(r.id, lag)' \in 0..MaxSlots /\ Due(r.id, lag) \in 0..MaxSlots
      BY <1>8, <3>1
    <3> QED
      BY <1>9, <2>0, <3>1, <3>2, <3>3, <3>4, Bounds
  <2>3. ASSUME tick # NoTick
        PROVE  Left' + Due(tick.id, rows[tick.id].age)' <= Unused(tick.id)'
    <3>1. tick.id \in Ids /\ Left' = Left /\ UNCHANGED tick
      BY <1>1, <2>3, Fields, SnapshotFields DEF Left
    <3>2. Left \in 0..MaxSlots
      BY <2>3, LeftType
    <3>3. Left + Due(tick.id, rows[tick.id].age) <= Unused(tick.id)
      BY <2>3 DEF Covered
    <3>4. /\ Due(tick.id, rows[tick.id].age)' <= Due(tick.id, rows[tick.id].age) + hits(tick.id)
          /\ Due(tick.id, rows[tick.id].age)' \in 0..MaxSlots
          /\ Due(tick.id, rows[tick.id].age) \in 0..MaxSlots
      BY <1>8, <3>1
    <3>5. Unused(tick.id)' = Unused(tick.id) + hits(tick.id) \/ Unused(tick.id)' >= 2 * MaxSlots
      BY <1>9, <3>1
    <3> QED
      BY <2>0, <3>1, <3>2, <3>3, <3>4, <3>5, Bounds
  <2> QED
    BY <1>1, <2>1, <2>2, <2>3 DEF Covered
<1> QED
  BY <1>5, <1>6, <1>7, <1>10

-----------------------------------------------------------------------------
(***************************************************************************)
(* The tools.                                                              *)
(***************************************************************************)

\* One row changes, and at most n firings more are due for it, which are
\* excused.
LEMMA RowStep ==
  ASSUME Inv, NEW i \in Ids, NEW row \in RowSet, NEW n \in Nat, row.status # "unborn",
         rows' = [rows EXCEPT ![i] = row], excused'[i] = excused[i] + n,
         \A j \in Ids \ {i} : excused'[j] = excused[j],
         UNCHANGED <<phase, pc, agenda, tick, lag, credit, debt>>,
         DueOf(phase, row, row.age) <= DueOf(phase, rows[i], rows[i].age) + n,
         \A r \in agenda : r.id = i =>
           /\ row.status \in {"active", "paused"} => lag <= row.age
           /\ DueOf(phase, row, lag) <= DueOf(phase, rows[i], lag) + n
  PROVE  Sound'
<1> USE DEF Inv
<1>0. rows'[i] = row /\ \A j \in Ids \ {i} : rows'[j] = rows[j]
  BY TypeParts DEF RowTypes
<1>1. StepSound'
  BY DEF StepSound
<1>2. AgendaSound'
  <2>1. \A r \in agenda : r.id \in Ids
    BY Fields, SnapshotFields
  <2>2. tick # NoTick => tick.id \in Ids
    BY Fields, SnapshotFields
  <2> QED
    BY <1>0, <2>1, <2>2 DEF AgendaSound, ReadSound, Exists
<1>3. ASSUME NEW j \in Ids
      PROVE  /\ Unused(j) \in Int /\ Unused(j)' \in Int
             /\ Unused(j)' = Unused(j) + (IF j = i THEN n ELSE 0)
             /\ debt'[j] <= excused'[j]
             /\ Due(j, rows[j].age) \in Nat /\ Due(j, rows[j].age)' \in Nat
             /\ Due(j, rows[j].age)' <= Due(j, rows[j].age) + (IF j = i THEN n ELSE 0)
  <2>1. credit[j] \in Nat /\ debt[j] \in Nat /\ excused[j] \in Nat /\ debt[j] <= excused[j]
    BY Fields, Bounds DEF Covered
  <2>2. excused'[j] = excused[j] + (IF j = i THEN n ELSE 0)
    BY <2>1
  <2>3. /\ Unused(j) \in Int /\ Unused(j)' \in Int
        /\ Unused(j)' = Unused(j) + (IF j = i THEN n ELSE 0)
        /\ debt'[j] <= excused'[j]
    BY <2>1, <2>2 DEF Unused
  <2>4. /\ Due(j, rows[j].age) = DueOf(phase, rows[j], rows[j].age)
        /\ Due(j, rows[j].age)' = DueOf(phase, rows'[j], rows'[j].age)
    BY DueIsDueOf
  <2>5. rows'[j] \in RowSet /\ rows'[j].age \in 0..MaxAge
    BY <1>0, Fields, RowFields
  <2>6. Due(j, rows[j].age) \in Nat /\ Due(j, rows[j].age)' \in Nat
    BY <2>4, <2>5, Fields, DueType
  <2>7. Due(j, rows[j].age)' <= Due(j, rows[j].age) + (IF j = i THEN n ELSE 0)
    BY <1>0, <2>4, <2>6
  <2> QED
    BY <2>3, <2>6, <2>7
<1>4. \A j \in Ids : debt'[j] <= excused'[j] /\ Due(j, rows[j].age)' <= Unused(j)'
  <2> SUFFICES ASSUME NEW j \in Ids PROVE Due(j, rows[j].age)' <= Unused(j)'
    BY <1>3
  <2>1. Due(j, rows[j].age) <= Unused(j)
    BY DEF Covered
  <2> QED
    BY <1>3, <2>1
<1>5. ASSUME NEW r \in agenda
      PROVE  Servable(r.slots, r.fires) + Due(r.id, lag)' <= Unused(r.id)'
  <2>1. r.id \in Ids /\ Servable(r.slots, r.fires) \in Nat
    BY Fields, SnapshotFields, ServableType, Bounds DEF AgendaSound, ReadSound
  <2>2. Servable(r.slots, r.fires) + Due(r.id, lag) <= Unused(r.id)
    BY DEF Covered
  <2>3. /\ Due(r.id, lag) = DueOf(phase, rows[r.id], lag)
        /\ Due(r.id, lag)' = DueOf(phase, rows'[r.id], lag)
    BY DueIsDueOf
  <2>4. rows'[r.id] \in RowSet
    BY <1>0, <2>1, Fields
  <2>5. Due(r.id, lag) \in Nat /\ Due(r.id, lag)' \in Nat
    BY <2>1, <2>3, <2>4, Fields, DueType
  <2>6. Due(r.id, lag)' <= Due(r.id, lag) + (IF r.id = i THEN n ELSE 0)
    BY <1>0, <2>1, <2>3, <2>5
  <2> QED
    BY <1>3, <2>1, <2>2, <2>5, <2>6
<1>6. ASSUME tick # NoTick
      PROVE  Left' + Due(tick.id, rows[tick.id].age)' <= Unused(tick.id)'
  <2>1. tick.id \in Ids /\ Left' = Left /\ UNCHANGED tick
    BY <1>6, Fields, SnapshotFields DEF Left
  <2>2. Left \in Nat
    BY <1>6, LeftType, Bounds
  <2>3. Left + Due(tick.id, rows[tick.id].age) <= Unused(tick.id)
    BY <1>6 DEF Covered
  <2> QED
    BY <1>3, <2>1, <2>2, <2>3
<1> QED
  BY <1>1, <1>2, <1>4, <1>5, <1>6 DEF Sound, Covered

LEMMA MCPCreateStep ==
  ASSUME Inv, NEW i \in Ids, MCPCreate(i)
  PROVE  Inv'
<1>0. TypeOK
  BY DEF Inv
<1>1. PICK c \in Credentials, s \in SlotLists, st \in {"active", "paused"} :
        /\ rows[i].status = "unborn"
        /\ Spend
        /\ rows' = [rows EXCEPT ![i] = [status |-> st, cred |-> c, slots |-> s, age |-> 0]]
        /\ UNCHANGED <<posts, plans, history>>
        /\ Calm
  BY DEF MCPCreate
<1>2. PICK row : row = [status |-> st, cred |-> c, slots |-> s, age |-> 0]
  OBVIOUS
<1>3. row \in RowSet /\ row.status # "unborn" /\ row.age = 0
  BY <1>2, Bounds DEF RowSet
<1>4. DueOf(phase, row, row.age) = 0 /\ DueOf(phase, rows[i], rows[i].age) = 0
  BY <1>0, <1>1, <1>3, DueEmpty DEF DueOf
<1>5. \A r \in agenda : r.id # i
  BY <1>1 DEF Inv, AgendaSound, ReadSound
<1>6. PICK n \in Nat : n = 0
  OBVIOUS
<1>7. Sound'
  <2>1. excused'[i] = excused[i] + n /\ UNCHANGED <<phase, pc, agenda, tick, lag, history>>
    BY <1>0, <1>1, <1>6, Fields DEF Calm
  <2>2. DueOf(phase, row, row.age) <= DueOf(phase, rows[i], rows[i].age) + n
    BY <1>4, <1>6
  <2>3. rows' = [rows EXCEPT ![i] = row]
    BY <1>1, <1>2
  <2> QED
    BY <1>3, <1>5, <2>1, <2>2, <2>3, RowStep
<1>8. RowTypes'
  BY <1>0, <1>1, <1>2, <1>3, TypeParts DEF RowTypes
<1> QED
  BY <1>0, <1>1, <1>7, <1>8, TypeParts, TypesKept, LimitsKept DEF Inv, Sound, Calm

LEMMA MCPDeleteStep ==
  ASSUME Inv, NEW i \in Ids, MCPDelete(i)
  PROVE  Inv'
<1>0. TypeOK
  BY DEF Inv
<1>1. /\ rows' = [rows EXCEPT ![i] = DeletedRow] /\ Spend
      /\ UNCHANGED <<posts, plans, history, phase, scheduler>>
  BY DEF MCPDelete, Calm
<1>2. DeletedRow \in RowSet /\ DeletedRow.status = "deleted" /\ DeletedRow.age = 0
  BY DEF RowSet, DeletedRow, NoRow
<1>3. \A age : DueOf(phase, DeletedRow, age) = 0
  BY <1>2 DEF DueOf
<1>4. PICK n \in Nat : n = 0
  OBVIOUS
<1>5. Sound'
  <2>1. DueOf(phase, rows[i], rows[i].age) \in Nat /\ DueOf(phase, rows[i], lag) \in Nat
    BY <1>0, Fields, DueType
  <2>2. /\ DueOf(phase, DeletedRow, DeletedRow.age) <= DueOf(phase, rows[i], rows[i].age) + n
        /\ DueOf(phase, DeletedRow, lag) <= DueOf(phase, rows[i], lag) + n
    BY <1>3, <1>4, <2>1
  <2>3. excused'[i] = excused[i] + n /\ UNCHANGED <<phase, pc, agenda, tick, lag, history>>
    BY <1>0, <1>1, <1>4, Fields
  <2>4. DeletedRow.status \notin {"active", "paused", "unborn"}
    BY <1>2
  <2> QED
    BY <1>1, <1>2, <2>2, <2>3, <2>4, RowStep
<1>6. RowTypes'
  BY <1>0, <1>1, <1>2, TypeParts DEF RowTypes
<1> QED
  BY <1>0, <1>1, <1>5, <1>6, TypeParts, TypesKept, LimitsKept DEF Inv, Sound

LEMMA updateScheduleStep ==
  ASSUME Inv, NEW c \in Clients, updateSchedule(c)
  PROVE  Inv'
<1>0. TypeOK
  BY DEF Inv
<1> DEFINE w == plans[c]
           i == w.id
           repeated == IF w.slots = rows[i].slots THEN 0
                       ELSE Servable(w.slots, firedSlotsBetween(w.slots, rows[i].age))
<1>1. /\ plans' = [plans EXCEPT ![c] = NoPlan]
      /\ UNCHANGED <<posts, credit, debt, budgets, phase, scheduler>>
  BY DEF updateSchedule, Calm
<1>2. /\ i \in Ids /\ w.status \in {"active", "paused"} /\ w.slots \in SlotLists
      /\ PlanTypes'
  <2>1. w \in [id: Ids, status: {"active", "paused"}, slots: SlotLists]
    BY <1>0, TypeParts DEF updateSchedule, PlanTypes
  <2> QED
    BY <1>0, <1>1, <2>1, TypeParts DEF PlanTypes
<1>3. CASE UNCHANGED <<rows, excused>>
  <2>1. Sound'
    BY <1>1, <1>3, QuietStep DEF Inv, StepSound
  <2> QED
    BY <1>0, <1>1, <1>2, <1>3, <2>1, TypeParts, TypesKept DEF Inv, Sound
<1>4. CASE /\ Exists(i)
           /\ rows' = [rows EXCEPT ![i].slots = w.slots, ![i].status = w.status]
           /\ excused' = [excused EXCEPT ![i] = @ + repeated]
  <2> DEFINE row == [rows[i] EXCEPT !.slots = w.slots, !.status = w.status]
  <2>1. rows[i] \in [status: {"active", "paused"}, cred: Credentials, slots: SlotLists,
                     age: 0..MaxAge]
    BY <1>0, <1>2, <1>4, Fields DEF RowSet, Exists, NoRow, DeletedRow
  <2>2. /\ row \in RowSet /\ row.status = w.status /\ row.slots = w.slots
        /\ row.age = rows[i].age /\ rows[i].slots \in SlotLists
    BY <1>2, <2>1 DEF RowSet
  <2>3. rows' = [rows EXCEPT ![i] = row]
    BY <1>0, <1>2, <1>4, TypeParts DEF RowTypes
  <2> HIDE DEF row
  <2>4. /\ \A age : DueOf(phase, row, age) = Servable(w.slots, Window(phase, w.slots, age))
        /\ \A age : DueOf(phase, rows[i], age) =
             Servable(rows[i].slots, Window(phase, rows[i].slots, age))
        /\ w.slots # rows[i].slots => repeated = DueOf(phase, row, rows[i].age)
    BY <1>2, <1>4, <2>2, FiredIsWindow DEF DueOf, Exists
  <2>5. /\ rows[i].age \in 0..MaxAge /\ lag \in 0..MaxAge
        /\ DueOf(phase, row, rows[i].age) \in Nat /\ DueOf(phase, rows[i], rows[i].age) \in Nat
        /\ DueOf(phase, row, lag) \in Nat /\ DueOf(phase, rows[i], lag) \in Nat
    BY <1>0, <1>2, <2>2, Fields, DueType
  <2>6. repeated \in Nat
    BY <2>4, <2>5
  <2>7. DueOf(phase, row, row.age) <= DueOf(phase, rows[i], rows[i].age) + repeated
    BY <2>2, <2>4, <2>5
  <2>8. ASSUME NEW r \in agenda, r.id = i
        PROVE  /\ lag <= row.age
               /\ DueOf(phase, row, lag) <= DueOf(phase, rows[i], lag) + repeated
    <3>1. lag <= rows[i].age
      BY <1>4, <2>8 DEF Inv, AgendaSound
    <3>2. DueOf(phase, row, lag) <= DueOf(phase, row, rows[i].age)
      BY <2>2, <2>5, <3>1, DueMonotone
    <3> QED
      BY <2>2, <2>4, <2>5, <3>1, <3>2
  <2> HIDE DEF repeated
  <2>9. /\ excused'[i] = excused[i] + repeated /\ excused'[i] \in Nat
        /\ \A j \in Ids \ {i} : excused'[j] = excused[j]
        /\ HistoryTypes'
    BY <1>0, <1>1, <1>2, <1>4, <2>6, TypeParts DEF HistoryTypes
  <2>10. Sound'
    <3>1. i \in Ids /\ row \in RowSet /\ repeated \in Nat /\ row.status # "unborn"
      BY <1>2, <2>2, <2>6
    <3>2. UNCHANGED <<phase, pc, agenda, tick, lag, credit, debt>>
      BY <1>1
    <3>3. excused'[i] = excused[i] + repeated /\ \A j \in Ids \ {i} : excused'[j] = excused[j]
      BY <2>9
    <3> HIDE DEF w, i
    <3> QED
      BY <2>3, <2>7, <2>8, <3>1, <3>2, <3>3, RowStep
  <2>11. RowTypes'
    BY <1>0, <2>2, <2>3, TypeParts DEF RowTypes
  <2> QED
    BY <1>0, <1>1, <1>2, <2>9, <2>10, <2>11, TypeParts, TypesKept DEF Inv, Sound
<1> QED
  BY <1>3, <1>4 DEF updateSchedule

-----------------------------------------------------------------------------
(***************************************************************************)
(* The tick.                                                               *)
(***************************************************************************)

LEMMA LeastElement ==
  ASSUME NEW S \in SUBSET Nat, S # {}
  PROVE  Min(S) \in S /\ \A x \in S : Min(S) <= x
<1>1. PICK least \in S : \A x \in S : ~(<<x, least>> \in OpToRel(<, Nat))
  BY NatLessThanWellFounded, WFMin
<1>2. ASSUME NEW x \in S
      PROVE  least <= x
  <2>1. <<x, least>> \in Nat \X Nat /\ <<x, least>>[1] = x /\ <<x, least>>[2] = least
    OBVIOUS
  <2>2. ~(x < least)
    BY <1>1, <2>1, Zenon DEF OpToRel
  <2> QED
    BY <2>2
<1> QED
  BY <1>1, <1>2 DEF Min

LEMMA CountsAreSeq ==
  ASSUME NEW n \in Nat, NEW counts \in CountsOf(n)
  PROVE  counts \in Seq(Nat) /\ DOMAIN counts = 1..n
BY DEF CountsOf

LEMMA SnapshotType ==
  ASSUME TypeOK, NEW i \in listActiveSchedules
  PROVE  /\ Snapshot(i) \in Snapshots
         /\ Snapshot(i).fires \in CountsOf(Len(Snapshot(i).slots))
         /\ Servable(Snapshot(i).slots, Snapshot(i).fires) = Due(i, rows[i].age)
<1>1. /\ i \in Ids /\ Exists(i) /\ rows[i].slots \in SlotLists /\ rows[i].cred \in Credentials
      /\ rows[i].age \in 0..MaxAge
  BY Fields, RowFields DEF listActiveSchedules, Exists
<1>2. firedSlotsBetween(rows[i].slots, rows[i].age) \in CountsOf(Len(rows[i].slots))
  BY <1>1, FiredIsWindow, WindowType
<1>3. firedSlotsBetween(rows[i].slots, rows[i].age) \in Seq(Nat)
  BY <1>1, <1>2, Bounds, CountsAreSeq
<1> QED
  BY <1>1, <1>2, <1>3 DEF Snapshot, Snapshots, Due

LEMMA BeginTickStep ==
  ASSUME Inv, BeginTick
  PROVE  Inv'
<1>0. TypeOK
  BY DEF Inv
<1>1. /\ pc = "sleep" /\ pc' = "tick" /\ lag' = 0
      /\ agenda' = {Snapshot(i) : i \in listActiveSchedules}
      /\ UNCHANGED <<phase, rows, posts, tick, job, stopping, plans, history, budgets>>
  BY DEF BeginTick
<1>2. tick = NoTick /\ tick' = NoTick /\ StepSound'
  BY <1>1 DEF Inv, StepSound
<1>3. ASSUME NEW r \in agenda'
      PROVE  /\ r \in Snapshots /\ r.id \in Ids /\ Exists(r.id) /\ r = Snapshot(r.id)
             /\ r.served = 0 /\ r.fires \in CountsOf(Len(r.slots))
             /\ Servable(r.slots, r.fires) = Due(r.id, rows[r.id].age)
  <2>1. PICK i \in listActiveSchedules : r = Snapshot(i)
    BY <1>1
  <2>2. r.id = i /\ r.served = 0
    BY <2>1 DEF Snapshot
  <2> QED
    BY <1>0, <2>1, <2>2, SnapshotType DEF listActiveSchedules, Exists
<1>4. AgendaTypes' /\ TimeTypes' /\ StepTypes'
  BY <1>0, <1>1, <1>3, Bounds, TypeParts DEF AgendaTypes, TimeTypes, StepTypes
<1>5. AgendaSound'
  <2>1. ASSUME NEW r \in agenda'
        PROVE  /\ ReadSound(r)' /\ r.served = 0 /\ r.id # NoId
               /\ \A q \in agenda' : q.id = r.id => q = r
               /\ lag' <= rows'[r.id].age
    <3>1. ReadSound(r)'
      BY <1>1, <1>3 DEF ReadSound, Exists
    <3>2. lag' <= rows'[r.id].age
      BY <1>0, <1>1, <1>3, Fields
    <3> QED
      BY <1>3, <3>1, <3>2, IdAssumption
  <2> QED
    BY <1>1, <1>2, <2>1 DEF AgendaSound, NoTick
<1>6. \A i \in Ids : /\ Due(i, rows[i].age)' = Due(i, rows[i].age) /\ Unused(i)' = Unused(i)
                     /\ Due(i, lag)' = 0 /\ Due(i, rows[i].age) \in Nat
  BY <1>0, <1>1, DueIsDueOf, DueEmpty, DueType, Fields DEF Unused
<1>7. Covered'
  <2>1. ASSUME NEW r \in agenda'
        PROVE  Servable(r.slots, r.fires) + Due(r.id, lag)' <= Unused(r.id)'
    <3>1. Due(r.id, rows[r.id].age) <= Unused(r.id)
      BY <1>3 DEF Inv, Covered
    <3> QED
      BY <1>3, <1>6, <3>1
  <2>2. \A i \in Ids : debt'[i] <= excused'[i] /\ Due(i, rows[i].age)' <= Unused(i)'
    BY <1>1, <1>6 DEF Inv, Covered
  <2> QED
    BY <1>2, <2>1, <2>2 DEF Covered
<1> QED
  BY <1>0, <1>1, <1>2, <1>4, <1>5, <1>7, TypeParts, TypesKept DEF Inv

LEMMA ProcessScheduleStep ==
  ASSUME Inv, NEW r \in agenda, ProcessSchedule(r)
  PROVE  Inv'
<1>0. TypeOK
  BY DEF Inv
<1> DEFINE served == Servable(r.slots, r.fires)
<1>1. /\ pc = "tick" /\ pc' = "serve" /\ agenda' = agenda \ {r} /\ tick' = r
      /\ UNCHANGED <<phase, posts, job, lag, stopping, plans, credit, debt>>
  BY DEF ProcessSchedule
<1>2. /\ r \in Snapshots /\ r.id \in Ids /\ r # NoTick /\ r.served = 0 /\ ReadSound(r)
      /\ \A q \in agenda' : q \in agenda /\ q.id \in Ids /\ q.id # r.id
      /\ Exists(r.id) => lag <= rows[r.id].age
      /\ Len(r.slots) \in Nat /\ served \in Nat
  <2>1. r \in Snapshots /\ ReadSound(r)
    BY <1>0, Fields DEF Inv, AgendaSound
  <2>2. r.slots \in SlotLists /\ served \in Nat
    BY <2>1, SnapshotFields, ServableType, Bounds DEF ReadSound
  <2>3. \A q \in agenda' : q \in agenda /\ q.id \in Ids /\ q.id # r.id
    BY <1>0, <1>1, Fields, SnapshotFields DEF Inv, AgendaSound
  <2> QED
    BY <2>1, <2>2, <2>3, Bounds, SnapshotFields DEF Inv, AgendaSound
<1>3. StepSound'
  BY <1>1, <1>2 DEF StepSound
<1>4. Left' = served
  BY <1>1, <1>2 DEF Left, Servable
<1>5. AgendaTypes' /\ TickTypes' /\ StepTypes' /\ TimeTypes' /\ LimitTypes'
  <2>1. AgendaTypes' /\ TickTypes'
    BY <1>0, <1>1, <1>2, TypeParts DEF AgendaTypes, TickTypes
  <2>2. LimitTypes'
    BY <1>0, LimitsKept, TypeParts, TypesKept DEF ProcessSchedule
  <2> QED
    BY <1>0, <1>1, <2>1, <2>2, TypeParts, TypesKept DEF StepTypes
<1>6. \A i \in Ids : /\ Due(i, rows[i].age) \in Nat /\ Due(i, lag) \in Nat /\ Unused(i) \in Int
                     /\ Due(i, rows[i].age) <= Unused(i) /\ debt[i] <= excused[i]
                     /\ credit[i] \in Nat /\ debt[i] \in Nat /\ excused[i] \in Nat
  BY <1>0, Fields, DueIsDueOf, DueType, Bounds DEF Inv, Covered
<1>7. /\ \A q \in agenda : Servable(q.slots, q.fires) + Due(q.id, lag) <= Unused(q.id)
      /\ served + Due(r.id, lag) <= Unused(r.id)
  BY <1>2 DEF Inv, Covered
<1>8. CASE updateScheduleLastTick(r.id) /\ UNCHANGED <<excused, budgets>>
  <2>1. ASSUME NEW i \in Ids
        PROVE  /\ rows'[i] \in RowSet
               /\ rows'[i] = IF i = r.id /\ Exists(i) THEN [rows[i] EXCEPT !.age = lag] ELSE rows[i]
               /\ rows'[i].status = rows[i].status /\ rows'[i].slots = rows[i].slots
    <3>1. rows'[i] = IF i = r.id /\ Exists(i) THEN [rows[i] EXCEPT !.age = lag] ELSE rows[i]
      BY <1>0, <1>2, <1>8, TypeParts DEF updateScheduleLastTick, RowTypes
    <3>2. CASE i = r.id /\ Exists(i)
      <4>1. rows[i] \in [status: {"active", "paused"}, cred: Credentials, slots: SlotLists,
                         age: 0..MaxAge]
        BY <1>0, <3>2, Fields DEF RowSet, Exists, NoRow, DeletedRow
      <4> QED
        BY <1>0, <3>1, <3>2, <4>1, Fields DEF RowSet
    <3>3. CASE ~(i = r.id /\ Exists(i))
      BY <1>0, <3>1, <3>3, Fields
    <3> QED
      BY <3>1, <3>2, <3>3
  <2>2. RowTypes'
    BY <1>0, <1>8, <2>1, TypeParts DEF updateScheduleLastTick, RowTypes
  <2>3. AgendaSound'
    <3>1. ReadSound(r)'
      BY <1>2, <2>1 DEF ReadSound
    <3>2. ASSUME NEW q \in agenda'
          PROVE  /\ ReadSound(q)' /\ q.served = 0 /\ q.id # r.id
                 /\ \A p \in agenda' : p.id = q.id => p = q
                 /\ Exists(q.id)' => lag' <= rows'[q.id].age
      <4>1. q \in agenda /\ q.id \in Ids /\ q.id # r.id /\ rows'[q.id] = rows[q.id]
        BY <1>2, <2>1
      <4> QED
        BY <1>1, <1>2, <4>1 DEF Inv, AgendaSound, ReadSound, Exists
    <3> QED
      BY <1>1, <3>1, <3>2 DEF AgendaSound
  <2>4. ASSUME NEW i \in Ids
        PROVE  /\ Unused(i)' = Unused(i)
               /\ Due(i, lag)' = Due(i, lag)
               /\ Due(i, rows[i].age)' = IF i = r.id THEN Due(i, lag) ELSE Due(i, rows[i].age)
    <3>1. /\ Due(i, rows[i].age)' = DueOf(phase, rows'[i], rows'[i].age)
          /\ Due(i, lag)' = DueOf(phase, rows'[i], lag)
          /\ Due(i, lag) = DueOf(phase, rows[i], lag)
          /\ Due(i, rows[i].age) = DueOf(phase, rows[i], rows[i].age)
      BY <1>1, DueIsDueOf
    <3>2. \A age : DueOf(phase, rows'[i], age) = DueOf(phase, rows[i], age)
      BY <2>1 DEF DueOf
    <3>3. CASE i = r.id /\ Exists(i)
      <4>1. rows'[i].age = lag
        BY ZenonT(40), <1>0, <2>1, <3>3, Fields DEF RowSet, Exists, NoRow, DeletedRow
      <4> QED
        BY <1>1, <1>8, <3>1, <3>2, <3>3, <4>1 DEF Unused
    <3>4. CASE i = r.id /\ ~Exists(i)
      BY <1>1, <1>8, <2>1, <3>1, <3>4 DEF Unused, DueOf, Exists
    <3>5. CASE i # r.id
      BY <1>1, <1>8, <2>1, <3>1, <3>2, <3>5 DEF Unused
    <3> QED
      BY <3>3, <3>4, <3>5
  <2>5. Covered'
    <3>1. \A i \in Ids : debt'[i] <= excused'[i] /\ Due(i, rows[i].age)' <= Unused(i)'
      <4> SUFFICES ASSUME NEW i \in Ids
                   PROVE  debt'[i] <= excused'[i] /\ Due(i, rows[i].age)' <= Unused(i)'
        OBVIOUS
      <4>1. Due(i, rows[i].age)' <= Unused(i)
        BY <1>2, <1>6, <1>7, <2>4
      <4> QED
        BY <1>1, <1>6, <1>8, <2>4, <4>1
    <3>2. \A q \in agenda' : Servable(q.slots, q.fires) + Due(q.id, lag)' <= Unused(q.id)'
      BY <1>2, <1>7, <2>4
    <3>3. Left' + Due(r.id, rows[r.id].age)' <= Unused(r.id)'
      BY <1>2, <1>4, <1>7, <2>4
    <3>4. tick'.id = r.id
      BY <1>1
    <3> QED
      BY <1>1, <3>1, <3>2, <3>3 DEF Covered
  <2> QED
    BY <1>0, <1>1, <1>3, <1>5, <1>8, <2>2, <2>3, <2>5, TypeParts, TypesKept DEF Inv
<1>9. CASE /\ excused' = [excused EXCEPT ![r.id] = @ + served]
           /\ UNCHANGED rows
  <2>1. AgendaSound'
    BY <1>1, <1>2, <1>9 DEF Inv, AgendaSound, ReadSound, Exists
  <2>2. ASSUME NEW i \in Ids
        PROVE  /\ Unused(i)' = Unused(i) + (IF i = r.id THEN served ELSE 0)
               /\ excused'[i] = excused[i] + (IF i = r.id THEN served ELSE 0)
               /\ excused'[i] \in Nat
               /\ Due(i, lag)' = Due(i, lag) /\ Due(i, rows[i].age)' = Due(i, rows[i].age)
    <3>0. excused \in [Ids -> Nat]
      BY <1>0, TypeParts DEF HistoryTypes
    <3> HIDE DEF served
    <3>1. excused'[i] = excused[i] + (IF i = r.id THEN served ELSE 0)
      BY <1>2, <1>9, <3>0
    <3>2. Due(i, lag)' = Due(i, lag) /\ Due(i, rows[i].age)' = Due(i, rows[i].age)
      BY <1>1, <1>9, DueIsDueOf
    <3> QED
      BY SMTT(30), <1>1, <1>2, <1>6, <3>1, <3>2 DEF Unused
  <2>3. HistoryTypes'
    BY <1>0, <1>1, <1>9, <2>2, TypeParts DEF HistoryTypes
  <2>4. Covered'
    <3> HIDE DEF served
    <3>1. ASSUME NEW i \in Ids
          PROVE  debt'[i] <= excused'[i] /\ Due(i, rows[i].age)' <= Unused(i)'
      <4>1. /\ debt'[i] = debt[i] /\ excused[i] <= excused'[i] /\ Unused(i) <= Unused(i)'
            /\ Unused(i)' \in Int /\ Due(i, rows[i].age)' = Due(i, rows[i].age)
        BY <1>1, <1>2, <1>6, <2>2
      <4> QED
        BY <1>6, <2>2, <4>1
    <3>2. ASSUME NEW q \in agenda'
          PROVE  Servable(q.slots, q.fires) + Due(q.id, lag)' <= Unused(q.id)'
      <4>1. q \in agenda /\ q.id \in Ids /\ q.id # r.id
        BY <1>2
      <4>2. Unused(q.id)' = Unused(q.id) /\ Due(q.id, lag)' = Due(q.id, lag)
        BY <1>6, <2>2, <4>1
      <4> QED
        BY <1>7, <4>1, <4>2
    <3>3. Left' + Due(r.id, rows[r.id].age)' <= Unused(r.id)'
      BY <1>2, <1>4, <1>6, <2>2
    <3> QED
      BY <1>1, <3>1, <3>2, <3>3 DEF Covered
  <2> QED
    BY <1>0, <1>1, <1>3, <1>5, <1>9, <2>1, <2>3, <2>4, TypeParts, TypesKept DEF Inv
<1> QED
  BY <1>8, <1>9 DEF ProcessSchedule

\* The slot whose turn it is has a firing left.
LEMMA SlotInTurnFires ==
  ASSUME TypeOK, AgendaSound, tick # NoTick, ~DoneServing
  PROVE  /\ tick \in Snapshots /\ tick.id \in Ids /\ Len(tick.slots) \in Nat
         /\ tick.fires \in CountsOf(Len(tick.slots)) /\ tick.served < Len(tick.slots)
         /\ SlotInTurn(tick.fires) \in 1..Len(tick.slots)
         /\ tick.fires[SlotInTurn(tick.fires)] > 0
<1> DEFINE some == {k \in DOMAIN tick.fires : tick.fires[k] > 0}
<1>1. /\ tick \in Snapshots /\ tick.id \in Ids /\ Len(tick.slots) \in Nat
      /\ tick.fires \in CountsOf(Len(tick.slots)) /\ tick.served \in Nat
  BY Fields, SnapshotFields, Bounds DEF AgendaSound, ReadSound
<1>2. DOMAIN tick.fires = 1..Len(tick.slots) /\ \A k \in DOMAIN tick.fires : tick.fires[k] \in Nat
  BY <1>1 DEF CountsOf
<1>3. tick.served < Len(tick.slots) /\ some # {}
  BY <1>1, <1>2 DEF DoneServing
<1>4. some \in SUBSET Nat
  BY <1>2
<1>5. Min(some) \in some
  BY <1>3, <1>4, LeastElement
<1> QED
  BY <1>1, <1>2, <1>3, <1>5 DEF SlotInTurn

\* The tick uses up some of its firings, and no more of the schedule's than it
\* has.
LEMMA ServeStep ==
  ASSUME Inv, tick # NoTick, tick' \in Snapshots, NEW used \in Nat,
         tick'.id = tick.id, tick'.slots = tick.slots,
         tick'.fires \in CountsOf(Len(tick.slots)), tick'.served <= Len(tick.slots),
         pc' \in {"serve", "publish"},
         Left' \in Nat, Left' <= Left - used,
         UNCHANGED <<phase, rows, agenda, lag, excused>>,
         \A i \in Ids : debt'[i] <= excused[i],
         \A i \in Ids : Unused(i)' = Unused(i) - (IF i = tick.id THEN used ELSE 0)
  PROVE  Sound'
<1>0. TypeOK
  BY DEF Inv
<1>1. tick \in Snapshots /\ tick.id \in Ids /\ tick' # NoTick
  BY <1>0, Fields, SnapshotFields
<1>2. StepSound'
  BY <1>1 DEF StepSound
<1>3. AgendaSound'
  BY <1>1 DEF Inv, AgendaSound, ReadSound, Exists
<1>4. \A i : Due(i, rows[i].age)' = Due(i, rows[i].age) /\ Due(i, lag)' = Due(i, lag)
  BY DueIsDueOf
<1>5. \A i \in Ids : /\ Due(i, rows[i].age) \in Nat /\ Unused(i) \in Int
                     /\ Due(i, rows[i].age) <= Unused(i)
  BY <1>0, Fields, DueIsDueOf, DueType DEF Inv, Covered
<1>6. Left + Due(tick.id, rows[tick.id].age) <= Unused(tick.id) /\ Left \in Nat
  <2>1. Left \in Nat
    BY <1>0, <1>1, LeftType, Bounds
  <2> QED
    BY <2>1 DEF Inv, Covered
<1>7. Covered'
  <2>1. \A i \in Ids : debt'[i] <= excused'[i] /\ Due(i, rows[i].age)' <= Unused(i)'
    <3> SUFFICES ASSUME NEW i \in Ids PROVE Due(i, rows[i].age) <= Unused(i)'
      BY <1>4
    <3>1. CASE i = tick.id
      BY <1>5, <1>6, <3>1
    <3>2. CASE i # tick.id
      BY <1>5, <3>2
    <3> QED
      BY <3>1, <3>2
  <2>2. \A r \in agenda : Servable(r.slots, r.fires) + Due(r.id, lag)' <= Unused(r.id)'
    <3> SUFFICES ASSUME NEW r \in agenda
                 PROVE  Servable(r.slots, r.fires) + Due(r.id, lag) <= Unused(r.id)'
      BY <1>4
    <3>1. r.id \in Ids /\ r.id # tick.id
      BY <1>0, Fields, SnapshotFields DEF Inv, AgendaSound
    <3>2. Unused(r.id)' = Unused(r.id)
      BY <1>5, <3>1
    <3> QED
      BY <3>2 DEF Inv, Covered
  <2>3. Left' + Due(tick.id, rows[tick.id].age) <= Unused(tick.id)'
    BY <1>1, <1>5, <1>6
  <2> QED
    BY <1>1, <1>4, <2>1, <2>2, <2>3 DEF Covered
<1> QED
  BY <1>2, <1>3, <1>7 DEF Sound

LEMMA ServeFireStep ==
  ASSUME Inv, ServeFire
  PROVE  Inv'
<1>0. TypeOK
  BY DEF Inv
<1> DEFINE k == SlotInTurn(tick.fires)
           n == Len(tick.slots)
<1>1. /\ pc = "serve" /\ pc' = "publish" /\ ~DoneServing
      /\ job' = dequeueOldestQueued(tick.cred) /\ Queued(tick.cred) # {}
      /\ tick' = [tick EXCEPT !.fires[k] = @ - 1, !.served = @ + 1]
      /\ UNCHANGED <<phase, rows, posts, agenda, lag, stopping, plans, excused, budgets>>
  BY DEF ServeFire
<1>2. tick # NoTick
  BY <1>1 DEF Inv, StepSound
<1>3. /\ tick \in Snapshots /\ tick.id \in Ids /\ n \in Nat
      /\ tick.fires \in CountsOf(n) /\ tick.served < n
      /\ k \in 1..n /\ tick.fires[k] > 0 /\ tick.served \in Nat
  BY <1>0, <1>1, <1>2, SlotInTurnFires, SnapshotFields DEF Inv
<1> HIDE DEF k
<1>4. PICK fires : fires = [tick.fires EXCEPT ![k] = @ - 1]
  OBVIOUS
<1>5. /\ fires \in CountsOf(n)
      /\ Cardinality(Firings(fires)) = Cardinality(Firings(tick.fires)) - 1
      /\ Cardinality(Firings(fires)) \in Nat /\ Cardinality(Firings(tick.fires)) \in Nat
  BY <1>3, <1>4, FiringsUsed, FiringsFinite
<1>6. /\ tick' = [[tick EXCEPT !.fires = fires] EXCEPT !.served = tick.served + 1]
      /\ tick'.id = tick.id /\ tick'.slots = tick.slots /\ tick'.fires = fires
      /\ tick'.served = tick.served + 1
  <2>1. tick' = [[tick EXCEPT !.fires = fires] EXCEPT !.served = tick.served + 1]
    BY <1>1, <1>3, <1>4 DEF Snapshots
  <2> QED
    BY <1>3, <2>1 DEF Snapshots
<1>7. tick' \in Snapshots
  <2>1. fires \in Seq(Nat)
    BY <1>3, <1>5, CountsAreSeq
  <2>2. PICK read \in Snapshots : read = [tick EXCEPT !.fires = fires]
    BY <1>3, <2>1 DEF Snapshots
  <2>3. PICK more \in Nat : more = tick.served + 1
    BY <1>3
  <2>4. tick' = [read EXCEPT !.served = more]
    BY <1>6, <2>2, <2>3
  <2> QED
    BY <2>4 DEF Snapshots
<1>8. Left' \in Nat /\ Left \in Nat /\ Left > 0 /\ Left' = Left - 1
  <2>1. /\ Left' = Least(n - (tick.served + 1), Cardinality(Firings(fires)))
        /\ Left = Least(n - tick.served, Cardinality(Firings(tick.fires)))
    BY <1>6 DEF Left
  <2> HIDE DEF n
  <2> QED
    BY <1>3, <1>5, <2>1 DEF Least
<1>9. \A i \in Ids : /\ credit[i] \in 0..(2 * MaxSlots) /\ debt[i] \in Nat /\ excused[i] \in Nat
                     /\ credit[i] \in Nat /\ debt[i] <= excused[i]
                     /\ Unused(i) = excused[i] + credit[i] - debt[i]
  BY <1>0, Fields, Bounds DEF Inv, Covered, Unused
<1>10. Unused(tick.id) >= 1
  <2>1. Left + Due(tick.id, rows[tick.id].age) <= Unused(tick.id)
    BY <1>2 DEF Inv, Covered
  <2>2. Due(tick.id, rows[tick.id].age) \in Nat /\ Unused(tick.id) \in Int
    BY <1>0, <1>3, Fields, DueIsDueOf, DueType
  <2> QED
    BY <1>8, <2>1, <2>2
<1>11. /\ HistoryTypes'
       /\ \A i \in Ids : /\ Unused(i)' = Unused(i) - (IF i = tick.id THEN 1 ELSE 0)
                         /\ debt'[i] <= excused[i]
  <2>0. credit \in [Ids -> 0..(2 * MaxSlots)] /\ debt \in [Ids -> Nat] /\ excused \in [Ids -> Nat]
    BY <1>0, TypeParts DEF HistoryTypes
  <2>1. CASE credit[tick.id] > 0
    <3>1. credit' = [credit EXCEPT ![tick.id] = @ - 1] /\ UNCHANGED <<debt, excused>>
      BY <1>1, <2>1 DEF ServeFire
    <3>2. \A i \in Ids : credit'[i] = credit[i] - (IF i = tick.id THEN 1 ELSE 0)
      BY <1>9, <2>0, <3>1
    <3>3. \A i \in Ids : credit'[i] \in 0..(2 * MaxSlots)
      BY <1>9, <2>1, <3>2, Bounds
    <3>4. HistoryTypes'
      BY <2>0, <3>1, <3>3 DEF HistoryTypes
    <3>5. \A i \in Ids : Unused(i)' = excused[i] + credit'[i] - debt[i]
      BY <3>1 DEF Unused
    <3> QED
      BY <1>9, <3>1, <3>2, <3>4, <3>5
  <2>2. CASE ~(credit[tick.id] > 0)
    <3>1. debt' = [debt EXCEPT ![tick.id] = @ + 1] /\ UNCHANGED <<credit, excused>>
      BY <1>1, <2>2 DEF ServeFire
    <3>2. \A i \in Ids : debt'[i] = debt[i] + (IF i = tick.id THEN 1 ELSE 0)
      BY <1>9, <2>0, <3>1
    <3>3. credit[tick.id] = 0 /\ debt[tick.id] + 1 <= excused[tick.id]
      BY <1>3, <1>9, <1>10, <2>2
    <3>4. \A i \in Ids : debt'[i] <= excused[i] /\ debt'[i] \in Nat
      BY <1>9, <3>2, <3>3
    <3>5. HistoryTypes'
      BY <2>0, <3>1, <3>4 DEF HistoryTypes
    <3>6. \A i \in Ids : Unused(i)' = excused[i] + credit[i] - debt'[i]
      BY <3>1 DEF Unused
    <3> QED
      BY <1>9, <3>2, <3>4, <3>5, <3>6
  <2> QED
    BY <2>1, <2>2
<1>12. Sound'
  <2>1. PICK used \in Nat : used = 1
    OBVIOUS
  <2>2. \A i \in Ids : Unused(i)' = Unused(i) - (IF i = tick.id THEN used ELSE 0)
    BY <1>11, <2>1
  <2>3. Left' <= Left - used
    BY <1>8, <2>1
  <2>4. tick'.served <= n
    BY <1>3, <1>6
  <2> QED
    BY <1>1, <1>2, <1>5, <1>6, <1>7, <1>8, <1>11, <2>2, <2>3, <2>4, ServeStep
<1>13. job' \in Posts
  <2>1. Queued(tick.cred) \in SUBSET Posts /\ Queued(tick.cred) \in SUBSET Nat
    BY PostAssumption DEF Queued
  <2> QED
    BY <1>1, <2>1, LeastElement DEF dequeueOldestQueued
<1>14. StepTypes' /\ TickTypes' /\ JobTypes'
  BY <1>0, <1>1, <1>7, <1>13, TypeParts DEF StepTypes, TickTypes, JobTypes
<1> QED
  BY <1>0, <1>1, <1>11, <1>12, <1>14, TypeParts, TypesKept DEF Inv, Sound

LEMMA SkipSlotStep ==
  ASSUME Inv, SkipSlot
  PROVE  Inv'
<1>0. TypeOK
  BY DEF Inv
<1> DEFINE k == SlotInTurn(tick.fires)
           n == Len(tick.slots)
<1>1. /\ pc = "serve" /\ pc' = "serve" /\ ~DoneServing
      /\ tick' = [tick EXCEPT !.fires[k] = 0]
      /\ UNCHANGED <<phase, rows, posts, pc, agenda, job, lag, stopping, plans, history>>
  BY DEF SkipSlot
<1>2. tick # NoTick
  BY <1>1 DEF Inv, StepSound
<1>3. /\ tick \in Snapshots /\ tick.id \in Ids /\ n \in Nat
      /\ tick.fires \in CountsOf(n) /\ tick.served < n
      /\ k \in 1..n /\ tick.fires[k] > 0 /\ tick.served \in Nat
  BY <1>0, <1>1, <1>2, SlotInTurnFires, SnapshotFields DEF Inv
<1> HIDE DEF k
<1>4. PICK fires : fires = [tick.fires EXCEPT ![k] = 0]
  OBVIOUS
<1>5. /\ fires \in CountsOf(n)
      /\ Cardinality(Firings(fires)) <= Cardinality(Firings(tick.fires))
      /\ Cardinality(Firings(fires)) \in Nat /\ Cardinality(Firings(tick.fires)) \in Nat
  BY <1>3, <1>4, FiringsUsed, FiringsFinite
<1>6. /\ tick' = [tick EXCEPT !.fires = fires]
      /\ tick'.id = tick.id /\ tick'.slots = tick.slots /\ tick'.fires = fires
      /\ tick'.served = tick.served
  BY <1>1, <1>3, <1>4 DEF Snapshots
<1>7. tick' \in Snapshots
  <2>1. fires \in Seq(Nat)
    BY <1>3, <1>5, CountsAreSeq
  <2> QED
    BY <1>3, <1>6, <2>1 DEF Snapshots
<1>8. Left' \in Nat /\ Left \in Nat /\ Left' <= Left
  <2>1. /\ Left' = Least(n - tick.served, Cardinality(Firings(fires)))
        /\ Left = Least(n - tick.served, Cardinality(Firings(tick.fires)))
    BY <1>6 DEF Left
  <2> HIDE DEF n
  <2> QED
    BY <1>3, <1>5, <2>1 DEF Least
<1>9. Sound'
  <2>1. PICK used \in Nat : used = 0
    OBVIOUS
  <2>2. \A i \in Ids : Unused(i)' = Unused(i) /\ Unused(i) \in Int /\ debt'[i] <= excused[i]
    BY <1>0, <1>1, Fields DEF Inv, Covered, Unused
  <2>3. \A i \in Ids : Unused(i)' = Unused(i) - (IF i = tick.id THEN used ELSE 0)
    BY <2>1, <2>2
  <2>4. Left' <= Left - used
    BY <1>8, <2>1
  <2>5. tick'.served <= n
    BY <1>3, <1>6
  <2> QED
    BY <1>1, <1>2, <1>5, <1>6, <1>7, <1>8, <2>2, <2>3, <2>4, <2>5, ServeStep
<1>10. TickTypes' /\ LimitTypes'
  BY <1>0, <1>7, LimitsKept, TypeParts, TypesKept DEF SkipSlot, TickTypes
<1> QED
  BY <1>0, <1>1, <1>9, <1>10, TypeParts, TypesKept DEF Inv, Sound

LEMMA EndScheduleStep ==
  ASSUME Inv, EndSchedule
  PROVE  Inv'
<1>0. TypeOK
  BY DEF Inv
<1>1. /\ pc = "serve" /\ pc' = "tick" /\ tick' = NoTick
      /\ UNCHANGED <<phase, rows, posts, agenda, job, lag, stopping, plans, history, budgets>>
  BY DEF EndSchedule
<1>2. StepSound'
  BY <1>1 DEF StepSound
<1>3. AgendaSound'
  <2>1. \A r \in agenda : r.id # NoId
    BY <1>0, Fields, SnapshotFields
  <2>2. NoTick.id = NoId
    BY DEF NoTick
  <2> QED
    BY <1>1, <2>1, <2>2 DEF Inv, AgendaSound, ReadSound, Exists
<1>4. /\ \A i : Due(i, rows[i].age)' = Due(i, rows[i].age) /\ Due(i, lag)' = Due(i, lag)
      /\ \A i : Unused(i)' = Unused(i)
  BY <1>1, DueIsDueOf DEF Unused
<1>5. Covered'
  BY <1>1, <1>4 DEF Inv, Covered
<1>6. StepTypes' /\ TickTypes'
  BY <1>0, <1>1, TypeParts DEF StepTypes, TickTypes
<1> QED
  BY <1>0, <1>1, <1>2, <1>3, <1>5, <1>6, TypeParts, TypesKept DEF Inv

-----------------------------------------------------------------------------
(***************************************************************************)
(* The theorems.                                                           *)
(***************************************************************************)

LEMMA InvNext == Inv /\ [Next]_vars => Inv'
<1> SUFFICES ASSUME Inv, [Next]_vars PROVE Inv'
  OBVIOUS
<1>1. CASE ClockTick
  BY <1>1, ClockTickStep
<1>2. CASE \E i \in Ids : MCPCreate(i) \/ MCPDelete(i)
  BY <1>2, MCPCreateStep, MCPDeleteStep
<1>3. CASE \E c \in Clients : updateSchedule(c) \/ \E i \in Ids : MCPUpdate(c, i)
  BY <1>3, updateScheduleStep, QuietSteps
<1>4. CASE \E p \in Posts : Enqueue(p) \/ Withdraw(p)
  BY <1>4, QuietSteps
<1>5. CASE SchedulerStep
  BY <1>5, BeginTickStep, ServeFireStep, SkipSlotStep, EndScheduleStep, ResetSteps,
     publishWithRetryStep, ProcessScheduleStep DEF SchedulerStep
<1>6. CASE Exit \/ Stop
  BY <1>6, QuietSteps
<1>7. CASE Restart \/ Crash
  BY <1>7, ResetSteps
<1>8. CASE UNCHANGED vars
  <2>1. Sound'
    BY <1>8, QuietStep DEF Inv, StepSound
  <2> QED
    BY <1>8, <2>1, TypeParts, TypesKept DEF Inv, Sound
<1> QED
  BY <1>1, <1>2, <1>3, <1>4, <1>5, <1>6, <1>7, <1>8 DEF Next

LEMMA InvAlways == Spec => []Inv
<1>1. Init => Inv
  BY InitInv
<1>2. Inv /\ [Next]_vars => Inv'
  BY InvNext
<1> QED
  BY <1>1, <1>2, PTL DEF Spec

\* The rows of smeldr_social_publication_schedules, the loops of
\* processSlotQueue and the drafts of update_publication_schedule keep their
\* types: the window and the firings a tick has left are never negative, and a
\* tick serves a post whenever it serves one.
THEOREM TypeCorrect == Spec => []TypeOK
<1>1. Inv => TypeOK
  BY DEF Inv
<1> QED
  BY <1>1, InvAlways, PTL

\* firedSlotsBetween and updateScheduleLastTick divide time into windows that
\* neither overlap nor lose what was not yet served: whatever the ticks,
\* pauses, deletions, stops and crashes, processSlotQueue publishes at most one
\* post for each time a slot fires, but for the firings that a failed UPDATE of
\* last_tick_at or a change of the slots repeats.
THEOREM FiresAreUsedOnce == Spec => []FiresUsedOnce
<1>1. Inv => FiresUsedOnce
  BY DEF Inv, Covered, FiresUsedOnce
<1> QED
  BY <1>1, InvAlways, PTL

=============================================================================
