--------------------------- MODULE BufRingProofs ---------------------------
(***************************************************************************)
(* As long as the callers keep out of each other's way, the buffer ring    *)
(* lends no buffer twice and loses none but that of an EOF whose status    *)
(* query fails, for every capacity, every width of the indices and every   *)
(* number of goroutines.                                                   *)
(***************************************************************************)
EXTENDS BufRing, Remainders, FiniteSetTheorems, TLAPS

USE CapacityAssumption, TailModAssumption, RecyclesAssumption, NoneAssumption

(***************************************************************************)
(* The inductive invariant.                                                *)
(***************************************************************************)

\* The slot and the buffer of the k-th descriptor from the head, and how
\* many of them the kernel may take.
Slot(k) == (head + k) % Capacity
At(k)   == ring[Slot(k)]
Shown   == 0 .. Avail(head) - 1

\* No buffer is published twice, published and held, or held twice; one that
\* is neither published nor held was lost to a failed status query.
PublishedOnce == \A j, k \in Shown : At(j) = At(k) => j = k
NotLentShown  == \A k \in Shown, g \in Goroutines : At(k) # bid[g]
HeldOnce      == \A g, u \in Goroutines : bid[g] = bid[u] /\ bid[g] # None => g = u
NoneLost      == \A b \in Bids : \/ \E k \in Shown : At(k) = b
                                 \/ \E g \in Goroutines : bid[g] = b
                                 \/ b \in lost
LostApart     == \A b \in lost : /\ \A k \in Shown : At(k) # b
                                 /\ \A g \in Goroutines : bid[g] # b

\* A goroutine with a loan or in a release has a buffer, orderly or not.
InHand ==
  \A g \in Goroutines :
    pc[g] \in {"loan", "tail", "entry", "publish"} => bid[g] # None

\* So has one that replenishes, and one that waits has none.
Holders ==
  \A g \in Goroutines :
    /\ pc[g] \in {"idle", "asked"} => bid[g] = None
    /\ pc[g] = "pick" => bid[g] # None

\* One release at a time, of the descriptor at the tail.
OneRelease ==
  /\ \A g, u \in Releasing : g = u
  /\ \A g \in Releasing : t[g] = tail
  /\ \A g \in Goroutines : pc[g] = "publish" => ring[tail % Capacity] = bid[g]

\* A replenishment has the buffer before the head, unless it was recycled;
\* then nobody has a buffer and none is lost.
Replenishment ==
  /\ \A g \in Replenishing :
       IF bid[g] = None THEN lost = {} /\ \A u \in Goroutines : bid[u] = None
       ELSE bid[g] = At(-1)
  /\ \A g \in Goroutines : pc[g] \in {"avail", "pick"} => h[g] = head

OrderInv ==
  /\ Avail(head) <= Capacity
  /\ PublishedOnce /\ NotLentShown /\ HeldOnce /\ NoneLost /\ LostApart
  /\ Holders /\ OneRelease /\ Replenishment

IInv == TypeOK /\ InHand /\ (Orderly => OrderInv)

(***************************************************************************)
(* The window between the head and the tail.                               *)
(***************************************************************************)

\* The two divisors.
LEMMA Divisors == Capacity \in Nat \ {0} /\ TailMod \in Nat \ {0} /\ Capacity < TailMod
  OBVIOUS

\* The width of the indices is a multiple of the capacity, so that a slot
\* does not depend on whether its index has wrapped.
LEMMA Wrap ==
  ASSUME NEW x \in Int, NEW k \in Int
  PROVE  ((x % TailMod) + k) % Capacity = (x + k) % Capacity
<1>0. TailMod \in Int
  BY Divisors
<1>1. PICK c \in Int : TailMod = Capacity * c + (TailMod % Capacity)
  BY <1>0, Divisors, Division, Zenon
<1>2. TailMod = Capacity * c
  BY <1>1
<1>3. PICK q \in Int : x = TailMod * q + (x % TailMod)
  BY Divisors, Division, Zenon
<1>4. TailMod * q = Capacity * (c * q) /\ c * q \in Int
  BY <1>2
<1>5. x % TailMod \in 0 .. TailMod - 1
  BY Divisors, Division, Zenon
<1> DEFINE y == x % TailMod
<1>6. y \in Int /\ y + k \in Int
  BY <1>5, Divisors
<1> HIDE DEF y
<1>7. (y + k) + Capacity * (c * q) = x + k
  <2>1. x = TailMod * q + y
    BY <1>3 DEF y
  <2> QED
    BY <1>4, <1>6, <2>1
<1>8. ((y + k) + Capacity * (c * q)) % Capacity = (y + k) % Capacity
  BY <1>4, <1>6, Divisors, ModShift, Zenon
<1> QED
  BY <1>7, <1>8 DEF y

\* The tail is the descriptor after the last one the kernel may take.
LEMMA TailSlot ==
  ASSUME TypeOK
  PROVE  /\ Avail(head) \in 0 .. TailMod - 1
         /\ tail = (head + Avail(head)) % TailMod
         /\ tail % Capacity = Slot(Avail(head))
<1> DEFINE d == tail - head
           a == Avail(head)
<1>t. tail \in 0 .. TailMod - 1 /\ head \in Int /\ d \in Int /\ tail \in Int
  BY Divisors DEF TypeOK, Tails
<1>1. d % TailMod \in 0 .. TailMod - 1
  BY <1>t, Divisors, Division, Zenon
<1>2. PICK q \in Int : d = TailMod * q + (d % TailMod)
  BY <1>t, Divisors, Division, Zenon
<1>a. a = d % TailMod /\ a \in Int
  BY <1>1, Divisors DEF Avail
<1> HIDE DEF a
<1>3. -q \in Int /\ TailMod * (-q) = -(TailMod * q) /\ TailMod * q \in Int
  BY Divisors
<1>4. head + a = tail + TailMod * (-q)
  BY <1>2, <1>3, <1>a, <1>t
<1>5. (tail + TailMod * (-q)) % TailMod = tail % TailMod
  BY <1>3, <1>t, Divisors, ModShift, Zenon
<1>6. tail % TailMod = tail
  BY <1>t, Divisors, ModSmall, Zenon
<1>7. tail = (head + a) % TailMod
  BY <1>4, <1>5, <1>6
<1>8. head + a \in Int /\ 0 \in Int
  BY <1>a, <1>t
<1>9. (((head + a) % TailMod) + 0) % Capacity = ((head + a) + 0) % Capacity
  BY <1>8, Wrap, Zenon
<1>10. tail % Capacity = (head + a) % Capacity
  <2>1. tail + 0 = tail /\ (head + a) + 0 = head + a
    BY <1>8, <1>t
  <2> QED
    BY <1>7, <1>9, <2>1
<1> QED
  BY <1>1, <1>7, <1>10, <1>a DEF Slot, a

\* Descriptors closer than the capacity are in different slots.
LEMMA SlotApart ==
  ASSUME TypeOK, NEW j \in Int, NEW k \in Int,
         j - k < Capacity, k - j < Capacity, Slot(j) = Slot(k)
  PROVE  j = k
<1> DEFINE x == head + j
           y == head + k
<1>1. head \in Int /\ x \in Int /\ y \in Int /\ x - y < Capacity /\ y - x < Capacity
  BY Divisors DEF TypeOK, Tails
<1>2. x % Capacity = y % Capacity
  BY DEF Slot
<1>3. x = y
  <2> HIDE DEF x, y
  <2> QED
    BY <1>1, <1>2, Divisors, ModApart, Zenon
<1> QED
  BY <1>1, <1>3

\* A slot is a descriptor of the ring.
LEMMA SlotBid ==
  ASSUME TypeOK, NEW k \in Int
  PROVE  Slot(k) \in Bids /\ At(k) \in Bids
<1>1. head + k \in Int
  BY Divisors DEF TypeOK, Tails
<1>2. Slot(k) \in Bids
  BY <1>1, Divisors, Division, Zenon DEF Slot, Bids
<1> QED
  BY <1>2 DEF TypeOK, At

\* The tail is the window's length from the head, some turns apart.
LEMMA Distance ==
  ASSUME TypeOK
  PROVE  \E q \in Int : tail - head = Avail(head) + TailMod * q
<1>1. tail - head \in Int
  BY Divisors DEF TypeOK, Tails
<1>2. PICK q \in Int : tail - head = TailMod * q + ((tail - head) % TailMod)
  BY <1>1, Divisors, Division, Zenon
<1>3. Avail(head) \in Int
  BY TailSlot
<1>4. tail - head = Avail(head) + TailMod * q
  BY <1>2, <1>3, Divisors DEF Avail
<1> QED
  BY <1>4

\* One more than an index, modulo the width.
LEMMA Bump ==
  ASSUME NEW x \in Tails
  PROVE  /\ (x + 1) % TailMod \in Tails
         /\ \E q \in Int : (x + 1) % TailMod = (x + 1) + TailMod * q
<1>1. x + 1 \in Int
  BY Divisors DEF Tails
<1>2. PICK q \in Int : x + 1 = TailMod * q + ((x + 1) % TailMod)
  BY <1>1, Divisors, Division, Zenon
<1>3. (x + 1) % TailMod \in Tails
  BY <1>1, Divisors, Division, Zenon DEF Tails
<1>4. -q \in Int /\ TailMod * (-q) = -(TailMod * q) /\ TailMod * q \in Int
  BY Divisors
<1>5. (x + 1) % TailMod = (x + 1) + TailMod * (-q)
  BY <1>1, <1>2, <1>3, <1>4, Divisors DEF Tails
<1> QED
  BY <1>3, <1>4, <1>5

\* A head that is not at the tail has a descriptor to give.
LEMMA SomethingShown ==
  ASSUME TypeOK, head # tail
  PROVE  Avail(head) \in 1 .. TailMod - 1
<1>1. Avail(head) \in 0 .. TailMod - 1 /\ tail = (head + Avail(head)) % TailMod
  BY TailSlot
<1>2. head \in 0 .. TailMod - 1 /\ head + 0 = head
  BY Divisors DEF TypeOK, Tails
<1>3. head % TailMod = head
  BY <1>2, Divisors, ModSmall, Zenon
<1>4. Avail(head) # 0
  BY <1>1, <1>2, <1>3
<1> QED
  BY <1>1, <1>4

\* The kernel's step forward takes the first descriptor from the window.
LEMMA HeadStep ==
  ASSUME TypeOK, TypeOK', head # tail, head' = (head + 1) % TailMod,
         UNCHANGED <<ring, tail>>
  PROVE  /\ Avail(head)' = Avail(head) - 1
         /\ \A k \in Int : Slot(k)' = Slot(k + 1)
<1> DEFINE a == Avail(head)
<1>1. a \in 1 .. TailMod - 1
  BY SomethingShown
<1>2. head \in Tails /\ head' \in Tails /\ tail \in Tails /\ tail' = tail
  BY DEF TypeOK
<1>3. PICK q \in Int : tail - head = a + TailMod * q
  BY Distance
<1>4. PICK p \in Int : head' = (head + 1) + TailMod * p
  BY <1>2, Bump
<1> HIDE DEF a
<1>5. tail - head' = (a - 1) + TailMod * (q - p)
  <2>1. TailMod * (q - p) = TailMod * q - TailMod * p
    BY Divisors
  <2>2. TailMod * q \in Int /\ TailMod * p \in Int
    BY Divisors
  <2> QED
    BY <1>1, <1>2, <1>3, <1>4, <2>1, <2>2, Divisors DEF Tails
<1>6. a - 1 \in 0 .. TailMod - 1 /\ q - p \in Int /\ tail - head' \in Int
  BY <1>1, <1>2, Divisors DEF Tails
<1>7. (tail - head') % TailMod = a - 1
  <2> DEFINE x == tail - head'
             r == a - 1
             s == q - p
  <2>1. x \in Int /\ r \in 0 .. TailMod - 1 /\ s \in Int /\ x = r + TailMod * s
    BY <1>5, <1>6
  <2> HIDE DEF x, r, s
  <2>2. x % TailMod = r
    BY <2>1, Divisors, ModIs, SMT
  <2> QED
    BY <2>2 DEF x, r
<1>8. \A k \in Int : Slot(k)' = Slot(k + 1)
  <2> SUFFICES ASSUME NEW k \in Int PROVE (head' + k) % Capacity = (head + (k + 1)) % Capacity
    BY DEF Slot
  <2>1. head + 1 \in Int /\ (head + 1) + k = head + (k + 1)
    BY <1>2, Divisors DEF Tails
  <2>2. (((head + 1) % TailMod) + k) % Capacity = ((head + 1) + k) % Capacity
    BY <2>1, Wrap, Zenon
  <2> QED
    BY <2>1, <2>2
<1> QED
  BY <1>2, <1>7, <1>8 DEF Avail, a

\* A release's step forward adds one descriptor to the window.
LEMMA TailStep ==
  ASSUME TypeOK, TypeOK', Avail(head) <= Capacity - 1,
         tail' = (tail + 1) % TailMod, UNCHANGED head
  PROVE  /\ Avail(head)' = Avail(head) + 1
         /\ \A k \in Int : Slot(k)' = Slot(k)
<1> DEFINE a == Avail(head)
<1>1. a \in 0 .. TailMod - 1
  BY TailSlot
<1>2. head \in Tails /\ tail' \in Tails /\ tail \in Tails /\ head' = head
  BY DEF TypeOK
<1>3. PICK q \in Int : tail - head = a + TailMod * q
  BY Distance
<1>4. PICK p \in Int : tail' = (tail + 1) + TailMod * p
  BY <1>2, Bump
<1>a. a <= Capacity - 1
  OBVIOUS
<1> HIDE DEF a
<1>5. tail' - head = (a + 1) + TailMod * (q + p)
  <2>1. TailMod * (q + p) = TailMod * q + TailMod * p
    BY Divisors
  <2>2. TailMod * q \in Int /\ TailMod * p \in Int
    BY Divisors
  <2> QED
    BY <1>1, <1>2, <1>3, <1>4, <2>1, <2>2, Divisors DEF Tails
<1>6. a + 1 \in 0 .. TailMod - 1 /\ q + p \in Int /\ tail' - head \in Int
  BY <1>1, <1>2, <1>a, Divisors DEF Tails
<1>7. (tail' - head) % TailMod = a + 1
  <2> DEFINE x == tail' - head
             r == a + 1
             s == q + p
  <2>1. x \in Int /\ r \in 0 .. TailMod - 1 /\ s \in Int /\ x = r + TailMod * s
    BY <1>5, <1>6
  <2> HIDE DEF x, r, s
  <2>2. x % TailMod = r
    BY <2>1, Divisors, ModIs, SMT
  <2> QED
    BY <2>2 DEF x, r
<1>8. \A k \in Int : Slot(k)' = Slot(k)
  BY <1>2 DEF Slot
<1> QED
  BY <1>2, <1>7, <1>8 DEF Avail, a

(***************************************************************************)
(* How many buffers are out.                                               *)
(***************************************************************************)

\* The buffers that are not published.
Unshown == Bids \ {At(k) : k \in Shown}

\* They are as many as the window falls short of the capacity.
LEMMA UnshownCount ==
  ASSUME TypeOK, PublishedOnce
  PROVE  IsFiniteSet(Unshown) /\ Cardinality(Unshown) = Capacity - Avail(head)
<1> DEFINE T == {At(k) : k \in Shown}
           f == [k \in Shown |-> At(k)]
<1>1. Avail(head) \in Nat /\ Shown \subseteq Int
  BY TailSlot, Divisors DEF Shown
<1>2. \A k \in Shown : At(k) \in Bids
  BY <1>1, SlotBid
<1>3. IsFiniteSet(Shown) /\ Cardinality(Shown) = Avail(head)
  <2> DEFINE b == Avail(head) - 1
  <2>1. b \in Int /\ 0 \in Int /\ Shown = 0 .. b
    BY <1>1 DEF Shown
  <2>2. b - 0 + 1 = Avail(head) /\ (0 > b <=> Avail(head) = 0)
    BY <1>1
  <2> HIDE DEF b
  <2>3. IsFiniteSet(0 .. b) /\ Cardinality(0 .. b) = IF 0 > b THEN 0 ELSE b - 0 + 1
    BY <2>1, FS_Interval
  <2> QED
    BY <2>1, <2>2, <2>3
<1>4. IsFiniteSet(Bids) /\ Cardinality(Bids) = Capacity
  BY Divisors, FS_Interval DEF Bids
<1>5. f \in Surjection(Shown, T) /\ f \in Injection(Shown, T)
  BY DEF PublishedOnce, Surjection, Injection, IsInjective
<1>6. IsFiniteSet(T) /\ Cardinality(T) = Avail(head)
  BY <1>3, <1>5, FS_Surjection
<1>7. T \subseteq Bids
  BY <1>2
<1>8. Bids \cap T = T
  BY <1>7
<1> HIDE DEF T, f
<1>9. IsFiniteSet(Bids \ T) /\ Cardinality(Bids \ T) = Capacity - Avail(head)
  <2>1. /\ IsFiniteSet(Bids \ T)
        /\ Cardinality(Bids \ T) = Cardinality(Bids) - Cardinality(Bids \cap T)
    BY <1>4, FS_Difference, Zenon
  <2> QED
    BY <1>4, <1>6, <1>8, <2>1
<1> QED
  BY <1>9 DEF Unshown, T

\* A buffer that is out leaves room in the ring, and two leave two.
LEMMA Room ==
  ASSUME TypeOK, PublishedOnce
  PROVE  /\ \A b \in Unshown : Avail(head) <= Capacity - 1
         /\ \A b, c \in Unshown : b # c => Avail(head) <= Capacity - 2
         /\ Avail(head) <= Capacity - 1 => Unshown # {}
<1>1. IsFiniteSet(Unshown) /\ Cardinality(Unshown) = Capacity - Avail(head)
  BY UnshownCount
<1>2. Avail(head) \in Int
  BY TailSlot
<1>3. \A b \in Unshown : Avail(head) <= Capacity - 1
  <2> SUFFICES ASSUME NEW b \in Unshown PROVE Avail(head) <= Capacity - 1
    OBVIOUS
  <2>1. Cardinality(Unshown) # 0 /\ Cardinality(Unshown) \in Nat
    BY <1>1, FS_EmptySet, FS_CardinalityType
  <2> QED
    BY <1>1, <1>2, <2>1, Divisors
<1>4. \A b, c \in Unshown : b # c => Avail(head) <= Capacity - 2
  <2> SUFFICES ASSUME NEW b \in Unshown, NEW c \in Unshown, b # c
               PROVE  Avail(head) <= Capacity - 2
    OBVIOUS
  <2>1. IsFiniteSet({b, c}) /\ Cardinality({b, c}) = 2
    <3>1. {b, c} = {b} \cup {c} /\ c \notin {b}
      OBVIOUS
    <3>2. IsFiniteSet({b}) /\ Cardinality({b}) = 1
      BY FS_Singleton
    <3>3. /\ IsFiniteSet({b} \cup {c})
          /\ Cardinality({b} \cup {c}) = Cardinality({b}) + 1
      BY <3>1, <3>2, FS_AddElement
    <3> QED
      BY <3>1, <3>2, <3>3
  <2>2. Cardinality({b, c}) <= Cardinality(Unshown)
    BY <1>1, FS_Subset
  <2> QED
    BY <1>1, <1>2, <2>1, <2>2, Divisors
<1>5. Avail(head) <= Capacity - 1 => Unshown # {}
  BY <1>1, <1>2, FS_EmptySet, Divisors
<1> QED
  BY <1>3, <1>4, <1>5

\* A buffer somebody has leaves room, two leave two; with none out and none
\* lost the ring is full.
LEMMA HeldRoom ==
  ASSUME TypeOK, OrderInv
  PROVE  /\ \A g \in Goroutines : bid[g] # None => Avail(head) <= Capacity - 1
         /\ \A g, u \in Goroutines :
              bid[g] # None /\ bid[u] # None /\ g # u => Avail(head) <= Capacity - 2
         /\ lost = {} /\ (\A g \in Goroutines : bid[g] = None) => Avail(head) = Capacity
<1>i. /\ PublishedOnce /\ NotLentShown /\ HeldOnce /\ NoneLost
      /\ Avail(head) <= Capacity
  BY DEF OrderInv
<1>1. \A g \in Goroutines : bid[g] # None => bid[g] \in Unshown
  BY <1>i DEF TypeOK, NotLentShown, Unshown
<1>2. \A g, u \in Goroutines : bid[g] # None /\ bid[u] # None /\ g # u => bid[g] # bid[u]
  BY <1>i DEF HeldOnce
<1>3. lost = {} /\ (\A g \in Goroutines : bid[g] = None) => Unshown = {}
  <2>1. None \notin Bids
    BY Divisors DEF Bids
  <2> QED
    BY <1>i, <2>1 DEF NoneLost, Unshown
<1>4. Avail(head) \in Int
  BY TailSlot
<1>5. /\ \A b \in Unshown : Avail(head) <= Capacity - 1
      /\ \A b, c \in Unshown : b # c => Avail(head) <= Capacity - 2
      /\ Avail(head) <= Capacity - 1 => Unshown # {}
  BY <1>i, Room
<1>6. lost = {} /\ (\A g \in Goroutines : bid[g] = None) => Avail(head) = Capacity
  BY <1>i, <1>3, <1>4, <1>5, Divisors
<1> QED
  BY <1>1, <1>2, <1>5, <1>6

(***************************************************************************)
(* The initial state and the steps.                                        *)
(***************************************************************************)

\* All buffers are published, and all of them are visible.
LEMMA InitIInv == Init => IInv
<1> SUFFICES ASSUME Init PROVE IInv
  OBVIOUS
<1>1. TypeOK
  <2>1. Capacity \in Tails /\ 0 \in Tails
    BY Divisors DEF Tails
  <2> QED
    BY <2>1 DEF Init, TypeOK, Ops
<1>2. Avail(head) = Capacity
  <2>1. Capacity \in 0 .. TailMod - 1 /\ tail - head = Capacity
    BY Divisors DEF Init
  <2>2. Capacity % TailMod = Capacity
    BY <2>1, Divisors, ModSmall, Zenon
  <2> QED
    BY <2>1, <2>2 DEF Avail
<1>3. \A k \in Shown : At(k) = k
  <2> SUFFICES ASSUME NEW k \in Shown PROVE At(k) = k
    OBVIOUS
  <2>1. k \in 0 .. Capacity - 1 /\ head + k = k
    BY <1>2, Divisors DEF Init, Shown
  <2>2. k % Capacity = k
    BY <2>1, Divisors, ModSmall, Zenon
  <2> QED
    BY <2>1, <2>2 DEF Init, At, Slot, Bids
<1>4. PublishedOnce
  BY <1>3 DEF PublishedOnce
<1>5. NotLentShown
  <2>1. \A k \in Shown : k \in Nat
    BY <1>2, Divisors DEF Shown
  <2>2. \A k \in Shown : At(k) # None
    BY <1>3, <2>1
  <2> QED
    BY <2>2 DEF Init, NotLentShown
<1>6. NoneLost /\ LostApart
  <2>1. Shown = Bids
    BY <1>2 DEF Shown, Bids
  <2>2. \A b \in Bids : b \in Shown /\ At(b) = b
    BY <1>3, <2>1
  <2> QED
    BY <2>2 DEF Init, NoneLost, LostApart
<1>7. HeldOnce /\ Holders /\ OneRelease /\ Replenishment
  BY DEF Init, HeldOnce, Holders, OneRelease, Replenishment, Releasing, Replenishing
<1>8. Avail(head) <= Capacity /\ InHand
  BY <1>2, Divisors DEF Init, InHand
<1> QED
  BY <1>1, <1>4, <1>5, <1>6, <1>7, <1>8 DEF IInv, OrderInv

\* Every step keeps the ring well typed, raced or not.
LEMMA TypeStep == TypeOK /\ InHand /\ [Next]_vars => TypeOK'
<1> SUFFICES ASSUME TypeOK, InHand, [Next]_vars PROVE TypeOK'
  OBVIOUS
<1>m. \A x \in Int : x % Capacity \in Bids /\ x % TailMod \in Tails
  BY Divisors, Division, Zenon DEF Bids, Tails
<1>n. \A x \in Tails : x \in Int /\ x + 1 \in Int /\ x - 1 \in Int
  BY Divisors DEF Tails
<1>t. /\ tail \in Tails /\ head \in Tails /\ 0 \in Tails
      /\ \A i \in Bids : ring[i] \in Bids
      /\ \A g \in Goroutines : t[g] \in Tails /\ h[g] \in Tails
  BY Divisors DEF TypeOK, Tails
<1>1. ASSUME NEW g \in Goroutines, NEW o \in Ops, Ask(g, o) PROVE TypeOK'
  BY <1>1 DEF TypeOK, Ask, Goto
<1>2. ASSUME NEW g \in Goroutines, KernelTake(g)
      PROVE  /\ head' \in Tails /\ ring[head % Capacity] \in Bids
             /\ bid' \in [Goroutines -> Bids \cup {None}] /\ raced' \in BOOLEAN
  <2>1. head' \in Tails /\ ring[head % Capacity] \in Bids
    BY <1>2, <1>m, <1>n, <1>t DEF KernelTake
  <2> QED
    BY <1>2, <2>1 DEF TypeOK, KernelTake
<1>3. ASSUME NEW g \in Goroutines, Lend(g) PROVE TypeOK'
  BY <1>2, <1>3 DEF TypeOK, Lend, Goto, KernelTake
<1>4. ASSUME NEW g \in Goroutines, TakeNothing(g) PROVE TypeOK'
  BY <1>4 DEF TypeOK, TakeNothing, Goto
<1>5. ASSUME NEW g \in Goroutines, Eof(g) PROVE TypeOK'
  BY <1>2, <1>5 DEF TypeOK, Eof, Goto, KernelTake
<1>6. ASSUME NEW g \in Goroutines, EofRecycled(g) PROVE TypeOK'
  BY <1>6 DEF TypeOK, EofRecycled, Goto
<1>7. ASSUME NEW g \in Goroutines, ReplenishStatus(g) PROVE TypeOK'
  BY <1>7 DEF TypeOK, ReplenishStatus, Goto
<1>f. ASSUME NEW g \in Goroutines, ReplenishFails(g) PROVE TypeOK'
  BY <1>f DEF TypeOK, ReplenishFails, Goto
<1>8. ASSUME NEW g \in Goroutines, ReplenishCheck(g) PROVE TypeOK'
  <2>1. pc' \in [Goroutines -> {"idle", "asked", "loan", "status", "avail", "pick",
                                "tail", "entry", "publish"}]
    BY <1>8 DEF TypeOK, ReplenishCheck, Goto
  <2>2. bid' \in [Goroutines -> Bids \cup {None}]
    BY <1>8 DEF TypeOK, ReplenishCheck
  <2> QED
    BY <1>8, <2>1, <2>2 DEF TypeOK, ReplenishCheck
<1>9. ASSUME NEW g \in Goroutines, ReplenishPick(g) PROVE TypeOK'
  <2>1. ring[(h[g] - 1) % Capacity] \in Bids
    BY <1>m, <1>n, <1>t
  <2> QED
    BY <1>9, <1>t, <2>1 DEF TypeOK, ReplenishPick, Goto
<1>10. ASSUME NEW g \in Goroutines, ReleaseTail(g) PROVE TypeOK'
  BY <1>10 DEF TypeOK, ReleaseTail, Goto
<1>11. ASSUME NEW g \in Goroutines, ReleaseEntry(g) PROVE TypeOK'
  <2>1. t[g] % Capacity \in Bids
    BY <1>m, <1>n, <1>t
  <2>2. bid[g] \in Bids
    BY <1>11 DEF TypeOK, InHand, ReleaseEntry, Goto
  <2> QED
    BY <1>11, <1>t, <2>1, <2>2 DEF TypeOK, ReleaseEntry, Goto
<1>12. ASSUME NEW g \in Goroutines, ReleasePublish(g) PROVE TypeOK'
  <2>1. (t[g] + 1) % TailMod \in Tails
    BY <1>m, <1>n, <1>t
  <2> QED
    BY <1>12, <1>t, <2>1 DEF TypeOK, ReleasePublish, PublishTail, Goto
<1>13. CASE UNCHANGED vars
  BY <1>13 DEF TypeOK, vars
<1> QED
  BY <1>1, <1>3, <1>4, <1>5, <1>6, <1>7, <1>f, <1>8, <1>9, <1>10, <1>11, <1>12, <1>13
     DEF Next, Go

\* Whoever enters a loan or a release has a buffer, and keeps it.
LEMMA HandStep == TypeOK /\ InHand /\ [Next]_vars => InHand'
<1> SUFFICES ASSUME TypeOK, InHand, [Next]_vars PROVE InHand'
  OBVIOUS
<1>n. None \notin Bids
  BY Divisors DEF Bids
<1>t. /\ pc \in [Goroutines -> {"idle", "asked", "loan", "status", "avail", "pick",
                                "tail", "entry", "publish"}]
      /\ bid \in [Goroutines -> Bids \cup {None}]
      /\ \A i \in Bids : ring[i] \in Bids
      /\ \A g \in Goroutines : h[g] \in Tails
      /\ head \in Tails
  BY DEF TypeOK
<1>m. \A x \in Tails : ring[x % Capacity] \in Bids /\ ring[(x - 1) % Capacity] \in Bids
  <2>1. \A x \in Tails : x \in Int /\ x - 1 \in Int
    BY Divisors DEF Tails
  <2>2. \A x \in Tails : x % Capacity \in Bids /\ (x - 1) % Capacity \in Bids
    BY <2>1, Divisors, Division, Zenon DEF Bids
  <2> QED
    BY <1>t, <2>2
<1>1. ASSUME NEW g \in Goroutines,
             \/ \E o \in Ops : Ask(g, o)
             \/ TakeNothing(g) \/ EofRecycled(g) \/ ReplenishStatus(g)
             \/ ReleaseTail(g) \/ ReleaseEntry(g)
      PROVE  InHand'
  BY <1>1, <1>t DEF InHand, Ask, TakeNothing, EofRecycled, ReplenishStatus,
                    ReleaseTail, ReleaseEntry, Goto
<1>2. ASSUME NEW g \in Goroutines, Lend(g) \/ Eof(g) PROVE InHand'
  BY <1>2, <1>t, <1>m, <1>n DEF InHand, Lend, Eof, KernelTake, Goto
<1>3. ASSUME NEW g \in Goroutines, ReplenishFails(g) \/ ReplenishCheck(g) PROVE InHand'
  BY <1>3, <1>t DEF InHand, ReplenishFails, ReplenishCheck, Goto
<1>4. ASSUME NEW g \in Goroutines, ReplenishPick(g) PROVE InHand'
  BY <1>4, <1>t, <1>m, <1>n DEF InHand, ReplenishPick, Goto
<1>5. ASSUME NEW g \in Goroutines, ReleasePublish(g) PROVE InHand'
  BY <1>5, <1>t DEF InHand, ReleasePublish, PublishTail, Goto
<1>6. CASE UNCHANGED vars
  BY <1>6 DEF InHand, vars
<1> QED
  BY <1>1, <1>2, <1>3, <1>4, <1>5, <1>6 DEF Next, Go

\* Once raced, always raced.
LEMMA OrderlyBefore == TypeOK /\ [Next]_vars /\ Orderly' => Orderly
  BY DEF TypeOK, Orderly, Next, Go, Ask, Lend, TakeNothing, Eof, EofRecycled, KernelTake,
         ReplenishStatus, ReplenishFails, ReplenishCheck, ReplenishPick, ReleaseTail,
         ReleaseEntry, ReleasePublish, PublishTail, Goto, vars

\* The part of the order that is about buffers alone stands while neither the
\* ring, nor its indices, nor who has what or what is lost changes.
LEMMA Still ==
  ASSUME OrderInv, UNCHANGED <<ring, tail, head, bid, lost>>
  PROVE  /\ Avail(head)' <= Capacity
         /\ PublishedOnce' /\ NotLentShown' /\ HeldOnce' /\ NoneLost' /\ LostApart'
         /\ \A k \in Int : At(k)' = At(k)
  BY DEF OrderInv, PublishedOnce, NotLentShown, HeldOnce, NoneLost, LostApart, Shown, At,
         Slot, Avail

\* The steps that leave the ring and everybody's buffer alone: asking, getting
\* nothing, the EOF whose buffer the kernel recycles, what ReplenishOne does
\* (it gives up only when it has no buffer, and picks the one it has), and
\* the read of the tail.
LEMMA QuietStep ==
  ASSUME TypeOK, InHand, OrderInv, Orderly', NEW g \in Goroutines,
         \/ \E o \in Ops : Ask(g, o)
         \/ TakeNothing(g) \/ EofRecycled(g)
         \/ ReplenishStatus(g) \/ ReplenishCheck(g) \/ ReplenishPick(g)
         \/ ReleaseTail(g)
  PROVE  OrderInv'
<1>t. /\ pc \in [Goroutines -> {"idle", "asked", "loan", "status", "avail", "pick",
                                "tail", "entry", "publish"}]
      /\ bid \in [Goroutines -> Bids \cup {None}]
      /\ t \in [Goroutines -> Tails] /\ h \in [Goroutines -> Tails]
      /\ head \in Int
  BY Divisors DEF TypeOK, Tails
<1>i. Holders /\ OneRelease /\ Replenishment
  BY DEF OrderInv
<1>r. UNCHANGED <<ring, tail, head, lost>>
  BY DEF Ask, TakeNothing, EofRecycled, ReplenishStatus, ReplenishCheck, ReplenishPick,
         ReleaseTail
<1>b. bid' = bid
  <2>1. ASSUME ReplenishCheck(g) PROVE bid' = bid
    <3>1. ASSUME Avail(h[g]) = Capacity PROVE bid[g] = None
      <4>1. h[g] = head
        BY <1>i, <2>1 DEF Replenishment, ReplenishCheck, Goto
      <4>2. ~ (Avail(head) <= Capacity - 1)
        BY <3>1, <4>1, Divisors
      <4> QED
        BY <4>2, HeldRoom
    <3> QED
      BY <1>t, <2>1, <3>1 DEF ReplenishCheck
  <2>2. ASSUME ReplenishPick(g) PROVE bid' = bid
    <3>1. h[g] = head /\ bid[g] = At(-1)
      BY <1>i, <2>2 DEF Replenishment, Replenishing, Holders, ReplenishPick, Goto
    <3>2. head - 1 = head + (-1)
      BY <1>t
    <3> QED
      BY <1>t, <2>2, <3>1, <3>2 DEF ReplenishPick, At, Slot
  <2> QED
    BY <2>1, <2>2 DEF Ask, TakeNothing, EofRecycled, ReplenishStatus, ReleaseTail
<1>s. /\ Avail(head)' <= Capacity
      /\ PublishedOnce' /\ NotLentShown' /\ HeldOnce' /\ NoneLost' /\ LostApart'
      /\ At(-1)' = At(-1)
  BY <1>r, <1>b, Still
<1>1. Holders'
  <2>1. ASSUME ReplenishCheck(g), Avail(h[g]) # Capacity PROVE bid[g] # None
    <3>1. h[g] = head /\ g \in Replenishing
      BY <1>i, <2>1 DEF Replenishment, Replenishing, ReplenishCheck, Goto
    <3>2. Avail(head) # Capacity
      BY <2>1, <3>1
    <3> QED
      BY <1>i, <3>1, <3>2, HeldRoom DEF Replenishment
  <2>2. ASSUME ReplenishCheck(g) PROVE Holders'
    <3>1. Avail(h[g]) = Capacity => bid'[g] = None
      BY <1>t, <2>2 DEF ReplenishCheck
    <3> QED
      BY <1>t, <1>i, <1>b, <2>1, <2>2, <3>1 DEF Holders, ReplenishCheck, Goto
  <2> QED
    BY <1>t, <1>i, <1>b, <2>2 DEF Holders, Ask, TakeNothing, EofRecycled, ReplenishStatus,
       ReplenishPick, ReleaseTail, Goto
<1>2. OneRelease'
  <2>1. ASSUME ReleaseTail(g) PROVE OneRelease'
    <3>1. Releasing = {} /\ Releasing' = {g} /\ t'[g] = tail
      BY <1>t, <2>1 DEF ReleaseTail, Orderly, Releasing, Goto
    <3>2. \A u \in Goroutines : pc'[u] # "publish"
      BY <1>t, <2>1, <3>1 DEF ReleaseTail, Releasing, Goto
    <3> QED
      BY <1>r, <3>1, <3>2 DEF OneRelease
  <2>2. ASSUME ~ ReleaseTail(g) PROVE OneRelease'
    <3>1. Releasing' = Releasing /\ t' = t
      BY <1>t, <2>2 DEF Ask, TakeNothing, EofRecycled, ReplenishStatus, ReplenishCheck,
         ReplenishPick, Releasing, Goto
    <3>2. \A u \in Goroutines : pc'[u] = "publish" => pc[u] = "publish"
      BY <1>t, <2>2 DEF Ask, TakeNothing, EofRecycled, ReplenishStatus, ReplenishCheck,
         ReplenishPick, Goto
    <3> QED
      BY <1>i, <1>r, <1>b, <3>1, <3>2 DEF OneRelease
  <2> QED
    BY <2>1, <2>2
<1>3. Replenishment'
  <2>1. ASSUME EofRecycled(g) PROVE Replenishment'
    <3>1. lost = {} /\ \A u \in Goroutines : bid[u] = None
      BY <2>1 DEF EofRecycled, Orderly
    <3>2. \A u \in Goroutines : pc'[u] \in {"avail", "pick"} => pc[u] \in {"avail", "pick"}
      BY <1>t, <2>1 DEF EofRecycled, Goto
    <3>3. h' = h
      BY <2>1 DEF EofRecycled
    <3>4. Replenishing' \subseteq Goroutines
      BY DEF Replenishing
    <3> QED
      BY <1>i, <1>r, <1>b, <3>1, <3>2, <3>3, <3>4 DEF Replenishment
  <2>2. ASSUME ~ EofRecycled(g) PROVE Replenishing' \subseteq Replenishing
    BY <1>t, <2>2 DEF Ask, TakeNothing, ReplenishStatus, ReplenishCheck, ReplenishPick,
       ReleaseTail, Replenishing, Goto
  <2>3. ASSUME ~ EofRecycled(g), NEW u \in Goroutines, pc'[u] \in {"avail", "pick"}
        PROVE  h'[u] = head
    BY <1>t, <1>i, <2>3 DEF Ask, TakeNothing, ReplenishStatus, ReplenishCheck,
       ReplenishPick, ReleaseTail, Replenishment, Goto
  <2>4. ASSUME ~ EofRecycled(g) PROVE Replenishment'
    BY <1>i, <1>r, <1>b, <1>s, <2>2, <2>3, <2>4 DEF Replenishment
  <2> QED
    BY <2>1, <2>4
<1> QED
  BY <1>s, <1>1, <1>2, <1>3 DEF OrderInv

\* The kernel takes the first descriptor of the window: its buffer is the
\* goroutine's now, and every other buffer stays where it was.
LEMMA TakeStep ==
  ASSUME TypeOK, TypeOK', InHand, OrderInv, Orderly', NEW g \in Goroutines, Lend(g) \/ Eof(g)
  PROVE  OrderInv'
<1>t. /\ pc \in [Goroutines -> {"idle", "asked", "loan", "status", "avail", "pick",
                                "tail", "entry", "publish"}]
      /\ bid \in [Goroutines -> Bids \cup {None}]
  BY DEF TypeOK
<1>n. None \notin Bids
  BY Divisors DEF Bids
<1>i. /\ Avail(head) <= Capacity
      /\ PublishedOnce /\ NotLentShown /\ HeldOnce /\ NoneLost /\ LostApart
      /\ Holders /\ OneRelease /\ Replenishment
  BY DEF OrderInv
<1>k. /\ head # tail /\ head' = (head + 1) % TailMod
      /\ bid' = [bid EXCEPT ![g] = ring[head % Capacity]]
      /\ ring' = ring /\ tail' = tail /\ t' = t /\ lost' = lost
      /\ pc[g] = "asked" /\ bid[g] = None
  BY <1>i DEF Lend, Eof, KernelTake, Goto, Holders
<1>z. Replenishing = {}
  BY DEF Lend, Eof, KernelTake, Orderly
<1>h. /\ Avail(head)' = Avail(head) - 1
      /\ \A k \in Int : Slot(k)' = Slot(k + 1)
  BY <1>k, HeadStep
<1>a. /\ \A k \in Int : At(k)' = At(k + 1)
      /\ Avail(head) \in 1 .. TailMod - 1
  BY <1>h, <1>k, SomethingShown DEF At
<1>f. At(0) = ring[head % Capacity] /\ At(0) \in Bids /\ 0 \in Shown
  <2>1. head + 0 = head
    BY Divisors DEF TypeOK, Tails
  <2>2. At(0) = ring[head % Capacity] /\ At(0) \in Bids
    BY <2>1, SlotBid DEF At, Slot
  <2> QED
    BY <2>2, <1>a, Divisors DEF Shown
<1>b. /\ bid'[g] = At(0)
      /\ \A u \in Goroutines : u # g => bid'[u] = bid[u]
  BY <1>t, <1>k, <1>f
<1>w. \A k \in Shown' : k \in Int /\ k + 1 \in Shown /\ k + 1 # 0
  BY <1>h, <1>a, Divisors DEF Shown
<1>1. PublishedOnce'
  <2> SUFFICES ASSUME NEW j \in Shown', NEW k \in Shown', At(j)' = At(k)' PROVE j = k
    BY DEF PublishedOnce
  <2>1. At(j + 1) = At(k + 1) /\ j + 1 \in Shown /\ k + 1 \in Shown /\ j \in Int /\ k \in Int
    BY <1>a, <1>w
  <2>2. j + 1 = k + 1
    BY <1>i, <2>1 DEF PublishedOnce
  <2> QED
    BY <2>1, <2>2
<1>2. NotLentShown'
  <2> SUFFICES ASSUME NEW k \in Shown', NEW u \in Goroutines PROVE At(k)' # bid'[u]
    BY DEF NotLentShown
  <2>1. At(k)' = At(k + 1) /\ k + 1 \in Shown /\ k + 1 # 0
    BY <1>a, <1>w
  <2>2. At(k + 1) # bid[u] /\ At(k + 1) # At(0)
    BY <1>i, <1>f, <2>1 DEF NotLentShown, PublishedOnce
  <2> QED
    BY <1>b, <2>1, <2>2
<1>3. HeldOnce'
  BY <1>i, <1>b, <1>f, <1>n DEF HeldOnce, NotLentShown
<1>4. NoneLost'
  <2> SUFFICES ASSUME NEW b \in Bids
               PROVE  \/ \E k \in Shown' : At(k)' = b
                      \/ \E u \in Goroutines : bid'[u] = b
                      \/ b \in lost'
    BY DEF NoneLost
  <2>1. ASSUME NEW u \in Goroutines, bid[u] = b PROVE bid'[u] = b
    BY <1>b, <1>k, <1>n, <2>1
  <2>2. ASSUME NEW k \in Shown, At(k) = b, k # 0 PROVE \E j \in Shown' : At(j)' = b
    <3>1. k - 1 \in Shown' /\ (k - 1) + 1 = k /\ k - 1 \in Int
      BY <2>2, <1>h, <1>a, Divisors DEF Shown
    <3>2. At(k - 1)' = At((k - 1) + 1)
      BY <1>a, <3>1
    <3> QED
      BY <2>2, <3>1, <3>2
  <2>3. ASSUME At(0) = b PROVE bid'[g] = b
    BY <1>b, <2>3
  <2> QED
    BY <1>i, <1>k, <2>1, <2>2, <2>3 DEF NoneLost
<1>l. LostApart'
  <2> SUFFICES ASSUME NEW b \in lost
               PROVE  /\ \A k \in Shown' : At(k)' # b
                      /\ \A u \in Goroutines : bid'[u] # b
    BY <1>k DEF LostApart
  <2>1. /\ \A k \in Shown : At(k) # b
        /\ \A u \in Goroutines : bid[u] # b
    BY <1>i DEF LostApart
  <2> QED
    BY <1>a, <1>b, <1>f, <1>w, <2>1
<1>5. Holders'
  BY <1>i, <1>t, <1>b DEF Holders, Lend, Eof, Goto
<1>6. OneRelease'
  <2>1. Releasing' = Releasing
    BY <1>t DEF Lend, Eof, Releasing, Goto
  <2>2. \A u \in Goroutines : pc'[u] = "publish" => u # g /\ pc[u] = "publish"
    BY <1>t DEF Lend, Eof, Goto
  <2> QED
    BY <1>i, <1>k, <1>b, <2>1, <2>2 DEF OneRelease
<1>7. Replenishment'
  <2>1. \A u \in Replenishing' : u = g
    BY <1>t, <1>z DEF Lend, Eof, Replenishing, Goto
  <2>2. \A u \in Goroutines : pc'[u] \notin {"avail", "pick"}
    BY <1>t, <1>z DEF Lend, Eof, Replenishing, Goto
  <2>3. -1 \in Int /\ -1 + 1 = 0
    OBVIOUS
  <2>4. At(-1)' = At(-1 + 1)
    BY <1>a, <2>3
  <2>5. At(-1)' = At(0)
    BY <2>3, <2>4
  <2> QED
    BY <1>b, <1>f, <1>n, <2>1, <2>2, <2>5 DEF Replenishment
<1>8. Avail(head)' <= Capacity
  BY <1>i, <1>h, <1>a, Divisors
<1> QED
  BY <1>1, <1>2, <1>3, <1>4, <1>l, <1>5, <1>6, <1>7, <1>8 DEF OrderInv

\* The descriptor a release writes is not one the kernel may take, nor the one
\* before the head when that is another's to replenish.
LEMMA EntrySlot ==
  ASSUME TypeOK, InHand, OrderInv, NEW g \in Goroutines, pc[g] = "entry"
  PROVE  /\ t[g] % Capacity = Slot(Avail(head))
         /\ \A k \in Shown : Slot(k) # Slot(Avail(head))
         /\ \A u \in Replenishing : bid[u] # None => Slot(-1) # Slot(Avail(head))
<1> DEFINE a == Avail(head)
<1>1. t[g] = tail
  BY DEF OrderInv, OneRelease, Releasing
<1>2. tail % Capacity = Slot(a) /\ a \in Nat
  BY TailSlot, Divisors
<1>3. bid[g] # None
  BY DEF InHand
<1>4. a <= Capacity - 1
  BY <1>3, HeldRoom
<1> HIDE DEF a
<1>5. ASSUME NEW k \in Shown, Slot(k) = Slot(a) PROVE FALSE
  <2>1. k \in Int /\ a \in Int /\ k - a < Capacity /\ a - k < Capacity /\ k # a
    BY <1>2, <1>4, <1>5, Divisors DEF Shown, a
  <2> QED
    BY <1>5, <2>1, SlotApart
<1>6. ASSUME NEW u \in Replenishing, bid[u] # None, Slot(-1) = Slot(a) PROVE FALSE
  <2>1. u # g /\ u \in Goroutines
    BY DEF Replenishing
  <2>2. a <= Capacity - 2
    BY <1>3, <1>6, <2>1, HeldRoom DEF a
  <2>3. -1 \in Int /\ a \in Int /\ -1 - a < Capacity /\ a - (-1) < Capacity /\ -1 # a
    BY <1>2, <2>2, Divisors
  <2> QED
    BY <1>6, <2>3, SlotApart
<1> QED
  BY <1>1, <1>2, <1>5, <1>6 DEF a

\* A write of a descriptor keeps the order.
LEMMA EntryStep ==
  ASSUME TypeOK, InHand, OrderInv, NEW g \in Goroutines, ReleaseEntry(g)
  PROVE  OrderInv'
<1>t. /\ pc \in [Goroutines -> {"idle", "asked", "loan", "status", "avail", "pick",
                                "tail", "entry", "publish"}]
      /\ ring \in [Bids -> Bids]
  BY DEF TypeOK
<1>i. /\ Avail(head) <= Capacity
      /\ PublishedOnce /\ NotLentShown /\ HeldOnce /\ NoneLost /\ LostApart
      /\ Holders /\ OneRelease /\ Replenishment
  BY DEF OrderInv
<1>k. /\ UNCHANGED <<tail, head, bid, t, h, lost>>
      /\ ring' = [ring EXCEPT ![Slot(Avail(head))] = bid[g]]
      /\ pc[g] = "entry" /\ pc' = [pc EXCEPT ![g] = "publish"]
  BY EntrySlot DEF ReleaseEntry, Goto
<1>s. /\ Avail(head)' = Avail(head) /\ Shown' = Shown
      /\ \A k \in Int : Slot(k)' = Slot(k)
  BY <1>k DEF Avail, Shown, Slot
<1>d. /\ \A k \in Shown : k \in Int
      /\ \A k \in Int : Slot(k) \in Bids
      /\ Avail(head) \in Int
  BY TailSlot, SlotBid, Divisors DEF Shown
<1>a. ASSUME NEW k \in Int, Slot(k) # Slot(Avail(head)) PROVE At(k)' = At(k)
  BY <1>k, <1>s, <1>d, <1>t, <1>a DEF At
<1>b. \A k \in Shown : At(k)' = At(k)
  BY <1>a, <1>d, <1>k, EntrySlot
<1>1. PublishedOnce' /\ NotLentShown' /\ HeldOnce' /\ NoneLost' /\ LostApart'
  BY <1>i, <1>b, <1>k, <1>s DEF PublishedOnce, NotLentShown, HeldOnce, NoneLost, LostApart
<1>2. Holders'
  BY <1>i, <1>k, <1>t DEF Holders
<1>3. OneRelease'
  <2>1. Releasing' = Releasing /\ g \in Releasing
    BY <1>k, <1>t DEF Releasing
  <2>2. ring'[tail' % Capacity] = bid'[g]
    <3>1. tail % Capacity = Slot(Avail(head))
      BY TailSlot
    <3> QED
      BY <1>k, <1>d, <1>t, <3>1
  <2>3. \A u \in Goroutines : pc'[u] = "publish" => u \in Releasing
    BY <1>k, <1>t, <2>1 DEF Releasing
  <2> QED
    BY <1>i, <1>k, <2>1, <2>2, <2>3 DEF OneRelease
<1>4. Replenishment'
  <2>1. Replenishing' = Replenishing
    BY <1>k, <1>t DEF Replenishing
  <2>2. -1 \in Int
    OBVIOUS
  <2>3. \A u \in Replenishing : bid[u] # None => At(-1)' = At(-1)
    BY <1>a, <1>k, <2>2, EntrySlot
  <2>4. \A u \in Goroutines : pc'[u] \in {"avail", "pick"} => pc[u] \in {"avail", "pick"}
    BY <1>k, <1>t
  <2> QED
    BY <1>i, <1>k, <2>1, <2>3, <2>4 DEF Replenishment
<1> QED
  BY <1>i, <1>s, <1>1, <1>2, <1>3, <1>4 DEF OrderInv

\* The publication moves the buffer from the goroutine to the window's end.
LEMMA PublishStep ==
  ASSUME TypeOK, TypeOK', InHand, OrderInv, NEW g \in Goroutines, ReleasePublish(g)
  PROVE  OrderInv'
<1>t. /\ pc \in [Goroutines -> {"idle", "asked", "loan", "status", "avail", "pick",
                                "tail", "entry", "publish"}]
      /\ bid \in [Goroutines -> Bids \cup {None}]
      /\ t \in [Goroutines -> Tails]
  BY DEF TypeOK
<1>i. /\ Avail(head) <= Capacity
      /\ PublishedOnce /\ NotLentShown /\ HeldOnce /\ NoneLost /\ LostApart
      /\ Holders /\ OneRelease /\ Replenishment
  BY DEF OrderInv
<1>k. /\ pc[g] = "publish" /\ bid[g] # None
      /\ UNCHANGED <<ring, head, h, lost>>
      /\ bid' = [bid EXCEPT ![g] = None] /\ t' = [t EXCEPT ![g] = 0]
      /\ pc' = [pc EXCEPT ![g] = "idle"]
      /\ tail' = (t[g] + 1) % TailMod
  BY DEF ReleasePublish, PublishTail, Goto, InHand
<1>g. t[g] = tail /\ ring[tail % Capacity] = bid[g] /\ g \in Releasing
  BY <1>i, <1>k DEF OneRelease, Releasing
<1>r. Avail(head) <= Capacity - 1
  BY <1>k, HeldRoom
<1>s. /\ Avail(head)' = Avail(head) + 1
      /\ \A k \in Int : Slot(k)' = Slot(k)
  BY <1>k, <1>g, <1>r, TailStep
<1>a. \A k \in Int : At(k)' = At(k)
  BY <1>k, <1>s DEF At
<1>e. At(Avail(head)) = bid[g] /\ Avail(head) \in Nat
  BY <1>g, TailSlot, Divisors DEF At
<1>w. /\ Shown' = Shown \cup {Avail(head)} /\ Avail(head) \notin Shown
      /\ \A k \in Shown' : k \in Int
  BY <1>e, <1>s DEF Shown
<1>b. bid'[g] = None /\ \A u \in Goroutines : u # g => bid'[u] = bid[u]
  BY <1>k, <1>t
<1>1. PublishedOnce'
  BY <1>i, <1>a, <1>e, <1>w DEF PublishedOnce, NotLentShown
<1>2. NotLentShown'
  <2> SUFFICES ASSUME NEW k \in Shown', NEW u \in Goroutines PROVE At(k)' # bid'[u]
    BY DEF NotLentShown
  <2>1. At(k)' = At(k) /\ k \in Int
    BY <1>a, <1>w
  <2>2. At(k) \in Bids
    BY <2>1, SlotBid
  <2>3. ASSUME u = g PROVE At(k) # bid'[u]
    BY <1>b, <2>2, <2>3, Divisors DEF Bids
  <2>4. ASSUME u # g, k = Avail(head) PROVE At(k) # bid'[u]
    BY <1>b, <1>e, <1>i, <1>k, <2>4 DEF HeldOnce
  <2>5. ASSUME u # g, k \in Shown PROVE At(k) # bid'[u]
    BY <1>b, <1>i, <2>5 DEF NotLentShown
  <2> QED
    BY <1>w, <2>1, <2>3, <2>4, <2>5
<1>3. HeldOnce'
  BY <1>i, <1>b DEF HeldOnce
<1>4. NoneLost'
  <2> SUFFICES ASSUME NEW b \in Bids
               PROVE  \/ \E k \in Shown' : At(k)' = b
                      \/ \E u \in Goroutines : bid'[u] = b
                      \/ b \in lost'
    BY DEF NoneLost
  <2>1. ASSUME NEW u \in Goroutines, u # g, bid[u] = b PROVE bid'[u] = b
    BY <1>b, <2>1
  <2>2. ASSUME NEW k \in Shown \cup {Avail(head)}, At(k) = b PROVE \E j \in Shown' : At(j)' = b
    BY <1>a, <1>w, <2>2
  <2> QED
    BY <1>i, <1>e, <1>k, <2>1, <2>2 DEF NoneLost
<1>l. LostApart'
  <2> SUFFICES ASSUME NEW b \in lost
               PROVE  /\ \A k \in Shown' : At(k)' # b
                      /\ \A u \in Goroutines : bid'[u] # b
    BY <1>k DEF LostApart
  <2>1. /\ \A k \in Shown : At(k) # b
        /\ \A u \in Goroutines : bid[u] # b
    BY <1>i DEF LostApart
  <2>2. b # None
    <3>1. lost \subseteq Bids
      BY DEF TypeOK
    <3>2. None \notin Bids
      BY Divisors DEF Bids
    <3> QED
      BY <3>1, <3>2
  <2>3. \A u \in Goroutines : bid'[u] # b
    BY <1>b, <2>1, <2>2
  <2>4. ASSUME NEW k \in Shown' PROVE At(k)' # b
    <3>1. At(k)' = At(k)
      BY <1>a, <1>w
    <3>2. k = Avail(head) \/ k \in Shown
      BY <1>w
    <3>3. At(Avail(head)) # b
      BY <1>e, <2>1
    <3> QED
      BY <2>1, <3>1, <3>2, <3>3
  <2> QED
    BY <2>3, <2>4
<1>5. Holders'
  BY <1>i, <1>k, <1>t, <1>b DEF Holders
<1>6. OneRelease'
  <2>1. Releasing' = {}
    BY <1>i, <1>k, <1>t, <1>g DEF OneRelease, Releasing
  <2>2. \A u \in Goroutines : pc'[u] # "publish"
    BY <1>i, <1>k, <1>t, <1>g DEF OneRelease, Releasing
  <2> QED
    BY <2>1, <2>2 DEF OneRelease
<1>7. Replenishment'
  <2>1. Replenishing' \subseteq Replenishing /\ g \notin Replenishing'
    BY <1>k, <1>t DEF Replenishing
  <2>2. \A u \in Replenishing' : u \in Goroutines /\ bid'[u] = bid[u]
    BY <1>b, <2>1 DEF Replenishing
  <2>3. At(-1)' = At(-1)
    BY <1>a
  <2>4. \A u \in Goroutines : pc'[u] \in {"avail", "pick"} => pc[u] \in {"avail", "pick"}
    BY <1>k, <1>t
  <2> QED
    BY <1>i, <1>k, <1>b, <2>1, <2>2, <2>3, <2>4 DEF Replenishment
<1>8. Avail(head)' <= Capacity
  BY <1>s, <1>r, <1>e, Divisors
<1> QED
  BY <1>1, <1>2, <1>3, <1>4, <1>l, <1>5, <1>6, <1>7, <1>8 DEF OrderInv

\* A status query that fails moves the buffer of the EOF, if there is one, to
\* the lost ones; everything else stays where it was.
LEMMA FailStep ==
  ASSUME TypeOK, OrderInv, NEW g \in Goroutines, ReplenishFails(g)
  PROVE  OrderInv'
<1>t. /\ pc \in [Goroutines -> {"idle", "asked", "loan", "status", "avail", "pick",
                                "tail", "entry", "publish"}]
      /\ bid \in [Goroutines -> Bids \cup {None}]
      /\ lost \subseteq Bids
  BY DEF TypeOK
<1>i. /\ Avail(head) <= Capacity
      /\ PublishedOnce /\ NotLentShown /\ HeldOnce /\ NoneLost /\ LostApart
      /\ Holders /\ OneRelease /\ Replenishment
  BY DEF OrderInv
<1>n. None \notin Bids
  BY Divisors DEF Bids
<1>k. /\ UNCHANGED <<ring, tail, head, t, h>>
      /\ pc[g] = "status" /\ pc' = [pc EXCEPT ![g] = "idle"]
      /\ lost' = lost \cup ({bid[g]} \ {None})
  BY DEF ReplenishFails, Goto
<1>b. bid'[g] = None /\ \A u \in Goroutines : u # g => bid'[u] = bid[u]
  BY <1>t DEF ReplenishFails
<1>a. /\ Avail(head)' = Avail(head) /\ Shown' = Shown
      /\ \A k \in Int : At(k)' = At(k)
      /\ \A k \in Shown : k \in Int /\ At(k) \in Bids
  BY <1>k, TailSlot, SlotBid, Divisors DEF Avail, Shown, Slot, At
<1>1. PublishedOnce' /\ NotLentShown' /\ HeldOnce'
  BY <1>i, <1>a, <1>b, <1>n DEF PublishedOnce, NotLentShown, HeldOnce
<1>2. NoneLost'
  <2> SUFFICES ASSUME NEW b \in Bids
               PROVE  \/ \E k \in Shown' : At(k)' = b
                      \/ \E u \in Goroutines : bid'[u] = b
                      \/ b \in lost'
    BY DEF NoneLost
  <2>1. ASSUME bid[g] = b PROVE b \in lost'
    BY <1>k, <1>n, <2>1
  <2> QED
    BY <1>i, <1>a, <1>b, <1>k, <2>1 DEF NoneLost
<1>3. LostApart'
  <2> SUFFICES ASSUME NEW b \in lost'
               PROVE  /\ \A k \in Shown' : At(k)' # b
                      /\ \A u \in Goroutines : bid'[u] # b
    BY DEF LostApart
  <2>1. b # None
    BY <1>k, <1>n, <1>t
  <2>2. CASE b \in lost
    BY <1>i, <1>a, <1>b, <2>1, <2>2 DEF LostApart
  <2>3. CASE b = bid[g]
    <3>1. \A k \in Shown' : At(k)' # b
      BY <1>i, <1>a, <2>3 DEF NotLentShown
    <3>2. \A u \in Goroutines : bid'[u] # b
      BY <1>i, <1>b, <2>1, <2>3 DEF HeldOnce
    <3> QED
      BY <3>1, <3>2
  <2> QED
    BY <1>k, <2>2, <2>3
<1>4. Holders'
  BY <1>i, <1>k, <1>t, <1>b DEF Holders
<1>5. OneRelease'
  <2>1. Releasing' = Releasing /\ g \notin Releasing
    BY <1>k, <1>t DEF Releasing
  <2>2. \A u \in Goroutines : pc'[u] = "publish" => u # g /\ pc[u] = "publish"
    BY <1>k, <1>t
  <2> QED
    BY <1>i, <1>k, <1>b, <2>1, <2>2 DEF OneRelease
<1>6. Replenishment'
  <2>1. Replenishing' \subseteq Replenishing /\ g \notin Replenishing' /\ g \in Replenishing
    BY <1>k, <1>t DEF Replenishing
  <2>2. ASSUME NEW u \in Replenishing', bid[u] = None
        PROVE  lost' = {} /\ \A v \in Goroutines : bid'[v] = None
    <3>1. lost = {} /\ \A v \in Goroutines : bid[v] = None
      BY <1>i, <2>1, <2>2 DEF Replenishment
    <3> QED
      BY <1>k, <1>b, <3>1
  <2>3. \A u \in Replenishing' : u \in Goroutines /\ u # g
    BY <2>1 DEF Replenishing
  <2>4. At(-1)' = At(-1)
    BY <1>a
  <2>5. \A u \in Goroutines : pc'[u] \in {"avail", "pick"} => pc[u] \in {"avail", "pick"}
    BY <1>k, <1>t
  <2> QED
    BY <1>i, <1>k, <1>b, <2>1, <2>2, <2>3, <2>4, <2>5 DEF Replenishment
<1> QED
  BY <1>i, <1>a, <1>1, <1>2, <1>3, <1>4, <1>5, <1>6 DEF OrderInv

(***************************************************************************)
(* Theorems.                                                               *)
(***************************************************************************)

\* The order outlives every step that does not break it.
LEMMA NextIInv == IInv /\ [Next]_vars => IInv'
<1> SUFFICES ASSUME IInv, [Next]_vars PROVE IInv'
  OBVIOUS
<1>1. TypeOK /\ InHand /\ (Orderly => OrderInv)
  BY DEF IInv
<1>2. TypeOK' /\ InHand'
  BY <1>1, TypeStep, HandStep
<1>3. ASSUME Orderly' PROVE OrderInv'
  <2>1. OrderInv
    BY <1>1, <1>3, OrderlyBefore
  <2>2. ASSUME NEW g \in Goroutines, Go(g) PROVE OrderInv'
    BY <1>1, <1>2, <1>3, <2>1, <2>2, QuietStep, TakeStep, EntryStep, PublishStep, FailStep DEF Go
  <2>3. CASE UNCHANGED vars
    <3>1. UNCHANGED <<ring, tail, head, bid, pc, t, h, lost>>
      BY <2>3 DEF vars
    <3> QED
      BY <2>1, <3>1, Still DEF OrderInv, Holders, OneRelease, Replenishment, Releasing,
         Replenishing, At, Slot
  <2> QED
    BY <2>2, <2>3 DEF Next
<1> QED
  BY <1>2, <1>3 DEF IInv

\* Releases, loans and replenishments of callers that keep to the rules leave
\* every buffer in one place, where a status query that failed loses it being
\* one, and the indices in step with it.
THEOREM Invariance == Spec => []IInv
<1>1. Init => IInv
  BY InitIInv
<1>2. IInv /\ [Next]_vars => IInv'
  BY NextIInv
<1> QED
  BY <1>1, <1>2, PTL DEF Spec

\* The indices of the ring stay 16-bit and every descriptor holds a BID, even
\* when releases overlap.
THEOREM TypeCorrect == Spec => []TypeOK
<1>1. IInv => TypeOK
  BY DEF IInv
<1> QED
  BY <1>1, Invariance, PTL

\* A buffer is published, or with one goroutine, or lost, and only one of them.
LEMMA OnePlace ==
  ASSUME TypeOK, OrderInv, NEW b \in Bids
  PROVE  Cardinality({i \in Visible : ring[i] = b})
           + Cardinality({g \in Goroutines : bid[g] = b})
           + Cardinality({b} \cap lost) = 1
<1> DEFINE I == {i \in Visible : ring[i] = b}
           G == {g \in Goroutines : bid[g] = b}
           L == {b} \cap lost
<1>i. PublishedOnce /\ NotLentShown /\ HeldOnce /\ NoneLost /\ LostApart
  BY DEF OrderInv
<1>v. Visible = {Slot(k) : k \in Shown}
  BY DEF Visible, Shown, Slot
<1>n. b # None
  BY Divisors DEF Bids
<1>1. ASSUME NEW k \in Shown, At(k) = b
      PROVE  Cardinality(I) + Cardinality(G) + Cardinality(L) = 1
  <2>1. I = {Slot(k)}
    BY <1>i, <1>v, <1>1 DEF PublishedOnce, At
  <2>2. G = {} /\ L = {}
    BY <1>i, <1>1 DEF NotLentShown, LostApart
  <2> HIDE DEF I, G, L
  <2>3. Cardinality(I) = 1 /\ Cardinality(G) = 0 /\ Cardinality(L) = 0
    BY <2>1, <2>2, FS_Singleton, FS_EmptySet
  <2> QED
    BY <2>3
<1>2. ASSUME NEW g \in Goroutines, bid[g] = b
      PROVE  Cardinality(I) + Cardinality(G) + Cardinality(L) = 1
  <2>1. I = {} /\ L = {}
    BY <1>i, <1>v, <1>2 DEF NotLentShown, LostApart, At
  <2>2. G = {g}
    BY <1>i, <1>2, <1>n DEF HeldOnce
  <2> HIDE DEF I, G, L
  <2>3. Cardinality(I) = 0 /\ Cardinality(G) = 1 /\ Cardinality(L) = 0
    BY <2>1, <2>2, FS_Singleton, FS_EmptySet
  <2> QED
    BY <2>3
<1>3. ASSUME b \in lost
      PROVE  Cardinality(I) + Cardinality(G) + Cardinality(L) = 1
  <2>1. I = {} /\ G = {}
    BY <1>i, <1>v, <1>3 DEF LostApart, At
  <2>2. L = {b}
    BY <1>3
  <2> HIDE DEF I, G, L
  <2>3. Cardinality(I) = 0 /\ Cardinality(G) = 0 /\ Cardinality(L) = 1
    BY <2>1, <2>2, FS_Singleton, FS_EmptySet
  <2> QED
    BY <2>3
<1> QED
  BY <1>i, <1>1, <1>2, <1>3 DEF NoneLost

\* However loans, EOFs and releases interleave, as long as they keep out of
\* each other's way no buffer is lent or published twice, and none is lost
\* other than to a status query that failed.
THEOREM Conserved == Spec => []BuffersConserved
<1>1. IInv => BuffersConserved
  <2> SUFFICES ASSUME IInv, Orderly PROVE BuffersConserved
    BY DEF BuffersConserved
  <2>1. TypeOK /\ OrderInv
    BY DEF IInv
  <2>2. Avail(head) <= Capacity
    BY <2>1 DEF OrderInv
  <2> QED
    BY <2>1, <2>2, OnePlace DEF BuffersConserved
<1> QED
  BY <1>1, Invariance, PTL

\* ReleaseBuffer writes its descriptor where the kernel does not look.
THEOREM Unseen == Spec => WritesUnseen
<1>1. IInv /\ [Next]_vars => [Orderly => \A i \in Visible : ring'[i] = ring[i]]_vars
  <2> SUFFICES ASSUME IInv, [Next]_vars, Orderly, NEW i \in Visible
               PROVE  ring'[i] = ring[i]
    OBVIOUS
  <2>1. TypeOK /\ InHand /\ OrderInv
    BY DEF IInv
  <2>2. ASSUME NEW g \in Goroutines, ReleaseEntry(g) PROVE ring'[i] = ring[i]
    <3>1. pc[g] = "entry" /\ ring' = [ring EXCEPT ![t[g] % Capacity] = bid[g]]
      BY <2>2 DEF ReleaseEntry, Goto
    <3>2. PICK k \in Shown : i = Slot(k)
      BY DEF Visible, Shown, Slot
    <3>3. i # t[g] % Capacity
      BY <2>1, <3>1, <3>2, EntrySlot
    <3>4. k \in Int
      BY <2>1, TailSlot, Divisors DEF Shown
    <3>5. i \in Bids
      BY <2>1, <3>2, <3>4, SlotBid
    <3> QED
      BY <2>1, <3>1, <3>3, <3>5 DEF TypeOK
  <2>3. ASSUME \A g \in Goroutines : ~ ReleaseEntry(g) PROVE ring' = ring
    BY <2>3 DEF Next, Go, Ask, Lend, TakeNothing, Eof, EofRecycled, KernelTake,
       ReplenishStatus, ReplenishFails, ReplenishCheck, ReplenishPick, ReleaseTail,
       ReleasePublish, PublishTail, vars
  <2> QED
    BY <2>2, <2>3
<1> QED
  BY <1>1, Invariance, PTL DEF Spec, WritesUnseen

\* Once the kernel has answered with its head, ReplenishOne publishes the very
\* buffer the EOF took, and gives up only if it took none.
THEOREM EofBufferFound == Spec => EofReplenished
<1>1. IInv /\ [Next]_vars
        => [Orderly => \A g \in Goroutines :
              /\ pc[g] = "avail" /\ pc'[g] = "idle" => bid[g] = None
              /\ pc[g] = "pick" /\ pc'[g] = "tail" => bid[g] # None /\ bid'[g] = bid[g]]_vars
  <2> SUFFICES ASSUME IInv, [Next]_vars, Orderly, NEW g \in Goroutines
               PROVE  /\ pc[g] = "avail" /\ pc'[g] = "idle" => bid[g] = None
                      /\ pc[g] = "pick" /\ pc'[g] = "tail"
                           => bid[g] # None /\ bid'[g] = bid[g]
    OBVIOUS
  <2>1. TypeOK /\ OrderInv /\ Holders /\ Replenishment
    BY DEF IInv, OrderInv
  <2>t. /\ pc \in [Goroutines -> {"idle", "asked", "loan", "status", "avail", "pick",
                                  "tail", "entry", "publish"}]
        /\ bid \in [Goroutines -> Bids \cup {None}]
        /\ head \in Int
    BY <2>1, Divisors DEF TypeOK, Tails
  <2>2. ASSUME pc[g] = "avail", pc'[g] = "idle" PROVE bid[g] = None
    <3>1. ReplenishCheck(g)
      BY <2>t, <2>2 DEF Next, Go, Ask, Lend, TakeNothing, Eof, EofRecycled, ReplenishStatus,
         ReplenishFails, ReplenishCheck, ReplenishPick, ReleaseTail, ReleaseEntry,
         ReleasePublish, PublishTail, Goto, vars
    <3>2. Avail(h[g]) = Capacity
      BY <2>t, <2>2, <3>1 DEF ReplenishCheck, Goto
    <3>3. h[g] = head
      BY <2>1, <2>2 DEF Replenishment
    <3>4. ~ (Avail(head) <= Capacity - 1)
      BY <3>2, <3>3, Divisors
    <3> QED
      BY <2>1, <3>4, HeldRoom
  <2>3. ASSUME pc[g] = "pick", pc'[g] = "tail" PROVE bid[g] # None /\ bid'[g] = bid[g]
    <3>1. ReplenishPick(g)
      BY <2>t, <2>3 DEF Next, Go, Ask, Lend, TakeNothing, Eof, EofRecycled, ReplenishStatus,
         ReplenishFails, ReplenishCheck, ReplenishPick, ReleaseTail, ReleaseEntry,
         ReleasePublish, PublishTail, Goto, vars
    <3>2. bid[g] # None /\ h[g] = head /\ bid[g] = At(-1)
      BY <2>1, <2>3 DEF Holders, Replenishment, Replenishing
    <3>3. head - 1 = head + (-1)
      BY <2>t
    <3> QED
      BY <2>t, <3>1, <3>2, <3>3 DEF ReplenishPick, At, Slot
  <2> QED
    BY <2>2, <2>3
<1> QED
  BY <1>1, Invariance, PTL DEF Spec, EofReplenished
=============================================================================
