--------------------------- MODULE AppendDequeProofs ---------------------------
(***************************************************************************)
(* The append-only deque: wait-free reads are safe, and appended elements   *)
(* stay, for any number of threads, any block size and any capacity.       *)
(***************************************************************************)
EXTENDS AppendDeque, ModuloLemmas, TLAPS

\* The steps are Zenon's, except where SMT is cited.
USE Zenon

-----------------------------------------------------------------------------
(* The log, as a constant.                                                 *)

Records ==
    [op : {"dir"}, cap : Nat, blocks : UNION {[0..(c - 1) -> Nat] : c \in Nat}]
    \cup [op : {"entry"}, dir : Nat, slot : Nat]
    \cup [op : {"make"}, addr : Nat \X Nat, by : Threads \cup {NoThread}]
    \cup [op : {"size"}, val : Nat]

\* The operators of AppendDeque, of any log l.
StoresIn(l, op) == {k \in 1..Len(l) : l[k].op = op}
LatestIn(l, op, v) == Max({0} \cup {k \in StoresIn(l, op) : k <= v})
CapacityIn(l, d) == IF d = 0 THEN 0 ELSE l[d].cap
EntriesIn(l, d, s) == {k \in StoresIn(l, "entry") : l[k].dir = d /\ l[k].slot = s}
EntryIn(l, d, s) ==
    IF EntriesIn(l, d, s) = {} THEN l[d].blocks[s] ELSE Max(EntriesIn(l, d, s))
AddressIn(l, d, i) == <<EntryIn(l, d, BlockOf(i)), OffsetOf(i)>>
MakesIn(l, a) == {k \in StoresIn(l, "make") : l[k].addr = a}
ValueIn(l, z) == IF z = 0 THEN 0 ELSE l[z].val

\* The directory in use, the size, the slots of a directory.
Top(l) == LatestIn(l, "dir", Len(l))
SizeIn(l) == ValueIn(l, LatestIn(l, "size", Len(l)))
Slots(l, d) == 0..(CapacityIn(l, d) - 1)
At_(l, i) == AddressIn(l, Top(l), i)

\* They are those of AppendDeque, of its log.
LEMMA OfTheLog ==
    /\ \A op : Stores(op) = StoresIn(log, op)
    /\ \A op, v : Latest(op, v) = LatestIn(log, op, v)
    /\ \A d : CapacityOf(d) = CapacityIn(log, d)
    /\ \A d, s : EntryStores(d, s) = EntriesIn(log, d, s) /\ Entry(d, s) = EntryIn(log, d, s)
    /\ \A d, i : Address(d, i) = AddressIn(log, d, i)
    /\ \A a : Makes(a) = MakesIn(log, a)
    /\ \A z : SizeAt(z) = ValueIn(log, z)
    /\ directory_ = Top(log) /\ size_ = SizeIn(log)
    /\ directory_capacity_ = CapacityIn(log, Top(log))
  <1>1. \A op : Stores(op) = StoresIn(log, op)
    BY DEF Stores, StoresIn, Now
  <1>2. \A op, v : Latest(op, v) = LatestIn(log, op, v)
    BY <1>1 DEF Latest, LatestIn
  <1>3. \A d : CapacityOf(d) = CapacityIn(log, d)
    BY DEF CapacityOf, CapacityIn
  <1>4. \A d, s : EntryStores(d, s) = EntriesIn(log, d, s)
    BY <1>1 DEF EntryStores, EntriesIn
  <1>5. \A d, s : Entry(d, s) = EntryIn(log, d, s)
    BY <1>4 DEF Entry, EntryIn
  <1>6. \A d, i : Address(d, i) = AddressIn(log, d, i)
    BY <1>5 DEF Address, AddressIn
  <1>7. \A a : Makes(a) = MakesIn(log, a)
    BY <1>1 DEF Makes, MakesIn
  <1>8. \A z : SizeAt(z) = ValueIn(log, z)
    BY DEF SizeAt, ValueIn
  <1>9. directory_ = Top(log) /\ size_ = SizeIn(log)
    BY <1>2, <1>8 DEF directory_, Top, size_, SizeIn, Now
  <1> QED
    BY <1>1, <1>2, <1>3, <1>4, <1>5, <1>6, <1>7, <1>8, <1>9 DEF directory_capacity_

\* The same after a step, of the stores.
LEMMA OfTheLogNext ==
    \A op : Stores(op)' = StoresIn(log', op)
  BY DEF Stores, StoresIn, Now

-----------------------------------------------------------------------------
(* Largest elements.                                                       *)

\* Every set of naturals up to n has a largest one.  LogInv has this for the
\* length of the log.
Ordered(n) == \A S \in SUBSET (0..n) : S # {} => \E x \in S : \A y \in S : x >= y

LEMMA MaxIn ==
    ASSUME NEW n \in Nat, Ordered(n), NEW S \in SUBSET (0..n), S # {}
    PROVE  Max(S) \in S /\ \A y \in S : Max(S) >= y
  <1>1. \E x \in S : \A y \in S : x >= y
    BY DEF Ordered
  <1> QED
    BY <1>1 DEF Max

LEMMA OrderedNext ==
    ASSUME NEW n \in Nat, Ordered(n)
    PROVE  Ordered(n + 1)
  <1> SUFFICES ASSUME NEW S \in SUBSET (0..(n + 1)), S # {}
               PROVE  \E x \in S : \A y \in S : x >= y
    BY DEF Ordered
  <1>1. \A y \in S : n + 1 >= y /\ (y # n + 1 => y \in 0..n)
    BY SMT
  <1>2. CASE n + 1 \in S
    BY <1>1, <1>2
  <1>3. CASE n + 1 \notin S
    <2>1. S \in SUBSET (0..n)
      BY <1>1, <1>3
    <2> QED
      BY <2>1 DEF Ordered
  <1> QED
    BY <1>2, <1>3

\* There is one largest element.
LEMMA MaxIs ==
    ASSUME NEW S \in SUBSET Nat, NEW x \in S, \A y \in S : x >= y
    PROVE  Max(S) = x
  <1>1. Max(S) \in S /\ \A y \in S : Max(S) >= y
    BY DEF Max
  <1>2. PICK m \in Nat : m = Max(S)
    BY <1>1
  <1>3. m >= x /\ x >= m /\ x \in Nat
    BY <1>1, <1>2
  <1> QED
    BY <1>2, <1>3, SMT

\* The latest store of a kind, at v.
LEMMA LatestIs ==
    ASSUME NEW l \in Seq(Records), Ordered(Len(l)), NEW op, NEW v \in Nat
    PROVE  /\ LatestIn(l, op, v) \in {0} \cup StoresIn(l, op) /\ LatestIn(l, op, v) \in Nat
           /\ LatestIn(l, op, v) <= v
           /\ \A k \in StoresIn(l, op) : k <= v => k <= LatestIn(l, op, v)
  <1> DEFINE S == {0} \cup {k \in StoresIn(l, op) : k <= v}
  <1>1. \A k \in StoresIn(l, op) : k \in Nat /\ k <= Len(l)
    BY SMT DEF StoresIn
  <1>2. S \in SUBSET (0..Len(l)) /\ S # {} /\ Len(l) \in Nat
    <2>1. Len(l) \in Nat /\ \A k \in S : k \in 0..Len(l)
      BY <1>1, SMT
    <2> QED
      BY <2>1
  <1>3. Max(S) \in S /\ \A y \in S : Max(S) >= y
    <2> HIDE DEF S
    <2> QED
      BY <1>2, MaxIn
  <1>4. PICK m \in Nat : m = Max(S) /\ m \in S /\ m <= v /\ \A y \in S : m >= y
    <2>1. \A k \in S : k \in Nat /\ k <= v
      BY <1>1, SMT
    <2> QED
      BY <1>3, <2>1
  <1>5. LatestIn(l, op, v) = m
    BY <1>4 DEF LatestIn
  <1>6. \A k \in StoresIn(l, op) : k <= v => k <= m
    <2> TAKE k \in StoresIn(l, op)
    <2> HAVE k <= v
    <2>1. m >= k /\ k \in Nat
      BY <1>1, <1>4
    <2> QED
      BY <2>1, SMT
  <1> QED
    BY <1>4, <1>5, <1>6

-----------------------------------------------------------------------------
(* One more store.                                                         *)

\* The log l followed by the store w is l2.
Grows_(l, w, l2) == l \in Seq(Records) /\ w \in Records /\ l2 = Append(l, w)

\* Nothing before the store changes.
Added(l, w, l2) ==
    /\ l \in Seq(Records) /\ l2 \in Seq(Records)
    /\ Len(l) \in Nat /\ Len(l2) = Len(l) + 1 /\ Len(l2) \in Nat
    /\ l2[Len(l) + 1] = w /\ \A k \in 1..Len(l) : l2[k] = l[k]
    /\ Len(l) + 1 \notin 1..Len(l)
    /\ 1..Len(l2) = 1..Len(l) \cup {Len(l) + 1}
    /\ Ordered(Len(l)) => Ordered(Len(l2))

LEMMA StoreAdded ==
    ASSUME NEW l, NEW w, NEW l2, Grows_(l, w, l2)
    PROVE  Added(l, w, l2)
  <1>1. Len(l) \in Nat /\ Len(l2) = Len(l) + 1
    BY SMT DEF Grows_
  <1>2. Ordered(Len(l)) => Ordered(Len(l2))
    BY <1>1, OrderedNext
  <1> QED
    BY <1>2, SMT DEF Grows_, Added

\* The stores of a kind are as before, with the new one if it is of that kind.
AddedOf(l, w, l2, op) ==
    /\ StoresIn(l, op) \subseteq 1..Len(l) /\ StoresIn(l, op) \subseteq StoresIn(l2, op)
    /\ w.op # op => StoresIn(l2, op) = StoresIn(l, op)
    /\ w.op = op => StoresIn(l2, op) = StoresIn(l, op) \cup {Len(l) + 1}
    /\ \A k \in StoresIn(l, op) : k \in Nat /\ k <= Len(l) /\ k # 0 /\ l2[k] = l[k]

LEMMA StoresAdded ==
    ASSUME NEW l, NEW w, NEW l2, Grows_(l, w, l2), NEW op
    PROVE  AddedOf(l, w, l2, op)
  <1>0. Added(l, w, l2)
    BY StoreAdded
  <1>1. StoresIn(l, op) \subseteq 1..Len(l)
    BY DEF StoresIn
  <1>2. \A k \in StoresIn(l, op) : l2[k] = l[k]
    BY <1>0, <1>1 DEF Added
  <1>3. \A k \in 1..Len(l) : k \in Nat /\ k <= Len(l) /\ k # 0
    BY <1>0, SMT DEF Added
  <1>4. \A k : k \in StoresIn(l2, op) <=> k \in StoresIn(l, op) \/ (k = Len(l) + 1 /\ w.op = op)
    <2> TAKE k
    <2>1. k \in 1..Len(l2) <=> k \in 1..Len(l) \/ k = Len(l) + 1
      BY <1>0 DEF Added
    <2>2. k \in 1..Len(l) => l2[k] = l[k] /\ k # Len(l) + 1
      BY <1>0 DEF Added
    <2>3. l2[Len(l) + 1] = w
      BY <1>0 DEF Added
    <2> QED
      BY <2>1, <2>2, <2>3 DEF StoresIn
  <1> QED
    BY <1>1, <1>2, <1>3, <1>4 DEF AddedOf

\* What was latest before is still so.
LatestSame(l, w, l2, op, v) == LatestIn(l2, op, v) = LatestIn(l, op, v)

LEMMA LatestKept ==
    ASSUME NEW l, NEW w, NEW l2, Grows_(l, w, l2), NEW op, NEW v \in Nat, v <= Len(l)
    PROVE  LatestSame(l, w, l2, op, v)
  <1>0. Added(l, w, l2) /\ AddedOf(l, w, l2, op)
    BY StoreAdded, StoresAdded
  <1>1. ~(Len(l) + 1 <= v)
    BY <1>0, SMT DEF Added
  <1>2. {k \in StoresIn(l2, op) : k <= v} = {k \in StoresIn(l, op) : k <= v}
    BY <1>0, <1>1 DEF AddedOf
  <1> QED
    BY <1>2 DEF LatestIn, LatestSame

\* The new store is the latest of its kind.
LatestOf(l, w, l2, op) ==
    /\ w.op # op => LatestIn(l2, op, Len(l2)) = LatestIn(l, op, Len(l))
    /\ w.op = op => LatestIn(l2, op, Len(l2)) = Len(l) + 1

LEMMA LatestNew ==
    ASSUME NEW l, NEW w, NEW l2, Grows_(l, w, l2), NEW op
    PROVE  LatestOf(l, w, l2, op)
  <1>0. AddedOf(l, w, l2, op) /\ Len(l) \in Nat /\ Len(l2) = Len(l) + 1
    BY StoreAdded, StoresAdded DEF Added
  <1>1. CASE w.op # op
    <2>1. \A k \in StoresIn(l, op) : k <= Len(l) /\ k <= Len(l2)
      <3> TAKE k \in StoresIn(l, op)
      <3>1. k \in Nat /\ k <= Len(l)
        BY <1>0 DEF AddedOf
      <3> QED
        BY <1>0, <3>1, SMT
    <2>2. StoresIn(l2, op) = StoresIn(l, op)
      BY <1>0, <1>1 DEF AddedOf
    <2>3. {k \in StoresIn(l2, op) : k <= Len(l2)} = {k \in StoresIn(l, op) : k <= Len(l)}
      BY <2>1, <2>2
    <2> QED
      BY <1>1, <2>3 DEF LatestIn, LatestOf
  <1>2. CASE w.op = op
    <2> DEFINE S == {0} \cup {k \in StoresIn(l2, op) : k <= Len(l2)}
               n == Len(l) + 1
    <2>1. StoresIn(l2, op) = StoresIn(l, op) \cup {n}
      BY <1>0, <1>2 DEF AddedOf
    <2>2. \A k \in StoresIn(l, op) : k \in Nat /\ n >= k
      <3> TAKE k \in StoresIn(l, op)
      <3>1. k \in Nat /\ k <= Len(l)
        BY <1>0 DEF AddedOf
      <3> QED
        BY <1>0, <3>1, SMT
    <2>3. n \in Nat /\ n <= Len(l2) /\ n >= 0 /\ n >= n /\ 0 \in Nat
      BY <1>0, SMT
    <2> HIDE DEF n
    <2>4. S \in SUBSET Nat /\ n \in S /\ \A y \in S : n >= y
      BY <2>1, <2>2, <2>3
    <2> HIDE DEF S
    <2>5. Max(S) = n
      BY <2>4, MaxIs
    <2> QED
      BY <1>2, <2>5 DEF LatestIn, S, n, LatestOf
  <1> QED
    BY <1>1, <1>2

\* A directory keeps its capacity, and its entries but for one that is stored.
EntriesSame(l, w, l2, d) ==
    /\ CapacityIn(l2, d) = CapacityIn(l, d) /\ Slots(l2, d) = Slots(l, d)
    /\ \A s : ~(w.op = "entry" /\ w.dir = d /\ w.slot = s) =>
         EntriesIn(l2, d, s) = EntriesIn(l, d, s) /\ EntryIn(l2, d, s) = EntryIn(l, d, s)

LEMMA EntriesKept ==
    ASSUME NEW l, NEW w, NEW l2, Grows_(l, w, l2), NEW d \in 1..Len(l)
    PROVE  EntriesSame(l, w, l2, d)
  <1>0. Added(l, w, l2) /\ AddedOf(l, w, l2, "entry")
    BY StoreAdded, StoresAdded
  <1>1. l2[d] = l[d]
    BY <1>0 DEF Added
  <1>2. CapacityIn(l2, d) = CapacityIn(l, d) /\ Slots(l2, d) = Slots(l, d)
    BY <1>1 DEF CapacityIn, Slots
  <1>3. ASSUME NEW s, ~(w.op = "entry" /\ w.dir = d /\ w.slot = s)
        PROVE  EntriesIn(l2, d, s) = EntriesIn(l, d, s) /\ EntryIn(l2, d, s) = EntryIn(l, d, s)
    <2>0. \A k \in StoresIn(l, "entry") : l2[k] = l[k]
      BY <1>0 DEF AddedOf
    <2>1. CASE w.op # "entry"
      <3>1. StoresIn(l2, "entry") = StoresIn(l, "entry")
        BY <1>0, <2>1 DEF AddedOf
      <3>2. EntriesIn(l2, d, s) = EntriesIn(l, d, s)
        BY <2>0, <3>1 DEF EntriesIn
      <3> QED
        BY <1>1, <3>2 DEF EntryIn
    <2>2. CASE w.op = "entry" /\ ~(w.dir = d /\ w.slot = s)
      <3>1. StoresIn(l2, "entry") = StoresIn(l, "entry") \cup {Len(l) + 1}
        BY <1>0, <2>2 DEF AddedOf
      <3>2. l2[Len(l) + 1] = w
        BY <1>0 DEF Added
      <3>3. EntriesIn(l2, d, s) = EntriesIn(l, d, s)
        BY <2>0, <2>2, <3>1, <3>2 DEF EntriesIn
      <3> QED
        BY <1>1, <3>3 DEF EntryIn
    <2> QED
      BY <1>3, <2>1, <2>2
  <1> QED
    BY <1>2, <1>3 DEF EntriesSame

\* The constructions at an address are as before, with the new one if it is one.
MakesSame(l, w, l2, a) ==
    /\ MakesIn(l, a) \subseteq MakesIn(l2, a)
    /\ ~(w.op = "make" /\ w.addr = a) => MakesIn(l2, a) = MakesIn(l, a)
    /\ w.op = "make" /\ w.addr = a => MakesIn(l2, a) = MakesIn(l, a) \cup {Len(l) + 1}

LEMMA MakesKept ==
    ASSUME NEW l, NEW w, NEW l2, Grows_(l, w, l2), NEW a
    PROVE  MakesSame(l, w, l2, a)
  <1>0. Added(l, w, l2) /\ AddedOf(l, w, l2, "make")
    BY StoreAdded, StoresAdded
  <1>1. \A k \in StoresIn(l, "make") : l2[k] = l[k] /\ k \in StoresIn(l2, "make")
    BY <1>0 DEF AddedOf
  <1>2. l2[Len(l) + 1] = w
    BY <1>0 DEF Added
  <1>3. CASE w.op # "make"
    <2>1. StoresIn(l2, "make") = StoresIn(l, "make")
      BY <1>0, <1>3 DEF AddedOf
    <2>2. MakesIn(l2, a) = MakesIn(l, a)
      BY <1>1, <2>1 DEF MakesIn
    <2> QED
      BY <1>3, <2>2 DEF MakesSame
  <1>4. CASE w.op = "make"
    <2>1. StoresIn(l2, "make") = StoresIn(l, "make") \cup {Len(l) + 1}
      BY <1>0, <1>4 DEF AddedOf
    <2> QED
      BY <1>1, <1>2, <1>4, <2>1 DEF MakesIn, MakesSame
  <1> QED
    BY <1>3, <1>4

-----------------------------------------------------------------------------
(* What the log is like.                                                   *)

DirsOK(l) ==
    \A d \in StoresIn(l, "dir") :
        l[d].cap \in Nat \ {0} /\ DOMAIN l[d].blocks = 0..(l[d].cap - 1)

\* A later directory is longer, and has the blocks of an earlier one.
Chain(l) ==
    \A d, e \in StoresIn(l, "dir") : d <= e =>
        /\ CapacityIn(l, d) <= CapacityIn(l, e)
        /\ \A s \in Slots(l, d) : EntryIn(l, d, s) # 0 => EntryIn(l, e, s) = EntryIn(l, d, s)

\* A slot's block was allocated for that slot, and every block is in use.
EntriesOK(l) ==
    /\ \A d \in StoresIn(l, "dir") : \A s \in Slots(l, d) : EntryIn(l, d, s) # 0 =>
         EntryIn(l, d, s) \in StoresIn(l, "entry") /\ l[EntryIn(l, d, s)].slot = s
    /\ \A k \in StoresIn(l, "entry") :
         /\ l[k].dir \in StoresIn(l, "dir") /\ l[k].slot \in Slots(l, l[k].dir)
         /\ EntryIn(l, Top(l), l[k].slot) = k

MakesOK(l) ==
    \A k \in StoresIn(l, "make") : l[k].addr \in StoresIn(l, "entry") \X (0..(BlockSize - 1))

\* Element i, below the size that z stored, was made in the directory of then,
\* and not since.
Published(l, z, i) ==
    LET d == LatestIn(l, "dir", z) IN
        /\ d # 0 /\ BlockOf(i) \in Slots(l, d)
        /\ EntryIn(l, d, BlockOf(i)) \in 1..z
        /\ MakesIn(l, AddressIn(l, d, i)) # {}
        /\ \A m \in MakesIn(l, AddressIn(l, d, i)) : m < z

SizesOK(l) ==
    \A z \in StoresIn(l, "size") :
        /\ l[z].val \in 1..MaxSize
        /\ \A i \in 0..(l[z].val - 1) : Published(l, z, i)
        /\ \A y \in StoresIn(l, "size") : y <= z => l[y].val <= l[z].val

LogInv(l) ==
    /\ l \in Seq(Records) /\ Ordered(Len(l))
    /\ DirsOK(l) /\ Chain(l) /\ EntriesOK(l) /\ MakesOK(l) /\ SizesOK(l)

\* The directory in use is the last one, the size the last stored.
Facts(l) ==
    /\ Len(l) \in Nat /\ Top(l) \in {0} \cup StoresIn(l, "dir") /\ Top(l) \in 0..Len(l)
    /\ \A d \in StoresIn(l, "dir") :
         d \in 1..Len(l) /\ d <= Top(l) /\ Top(l) \in StoresIn(l, "dir")
    /\ SizeIn(l) \in 0..MaxSize
    /\ \A z \in StoresIn(l, "size") : z \in 1..Len(l) /\ l[z].val <= SizeIn(l)
    /\ SizeIn(l) # 0 => \E z \in StoresIn(l, "size") : l[z].val = SizeIn(l)
    /\ \A op : \A k \in StoresIn(l, op) : k \in 1..Len(l) /\ k \in Nat /\ k # 0

LEMMA LogFacts ==
    ASSUME NEW l, LogInv(l)
    PROVE  Facts(l)
  <1>0. l \in Seq(Records) /\ Ordered(Len(l)) /\ Len(l) \in Nat
    BY SMT DEF LogInv
  <1>1. \A op : \A k \in StoresIn(l, op) : k \in 1..Len(l) /\ k \in Nat /\ k <= Len(l) /\ k # 0 /\ k > 0
    <2> TAKE op
    <2> TAKE k \in StoresIn(l, op)
    <2>1. k \in 1..Len(l)
      BY DEF StoresIn
    <2> QED
      BY <1>0, <2>1, SMT
  <1>2. /\ Top(l) \in {0} \cup StoresIn(l, "dir") /\ Top(l) \in Nat /\ Top(l) <= Len(l)
        /\ \A d \in StoresIn(l, "dir") : d <= Top(l)
    BY <1>0, <1>1, LatestIs DEF Top
  <1>3. Top(l) \in 0..Len(l)
    BY <1>0, <1>2, SMT
  <1>4. \A d \in StoresIn(l, "dir") : Top(l) \in StoresIn(l, "dir")
    <2> TAKE d \in StoresIn(l, "dir")
    <2>1. d \in Nat /\ d > 0 /\ d <= Top(l)
      BY <1>1, <1>2
    <2>2. Top(l) # 0
      BY <2>1, SMT
    <2> QED
      BY <1>2, <2>2
  <1>5. PICK z \in {0} \cup StoresIn(l, "size") :
            /\ z = LatestIn(l, "size", Len(l)) /\ z \in Nat
            /\ \A y \in StoresIn(l, "size") : y <= z
    BY <1>0, <1>1, LatestIs
  <1>6. SizeIn(l) = ValueIn(l, z)
    BY <1>5 DEF SizeIn
  <1>7. CASE z = 0
    <2>1. \A y \in StoresIn(l, "size") : FALSE
      <3> TAKE y \in StoresIn(l, "size")
      <3>1. y \in Nat /\ y > 0 /\ y <= 0
        BY <1>1, <1>5, <1>7
      <3> QED
        BY <3>1, SMT
    <2>2. SizeIn(l) = 0
      BY <1>6, <1>7 DEF ValueIn
    <2>3. 0 \in 0..MaxSize
      BY BoundsAssumption, SMT
    <2> QED
      BY <1>0, <1>1, <1>2, <1>3, <1>4, <2>1, <2>2, <2>3 DEF Facts
  <1>8. CASE z # 0
    <2>1. SizeIn(l) = l[z].val /\ z \in StoresIn(l, "size")
      BY <1>5, <1>6, <1>8 DEF ValueIn
    <2>2. /\ l[z].val \in 1..MaxSize
          /\ \A y \in StoresIn(l, "size") : l[y].val <= l[z].val
      BY <1>5, <2>1 DEF LogInv, SizesOK
    <2>3. SizeIn(l) \in 0..MaxSize
      BY <2>1, <2>2, BoundsAssumption, SMT
    <2> QED
      BY <1>0, <1>1, <1>2, <1>3, <1>4, <2>1, <2>2, <2>3 DEF Facts
  <1> QED
    BY <1>7, <1>8

-----------------------------------------------------------------------------
(* Where the elements are.                                                 *)

\* Index j has a block; element j was made.
InBlock(l, j) == BlockOf(j) \in Slots(l, Top(l)) /\ EntryIn(l, Top(l), BlockOf(j)) # 0
Ready(l, j) == InBlock(l, j) /\ MakesIn(l, At_(l, j)) # {}

\* Block and offset make up the index.
LEMMA Position ==
    ASSUME NEW i \in Nat
    PROVE  /\ BlockOf(i) \in Nat /\ OffsetOf(i) \in 0..(BlockSize - 1)
           /\ i = BlockSize * BlockOf(i) + OffsetOf(i)
  <1>1. BlockSize \in Nat \ {0} /\ i \in Int
    BY BlockAssumption, SMT
  <1>2. PICK q \in Int, r \in 0..(BlockSize - 1) :
            q = i \div BlockSize /\ r = i % BlockSize /\ i = BlockSize * q + r
    BY <1>1, DivMod, SMT
  <1>3. PICK m \in Int : m = BlockSize * q /\ i = m + r
    BY <1>1, <1>2, SMT
  <1>4. q + 1 <= 0 => m <= 0 - BlockSize
    <2>1. q + 1 <= 0 => BlockSize * 0 >= BlockSize * q + BlockSize
      BY <1>1, MultipleStep, SMT
    <2>2. BlockSize * 0 = 0
      BY <1>1, SMT
    <2> QED
      BY <1>1, <1>3, <2>1, <2>2, SMT
  <1>5. q \in Nat
    BY <1>1, <1>3, <1>4, SMT
  <1> QED
    BY <1>2, <1>5 DEF BlockOf, OffsetOf

\* A directory has one entry store to a slot at most.
LEMMA OneEntry ==
    ASSUME NEW l, LogInv(l), NEW d, NEW s, NEW k \in EntriesIn(l, d, s)
    PROVE  EntriesIn(l, d, s) = {k} /\ EntryIn(l, d, s) = k
  <1>1. \A j \in EntriesIn(l, d, s) : j \in StoresIn(l, "entry") /\ EntryIn(l, Top(l), s) = j
    BY DEF LogInv, EntriesOK, EntriesIn
  <1>2. EntriesIn(l, d, s) = {k}
    BY <1>1
  <1>3. k \in Nat
    BY <1>1, LogFacts DEF Facts
  <1>4. Max({k}) = k
    <2>1. k >= k
      BY <1>3, SMT
    <2> QED
      BY <1>3, <2>1, MaxIs
  <1> QED
    BY <1>2, <1>4 DEF EntryIn

\* A later directory has the slots of an earlier one.
LEMMA SlotsGrow ==
    ASSUME NEW l, LogInv(l), NEW d \in StoresIn(l, "dir"), NEW e \in StoresIn(l, "dir"), d <= e
    PROVE  /\ Slots(l, d) \subseteq Slots(l, e)
           /\ CapacityIn(l, d) \in Nat /\ CapacityIn(l, e) \in Nat /\ CapacityIn(l, d) <= CapacityIn(l, e)
           /\ \A s \in Slots(l, d) : EntryIn(l, d, s) # 0 => EntryIn(l, e, s) = EntryIn(l, d, s)
  <1>1. \A c \in StoresIn(l, "dir") : CapacityIn(l, c) \in Nat
    BY LogFacts DEF Facts, LogInv, DirsOK, CapacityIn
  <1>2. CapacityIn(l, d) <= CapacityIn(l, e)
    BY DEF LogInv, Chain
  <1>3. Slots(l, d) \subseteq Slots(l, e)
    BY <1>1, <1>2, SMT DEF Slots
  <1> QED
    BY <1>1, <1>2, <1>3 DEF LogInv, Chain

\* Element i, below the size that z stored, as a directory d not older than z has it.
Found(l, z, i, d) ==
    /\ BlockOf(i) \in Slots(l, d) /\ EntryIn(l, d, BlockOf(i)) \in 1..z
    /\ AddressIn(l, d, i) = AddressIn(l, LatestIn(l, "dir", z), i)
    /\ \A k \in EntriesIn(l, d, BlockOf(i)) : k = EntryIn(l, d, BlockOf(i))
    /\ MakesIn(l, AddressIn(l, d, i)) # {}
    /\ \A m \in MakesIn(l, AddressIn(l, d, i)) : m < z

LEMMA PublishedFound ==
    ASSUME NEW l, LogInv(l), NEW z \in StoresIn(l, "size"), NEW i \in 0..(l[z].val - 1),
           NEW d \in StoresIn(l, "dir"), LatestIn(l, "dir", z) <= d
    PROVE  Found(l, z, i, d)
  <1> DEFINE c == LatestIn(l, "dir", z)
             b == BlockOf(i)
  <1>1. Published(l, z, i)
    BY DEF LogInv, SizesOK
  <1>2. c \in StoresIn(l, "dir")
    <2>1. l \in Seq(Records) /\ Ordered(Len(l)) /\ z \in Nat
      BY LogFacts DEF LogInv, Facts
    <2>2. c \in {0} \cup StoresIn(l, "dir")
      BY <2>1, LatestIs
    <2> QED
      BY <1>1, <2>2 DEF Published
  <1>3. b \in Slots(l, c) /\ EntryIn(l, c, b) \in 1..z
    BY <1>1 DEF Published
  <1>4. EntryIn(l, c, b) # 0
    <2>1. z \in Nat
      BY LogFacts DEF Facts
    <2> QED
      BY <1>3, <2>1, SMT
  <1>5. b \in Slots(l, d) /\ EntryIn(l, d, b) = EntryIn(l, c, b)
    BY <1>2, <1>3, <1>4, SlotsGrow
  <1>6. AddressIn(l, d, i) = AddressIn(l, c, i)
    BY <1>5 DEF AddressIn
  <1>7. \A k \in EntriesIn(l, d, b) : k = EntryIn(l, d, b)
    BY OneEntry
  <1> QED
    BY <1>1, <1>3, <1>5, <1>6, <1>7 DEF Found, Published

\* What is below the size is made.
LEMMA BelowSize ==
    ASSUME NEW l, LogInv(l), NEW j \in 0..(SizeIn(l) - 1)
    PROVE  Ready(l, j) /\ Top(l) \in StoresIn(l, "dir")
  <1>1. Facts(l)
    BY LogFacts
  <1>2. SizeIn(l) # 0
    BY <1>1, SMT DEF Facts
  <1>3. PICK z \in StoresIn(l, "size") : l[z].val = SizeIn(l)
    BY <1>1, <1>2 DEF Facts
  <1>4. Published(l, z, j)
    BY <1>3 DEF LogInv, SizesOK
  <1>5. /\ z \in Nat /\ z <= Len(l) /\ l \in Seq(Records) /\ Len(l) \in Nat
        /\ Top(l) \in Nat /\ LatestIn(l, "dir", z) \in {0} \cup StoresIn(l, "dir")
    <2>1. z \in 1..Len(l) /\ Len(l) \in Nat /\ Top(l) \in 0..Len(l)
          /\ l \in Seq(Records) /\ Ordered(Len(l))
      BY <1>1 DEF Facts, LogInv
    <2>2. z \in Nat /\ z <= Len(l) /\ Top(l) \in Nat
      BY <2>1, SMT
    <2> QED
      BY <2>1, <2>2, LatestIs
  <1>6. LatestIn(l, "dir", z) \in StoresIn(l, "dir")
    BY <1>4, <1>5 DEF Published
  <1>7. LatestIn(l, "dir", z) <= Top(l) /\ Top(l) \in StoresIn(l, "dir")
    BY <1>1, <1>6 DEF Facts
  <1>8. Found(l, z, j, Top(l))
    BY <1>3, <1>7, PublishedFound
  <1>9. EntryIn(l, Top(l), BlockOf(j)) # 0
    <2>1. EntryIn(l, Top(l), BlockOf(j)) \in 1..z
      BY <1>8 DEF Found
    <2> QED
      BY <1>5, <2>1, SMT
  <1> QED
    BY <1>7, <1>8, <1>9 DEF Found, Ready, InBlock, At_

\* A slot with an entry is one of a directory.
LEMMA TopIsDir ==
    ASSUME NEW l, LogInv(l), NEW s \in Slots(l, Top(l))
    PROVE  Top(l) \in StoresIn(l, "dir")
  <1>1. CASE Top(l) = 0
    <2>1. s \in 0..(0 - 1)
      BY <1>1 DEF Slots, CapacityIn
    <2> QED
      BY <2>1, SMT
  <1>2. CASE Top(l) # 0
    BY <1>2, LogFacts DEF Facts
  <1> QED
    BY <1>1, <1>2

\* Two elements have two addresses.
LEMMA AddressesDiffer ==
    ASSUME NEW l, LogInv(l), NEW i \in Nat, NEW j \in Nat, InBlock(l, i), InBlock(l, j),
           At_(l, i) = At_(l, j)
    PROVE  i = j
  <1>1. Top(l) \in StoresIn(l, "dir")
    BY TopIsDir DEF InBlock
  <1>2. \A k \in {i, j} : l[EntryIn(l, Top(l), BlockOf(k))].slot = BlockOf(k)
    BY <1>1 DEF InBlock, LogInv, EntriesOK
  <1>3. EntryIn(l, Top(l), BlockOf(i)) = EntryIn(l, Top(l), BlockOf(j)) /\ OffsetOf(i) = OffsetOf(j)
    BY DEF At_, AddressIn
  <1>4. BlockOf(i) = BlockOf(j)
    BY <1>2, <1>3
  <1>5. i = BlockSize * BlockOf(i) + OffsetOf(i) /\ j = BlockSize * BlockOf(j) + OffsetOf(j)
    BY Position
  <1> QED
    BY <1>3, <1>4, <1>5

-----------------------------------------------------------------------------
(* What one more store keeps.                                              *)

\* No directory loses a block.
EntriesStay(l, l2) ==
    \A d \in StoresIn(l, "dir") : \A s \in Slots(l, d) :
        EntryIn(l, d, s) # 0 => EntryIn(l2, d, s) = EntryIn(l, d, s)

\* Nothing is made over an element below the size.
NotOver(l, w) == w.op = "make" => \A j \in 0..(SizeIn(l) - 1) : w.addr # At_(l, j)

LEMMA PublishedKept ==
    ASSUME NEW l, NEW w, NEW l2, LogInv(l), Grows_(l, w, l2), EntriesStay(l, l2), NotOver(l, w),
           NEW z \in StoresIn(l, "size"), NEW i \in 0..(l[z].val - 1)
    PROVE  Published(l2, z, i)
  <1> DEFINE d == LatestIn(l, "dir", z)
             b == BlockOf(i)
  <1>0. Facts(l)
    BY LogFacts
  <1>1. Published(l, z, i)
    BY DEF LogInv, SizesOK
  <1>2. z \in Nat /\ z <= Len(l) /\ l \in Seq(Records) /\ Ordered(Len(l))
    <2>1. z \in 1..Len(l) /\ Len(l) \in Nat
      BY <1>0 DEF Facts
    <2> QED
      BY <2>1, SMT DEF LogInv
  <1>3. d \in {0} \cup StoresIn(l, "dir")
    BY <1>2, LatestIs
  <1>4. d \in StoresIn(l, "dir") /\ d # 0
    BY <1>1, <1>3 DEF Published
  <1>5. d \in 1..Len(l) /\ d <= Top(l) /\ Top(l) \in StoresIn(l, "dir")
    BY <1>0, <1>4 DEF Facts
  <1>6. LatestIn(l2, "dir", z) = d
    <2>1. LatestSame(l, w, l2, "dir", z)
      BY <1>2, LatestKept
    <2> QED
      BY <2>1 DEF LatestSame
  <1>7. EntriesSame(l, w, l2, d)
    BY <1>5, EntriesKept
  <1>8. b \in Slots(l, d) /\ EntryIn(l, d, b) \in 1..z /\ EntryIn(l, d, b) # 0
    <2>1. b \in Slots(l, d) /\ EntryIn(l, d, b) \in 1..z
      BY <1>1 DEF Published
    <2> QED
      BY <1>2, <2>1, SMT
  <1>9. EntryIn(l2, d, b) = EntryIn(l, d, b) /\ Slots(l2, d) = Slots(l, d)
    BY <1>4, <1>7, <1>8 DEF EntriesStay, EntriesSame
  <1>10. AddressIn(l2, d, i) = AddressIn(l, d, i)
    BY <1>9 DEF AddressIn
  <1>11. AddressIn(l, d, i) = At_(l, i)
    <2>1. Found(l, z, i, Top(l))
      BY <1>5, PublishedFound
    <2> QED
      BY <2>1 DEF Found, At_
  <1>12. i \in 0..(SizeIn(l) - 1)
    <2>1. l[z].val <= SizeIn(l) /\ SizeIn(l) \in 0..MaxSize
      BY <1>0 DEF Facts
    <2>2. l[z].val \in 1..MaxSize
      BY DEF LogInv, SizesOK
    <2> QED
      BY <2>1, <2>2, BoundsAssumption, SMT
  <1>13. ~(w.op = "make" /\ w.addr = AddressIn(l, d, i))
    BY <1>11, <1>12 DEF NotOver
  <1>14. MakesIn(l2, AddressIn(l, d, i)) = MakesIn(l, AddressIn(l, d, i))
    <2>1. MakesSame(l, w, l2, AddressIn(l, d, i))
      BY MakesKept
    <2> QED
      BY <1>13, <2>1 DEF MakesSame
  <1>15. MakesIn(l, AddressIn(l, d, i)) # {} /\ \A m \in MakesIn(l, AddressIn(l, d, i)) : m < z
    BY <1>1 DEF Published
  <1> QED
    BY <1>4, <1>6, <1>8, <1>9, <1>10, <1>14, <1>15 DEF Published

LEMMA SizesKept ==
    ASSUME NEW l, NEW w, NEW l2, LogInv(l), Grows_(l, w, l2), EntriesStay(l, l2), NotOver(l, w),
           w.op # "size"
    PROVE  SizesOK(l2) /\ SizeIn(l2) = SizeIn(l)
  <1>1. AddedOf(l, w, l2, "size")
    BY StoresAdded
  <1>2. StoresIn(l2, "size") = StoresIn(l, "size") /\ \A z \in StoresIn(l, "size") : l2[z] = l[z]
    BY <1>1 DEF AddedOf
  <1>3. \A z \in StoresIn(l, "size") : \A i \in 0..(l[z].val - 1) : Published(l2, z, i)
    BY PublishedKept
  <1>4. SizesOK(l2)
    <2> SUFFICES ASSUME NEW z \in StoresIn(l2, "size")
                 PROVE  /\ l2[z].val \in 1..MaxSize
                        /\ \A i \in 0..(l2[z].val - 1) : Published(l2, z, i)
                        /\ \A y \in StoresIn(l2, "size") : y <= z => l2[y].val <= l2[z].val
      BY DEF SizesOK
    <2>1. z \in StoresIn(l, "size") /\ l2[z] = l[z]
      BY <1>2
    <2>2. /\ l[z].val \in 1..MaxSize
          /\ \A y \in StoresIn(l, "size") : y <= z => l[y].val <= l[z].val
      BY <2>1 DEF LogInv, SizesOK
    <2> QED
      BY <1>2, <1>3, <2>1, <2>2
  <1>5. LatestIn(l2, "size", Len(l2)) = LatestIn(l, "size", Len(l))
    <2>1. LatestOf(l, w, l2, "size")
      BY LatestNew
    <2> QED
      BY <2>1 DEF LatestOf
  <1>6. LatestIn(l, "size", Len(l)) \in {0} \cup StoresIn(l, "size")
    BY LogFacts, LatestIs DEF Facts, LogInv
  <1> QED
    BY <1>2, <1>4, <1>5, <1>6 DEF SizeIn, ValueIn

\* The log l became l2.
Grown(l, l2) ==
    /\ Len(l) \in Nat /\ Len(l2) \in Nat /\ Len(l) <= Len(l2)
    /\ \A k \in 1..Len(l) : l2[k] = l[k]
    /\ \A op : StoresIn(l, op) \subseteq StoresIn(l2, op)
    /\ \A op : \A v \in Nat : v <= Len(l) => LatestIn(l2, op, v) = LatestIn(l, op, v)
    /\ Slots(l, Top(l)) \subseteq Slots(l2, Top(l2))
    /\ SizeIn(l) <= SizeIn(l2)
    /\ \A j : InBlock(l, j) => InBlock(l2, j) /\ At_(l2, j) = At_(l, j)
    /\ \A a : MakesIn(l, a) \subseteq MakesIn(l2, a)
    /\ \A j \in 0..(SizeIn(l) - 1) : MakesIn(l2, At_(l, j)) = MakesIn(l, At_(l, j))

LEMMA GrownIf ==
    ASSUME NEW l, NEW w, NEW l2, Grows_(l, w, l2), NotOver(l, w),
           Slots(l, Top(l)) \subseteq Slots(l2, Top(l2)), SizeIn(l) <= SizeIn(l2),
           \A s \in Slots(l, Top(l)) : EntryIn(l, Top(l), s) # 0 =>
               EntryIn(l2, Top(l2), s) = EntryIn(l, Top(l), s)
    PROVE  Grown(l, l2)
  <1>1. Added(l, w, l2) /\ \A op : AddedOf(l, w, l2, op)
    BY StoreAdded, StoresAdded
  <1>2. Len(l) \in Nat /\ Len(l2) \in Nat /\ Len(l2) = Len(l) + 1
    BY <1>1 DEF Added
  <1>3. Len(l) <= Len(l2)
    BY <1>2, SMT
  <1>4. /\ \A k \in 1..Len(l) : l2[k] = l[k]
        /\ \A op : StoresIn(l, op) \subseteq StoresIn(l2, op)
    BY <1>1 DEF Added, AddedOf
  <1>5. \A op : \A v \in Nat : v <= Len(l) => LatestIn(l2, op, v) = LatestIn(l, op, v)
    <2>1. \A op : \A v \in Nat : v <= Len(l) => LatestSame(l, w, l2, op, v)
      BY LatestKept
    <2> QED
      BY <2>1 DEF LatestSame
  <1>6. \A j : InBlock(l, j) => InBlock(l2, j) /\ At_(l2, j) = At_(l, j)
    <2> TAKE j
    <2> HAVE InBlock(l, j)
    <2>1. /\ BlockOf(j) \in Slots(l, Top(l)) /\ EntryIn(l, Top(l), BlockOf(j)) # 0
      BY DEF InBlock
    <2>2. EntryIn(l2, Top(l2), BlockOf(j)) = EntryIn(l, Top(l), BlockOf(j))
      BY <2>1
    <2> QED
      BY <2>1, <2>2 DEF InBlock, At_, AddressIn
  <1>7. \A a : MakesSame(l, w, l2, a)
    BY MakesKept
  <1>8. \A a : MakesIn(l, a) \subseteq MakesIn(l2, a)
    BY <1>7 DEF MakesSame
  <1>9. \A j \in 0..(SizeIn(l) - 1) : MakesIn(l2, At_(l, j)) = MakesIn(l, At_(l, j))
    BY <1>7 DEF MakesSame, NotOver
  <1> QED
    BY <1>2, <1>3, <1>4, <1>5, <1>6, <1>8, <1>9 DEF Grown

\* The entry stores, when the new store is not one.
LEMMA OtherStore ==
    ASSUME NEW l, NEW w, NEW l2, LogInv(l), Grows_(l, w, l2), w.op \notin {"dir", "entry"}
    PROVE  /\ Top(l2) = Top(l) /\ DirsOK(l2) /\ Chain(l2) /\ EntriesOK(l2) /\ EntriesStay(l, l2)
           /\ Slots(l2, Top(l2)) = Slots(l, Top(l))
           /\ \A s \in Slots(l, Top(l)) : EntryIn(l2, Top(l2), s) = EntryIn(l, Top(l), s)
  <1>0. Facts(l) /\ AddedOf(l, w, l2, "dir") /\ AddedOf(l, w, l2, "entry")
    BY LogFacts, StoresAdded
  <1>1. /\ StoresIn(l2, "dir") = StoresIn(l, "dir") /\ StoresIn(l2, "entry") = StoresIn(l, "entry")
        /\ \A d \in StoresIn(l, "dir") : l2[d] = l[d]
        /\ \A k \in StoresIn(l, "entry") : l2[k] = l[k]
    BY <1>0 DEF AddedOf
  <1>2. Top(l2) = Top(l)
    <2>1. LatestOf(l, w, l2, "dir")
      BY LatestNew
    <2> QED
      BY <2>1 DEF LatestOf, Top
  <1>3. \A d \in StoresIn(l, "dir") : EntriesSame(l, w, l2, d)
    BY <1>0, EntriesKept DEF Facts
  <1>4. \A d \in StoresIn(l, "dir") :
            /\ Slots(l2, d) = Slots(l, d) /\ CapacityIn(l2, d) = CapacityIn(l, d)
            /\ \A s : EntryIn(l2, d, s) = EntryIn(l, d, s)
    BY <1>3 DEF EntriesSame
  <1>5. DirsOK(l2)
    BY <1>1 DEF LogInv, DirsOK
  <1>6. Chain(l2)
    <2> SUFFICES ASSUME NEW d \in StoresIn(l2, "dir"), NEW e \in StoresIn(l2, "dir"), d <= e
                 PROVE  /\ CapacityIn(l2, d) <= CapacityIn(l2, e)
                        /\ \A s \in Slots(l2, d) : EntryIn(l2, d, s) # 0 =>
                             EntryIn(l2, e, s) = EntryIn(l2, d, s)
      BY DEF Chain
    <2>1. d \in StoresIn(l, "dir") /\ e \in StoresIn(l, "dir")
      BY <1>1
    <2>2. /\ CapacityIn(l, d) <= CapacityIn(l, e)
          /\ \A s \in Slots(l, d) : EntryIn(l, d, s) # 0 => EntryIn(l, e, s) = EntryIn(l, d, s)
      BY <2>1 DEF LogInv, Chain
    <2> QED
      BY <1>4, <2>1, <2>2
  <1>7. EntriesOK(l2)
    <2>1. ASSUME NEW d \in StoresIn(l2, "dir"), NEW s \in Slots(l2, d), EntryIn(l2, d, s) # 0
          PROVE  EntryIn(l2, d, s) \in StoresIn(l2, "entry") /\ l2[EntryIn(l2, d, s)].slot = s
      <3>1. d \in StoresIn(l, "dir") /\ s \in Slots(l, d) /\ EntryIn(l2, d, s) = EntryIn(l, d, s)
        BY <1>1, <1>4, <2>1
      <3>2. EntryIn(l, d, s) \in StoresIn(l, "entry") /\ l[EntryIn(l, d, s)].slot = s
        BY <2>1, <3>1 DEF LogInv, EntriesOK
      <3> QED
        BY <1>1, <3>1, <3>2
    <2>2. ASSUME NEW k \in StoresIn(l2, "entry")
          PROVE  /\ l2[k].dir \in StoresIn(l2, "dir") /\ l2[k].slot \in Slots(l2, l2[k].dir)
                 /\ EntryIn(l2, Top(l2), l2[k].slot) = k
      <3>1. k \in StoresIn(l, "entry") /\ l2[k] = l[k]
        BY <1>1, <2>2
      <3>2. /\ l[k].dir \in StoresIn(l, "dir") /\ l[k].slot \in Slots(l, l[k].dir)
            /\ EntryIn(l, Top(l), l[k].slot) = k
        BY <3>1 DEF LogInv, EntriesOK
      <3>3. Top(l) \in StoresIn(l, "dir")
        BY <1>0, <3>2 DEF Facts
      <3> QED
        BY <1>1, <1>2, <1>4, <3>1, <3>2, <3>3
    <2> QED
      BY <2>1, <2>2 DEF EntriesOK
  <1>8. EntriesStay(l, l2)
    BY <1>4 DEF EntriesStay
  <1>9. ASSUME NEW s \in Slots(l, Top(l)) PROVE EntryIn(l2, Top(l2), s) = EntryIn(l, Top(l), s)
    BY <1>2, <1>4, <1>9, TopIsDir
  <1>10. Slots(l2, Top(l2)) = Slots(l, Top(l))
    <2>1. CASE Top(l) = 0
      BY <1>2, <2>1 DEF Slots, CapacityIn
    <2>2. CASE Top(l) \in StoresIn(l, "dir")
      BY <1>2, <1>4, <2>2
    <2> QED
      BY <1>0, <2>1, <2>2 DEF Facts
  <1> QED
    BY <1>2, <1>5, <1>6, <1>7, <1>8, <1>9, <1>10

-----------------------------------------------------------------------------
(* The four kinds of store.                                                *)

\* The log, with the directory, the capacity and the size it had.
SameTop(l, l2) ==
    Top(l2) = Top(l) /\ CapacityIn(l2, Top(l2)) = CapacityIn(l, Top(l))
    /\ Slots(l2, Top(l2)) = Slots(l, Top(l))

LEMMA TopKept ==
    ASSUME NEW l, NEW w, NEW l2, LogInv(l), Grows_(l, w, l2), w.op # "dir"
    PROVE  SameTop(l, l2)
  <1>1. Top(l2) = Top(l)
    <2>1. LatestOf(l, w, l2, "dir")
      BY LatestNew
    <2> QED
      BY <2>1 DEF LatestOf, Top
  <1>2. CapacityIn(l2, Top(l)) = CapacityIn(l, Top(l))
    <2>1. CASE Top(l) = 0
      BY <2>1 DEF CapacityIn
    <2>2. CASE Top(l) # 0
      <3>1. Top(l) \in 1..Len(l)
        BY <2>2, LogFacts DEF Facts
      <3>2. EntriesSame(l, w, l2, Top(l))
        BY <3>1, EntriesKept
      <3> QED
        BY <3>2 DEF EntriesSame
    <2> QED
      BY <2>1, <2>2
  <1> QED
    BY <1>1, <1>2 DEF SameTop, Slots

\* An element is made, above the size and in a block.
MadeAt(l, w, l2, j) ==
    /\ LogInv(l2) /\ Grown(l, l2) /\ SameTop(l, l2) /\ SizeIn(l2) = SizeIn(l)
    /\ Ready(l2, j) /\ l2[Max(MakesIn(l2, At_(l2, j)))] = w

LEMMA StoreMake ==
    ASSUME NEW l, NEW w, NEW l2, LogInv(l), Grows_(l, w, l2), w.op = "make",
           NEW j \in Nat, InBlock(l, j), w.addr = At_(l, j), j >= SizeIn(l)
    PROVE  MadeAt(l, w, l2, j)
  <1> DEFINE n == Len(l) + 1
  <1>0. Facts(l) /\ Added(l, w, l2)
    BY LogFacts, StoreAdded
  <1>1. NotOver(l, w)
    <2> SUFFICES ASSUME NEW i \in 0..(SizeIn(l) - 1), At_(l, j) = At_(l, i)
                 PROVE  FALSE
      BY DEF NotOver
    <2>1. i \in Nat /\ i # j
      BY <1>0, SMT DEF Facts
    <2>2. InBlock(l, i)
      BY BelowSize DEF Ready
    <2> QED
      BY <2>1, <2>2, AddressesDiffer
  <1>2. w.op \notin {"dir", "entry"}
    OBVIOUS
  <1>3. /\ Top(l2) = Top(l) /\ DirsOK(l2) /\ Chain(l2) /\ EntriesOK(l2) /\ EntriesStay(l, l2)
        /\ Slots(l2, Top(l2)) = Slots(l, Top(l))
        /\ \A s \in Slots(l, Top(l)) : EntryIn(l2, Top(l2), s) = EntryIn(l, Top(l), s)
    BY <1>2, OtherStore
  <1>4. SizesOK(l2) /\ SizeIn(l2) = SizeIn(l)
    BY <1>1, <1>3, SizesKept
  <1>5. MakesOK(l2)
    <2>1. AddedOf(l, w, l2, "make") /\ AddedOf(l, w, l2, "entry")
      BY StoresAdded
    <2>2. StoresIn(l2, "make") = StoresIn(l, "make") \cup {n} /\ l2[n] = w
      BY <1>0, <2>1 DEF AddedOf, Added
    <2>3. StoresIn(l2, "entry") = StoresIn(l, "entry")
      BY <2>1 DEF AddedOf
    <2>4. w.addr \in StoresIn(l, "entry") \X (0..(BlockSize - 1))
      <3>1. BlockOf(j) \in Slots(l, Top(l)) /\ EntryIn(l, Top(l), BlockOf(j)) # 0
        BY DEF InBlock
      <3>2. Top(l) \in StoresIn(l, "dir")
        BY <3>1, TopIsDir
      <3>3. EntryIn(l, Top(l), BlockOf(j)) \in StoresIn(l, "entry")
        BY <3>1, <3>2 DEF LogInv, EntriesOK
      <3>4. OffsetOf(j) \in 0..(BlockSize - 1)
        BY Position
      <3>5. w.addr = <<EntryIn(l, Top(l), BlockOf(j)), OffsetOf(j)>>
        BY DEF At_, AddressIn
      <3> QED
        BY <3>3, <3>4, <3>5, SMT
    <2>5. ASSUME NEW k \in StoresIn(l, "make")
          PROVE  l2[k].addr \in StoresIn(l, "entry") \X (0..(BlockSize - 1))
      <3>1. l2[k] = l[k]
        BY <2>1 DEF AddedOf
      <3>2. l[k].addr \in StoresIn(l, "entry") \X (0..(BlockSize - 1))
        BY DEF LogInv, MakesOK
      <3> QED
        BY <3>1, <3>2
    <2> QED
      BY <2>2, <2>3, <2>4, <2>5 DEF MakesOK
  <1>6. l2 \in Seq(Records) /\ Ordered(Len(l2))
    BY <1>0 DEF Added, LogInv
  <1>7. LogInv(l2)
    BY <1>3, <1>4, <1>5, <1>6 DEF LogInv
  <1>8. SizeIn(l) <= SizeIn(l2)
    <2>1. SizeIn(l) \in Int
      BY <1>0, SMT DEF Facts
    <2> QED
      BY <1>4, <2>1, SMT
  <1>9. Grown(l, l2)
    <2>1. \A s \in Slots(l, Top(l)) : EntryIn(l, Top(l), s) # 0 =>
             EntryIn(l2, Top(l2), s) = EntryIn(l, Top(l), s)
      BY <1>3
    <2>2. Slots(l, Top(l)) \subseteq Slots(l2, Top(l2))
      BY <1>3
    <2> QED
      BY <1>1, <1>8, <2>1, <2>2, GrownIf
  <1>10. SameTop(l, l2)
    <2>1. w.op # "dir"
      OBVIOUS
    <2> QED
      BY <2>1, TopKept
  <1>11. InBlock(l2, j) /\ At_(l2, j) = At_(l, j)
    BY <1>9 DEF Grown
  <1>12. MakesIn(l2, At_(l2, j)) = MakesIn(l, At_(l, j)) \cup {n}
    <2>1. MakesSame(l, w, l2, At_(l, j))
      BY MakesKept
    <2> QED
      BY <1>11, <2>1 DEF MakesSame
  <1>13. Max(MakesIn(l2, At_(l2, j))) = n
    <2>1. n \in Nat /\ n >= n
      BY <1>0, SMT DEF Facts
    <2>2. \A k \in MakesIn(l, At_(l, j)) : k \in Nat /\ n >= k
      <3> TAKE k \in MakesIn(l, At_(l, j))
      <3>1. k \in 1..Len(l) /\ Len(l) \in Nat
        BY <1>0 DEF Facts, MakesIn
      <3> QED
        BY <3>1, SMT
    <2> DEFINE S == MakesIn(l2, At_(l2, j))
    <2> HIDE DEF n
    <2>3. S \in SUBSET Nat /\ n \in S /\ \A y \in S : n >= y
      BY <1>12, <2>1, <2>2
    <2> HIDE DEF S
    <2>4. Max(S) = n
      BY <2>3, MaxIs
    <2> QED
      BY <2>4 DEF S
  <1>14. Ready(l2, j)
    BY <1>11, <1>12 DEF Ready
  <1>15. l2[n] = w
    BY <1>0 DEF Added
  <1> QED
    BY <1>4, <1>7, <1>9, <1>10, <1>13, <1>14, <1>15 DEF MadeAt

\* The size is stored, once what is below it is made.
SizedAt(l, w, l2) == LogInv(l2) /\ Grown(l, l2) /\ SameTop(l, l2) /\ SizeIn(l2) = w.val

LEMMA StoreSize ==
    ASSUME NEW l, NEW w, NEW l2, LogInv(l), Grows_(l, w, l2), w.op = "size",
           w.val \in 1..MaxSize, SizeIn(l) <= w.val,
           \A j \in SizeIn(l)..(w.val - 1) : Ready(l, j)
    PROVE  SizedAt(l, w, l2)
  <1> DEFINE n == Len(l) + 1
  <1>0. Facts(l) /\ Added(l, w, l2)
    BY LogFacts, StoreAdded
  <1>1. NotOver(l, w) /\ w.op \notin {"dir", "entry"}
    BY DEF NotOver
  <1>2. /\ Top(l2) = Top(l) /\ DirsOK(l2) /\ Chain(l2) /\ EntriesOK(l2) /\ EntriesStay(l, l2)
        /\ Slots(l2, Top(l2)) = Slots(l, Top(l))
        /\ \A s \in Slots(l, Top(l)) : EntryIn(l2, Top(l2), s) = EntryIn(l, Top(l), s)
    BY <1>1, OtherStore
  <1>3. MakesOK(l2)
    <2>1. AddedOf(l, w, l2, "make") /\ AddedOf(l, w, l2, "entry")
      BY StoresAdded
    <2> SUFFICES ASSUME NEW k \in StoresIn(l2, "make")
                 PROVE  l2[k].addr \in StoresIn(l2, "entry") \X (0..(BlockSize - 1))
      BY DEF MakesOK
    <2>2. k \in StoresIn(l, "make") /\ l2[k] = l[k] /\ StoresIn(l2, "entry") = StoresIn(l, "entry")
      BY <2>1 DEF AddedOf
    <2>3. l[k].addr \in StoresIn(l, "entry") \X (0..(BlockSize - 1))
      BY <2>2 DEF LogInv, MakesOK
    <2> QED
      BY <2>2, <2>3
  <1>4. /\ StoresIn(l2, "size") = StoresIn(l, "size") \cup {n} /\ l2[n] = w
        /\ \A z \in StoresIn(l, "size") : l2[z] = l[z] /\ z \in Nat /\ z <= Len(l)
    <2>1. AddedOf(l, w, l2, "size")
      BY StoresAdded
    <2> QED
      BY <1>0, <2>1 DEF AddedOf, Added
  <1>5. LatestIn(l2, "size", Len(l2)) = n
    <2>1. LatestOf(l, w, l2, "size")
      BY LatestNew
    <2> QED
      BY <2>1 DEF LatestOf
  <1>6. Len(l) \in Nat /\ n \in Nat /\ n # 0 /\ Len(l2) = n
    BY <1>0, SMT DEF Facts, Added
  <1>7. SizeIn(l2) = w.val
    BY <1>4, <1>5, <1>6 DEF SizeIn, ValueIn
  <1>8. \A j \in 0..(w.val - 1) : Ready(l, j)
    <2> TAKE j \in 0..(w.val - 1)
    <2>1. j \in 0..(SizeIn(l) - 1) \/ j \in SizeIn(l)..(w.val - 1)
      BY <1>0, SMT DEF Facts
    <2> QED
      BY <2>1, BelowSize
  <1>9. ASSUME NEW i \in 0..(w.val - 1) PROVE Published(l2, n, i)
    <2>1. Ready(l, i)
      BY <1>8
    <2>2. BlockOf(i) \in Slots(l, Top(l)) /\ EntryIn(l, Top(l), BlockOf(i)) # 0
      BY <2>1 DEF Ready, InBlock
    <2>3. Top(l) \in StoresIn(l, "dir")
      BY <2>2, TopIsDir
    <2>4. EntryIn(l, Top(l), BlockOf(i)) \in 1..Len(l) /\ Top(l) # 0
      <3>1. EntryIn(l, Top(l), BlockOf(i)) \in StoresIn(l, "entry")
        BY <2>2, <2>3 DEF LogInv, EntriesOK
      <3> QED
        BY <1>0, <2>3, <3>1 DEF Facts
    <2>5. EntryIn(l, Top(l), BlockOf(i)) \in 1..n
      BY <1>6, <2>4, SMT
    <2>6. LatestIn(l2, "dir", n) = Top(l)
      BY <1>2, <1>6 DEF Top
    <2>7. /\ BlockOf(i) \in Slots(l2, Top(l))
          /\ EntryIn(l2, Top(l), BlockOf(i)) = EntryIn(l, Top(l), BlockOf(i))
      BY <1>2, <2>2
    <2>8. AddressIn(l2, Top(l), i) = At_(l, i)
      BY <2>7 DEF AddressIn, At_
    <2>9. MakesIn(l2, At_(l, i)) = MakesIn(l, At_(l, i))
      <3>1. MakesSame(l, w, l2, At_(l, i))
        BY MakesKept
      <3>2. w.op # "make"
        OBVIOUS
      <3> QED
        BY <3>1, <3>2 DEF MakesSame
    <2>10. \A m \in MakesIn(l, At_(l, i)) : m < n
      <3> TAKE m \in MakesIn(l, At_(l, i))
      <3>1. m \in 1..Len(l)
        BY <1>0 DEF Facts, MakesIn
      <3> QED
        BY <1>6, <3>1, SMT
    <2>11. MakesIn(l, At_(l, i)) # {}
      BY <2>1 DEF Ready
    <2> QED
      BY <2>4, <2>5, <2>6, <2>7, <2>8, <2>9, <2>10, <2>11 DEF Published
  <1>10. \A y \in StoresIn(l, "size") : l[y].val <= w.val
    <2> TAKE y \in StoresIn(l, "size")
    <2>1. l[y].val <= SizeIn(l) /\ SizeIn(l) \in 0..MaxSize
      BY <1>0 DEF Facts
    <2>2. l[y].val \in 1..MaxSize
      BY DEF LogInv, SizesOK
    <2> QED
      BY <2>1, <2>2, BoundsAssumption, SMT
  <1>11. SizesOK(l2)
    <2> SUFFICES ASSUME NEW z \in StoresIn(l2, "size")
                 PROVE  /\ l2[z].val \in 1..MaxSize
                        /\ \A i \in 0..(l2[z].val - 1) : Published(l2, z, i)
                        /\ \A y \in StoresIn(l2, "size") : y <= z => l2[y].val <= l2[z].val
      BY DEF SizesOK
    <2>1. CASE z = n
      <3>1. l2[z] = w
        BY <1>4, <2>1
      <3>2. \A y \in StoresIn(l, "size") : l2[y].val <= w.val
        BY <1>4, <1>10
      <3>3. w.val <= w.val
        BY BoundsAssumption, SMT
      <3> QED
        BY <1>4, <1>9, <2>1, <3>1, <3>2, <3>3
    <2>2. CASE z \in StoresIn(l, "size")
      <3>1. l2[z] = l[z] /\ z \in Nat /\ z <= Len(l)
        BY <1>4, <2>2
      <3>2. ~(n <= z)
        BY <1>6, <3>1, SMT
      <3>3. /\ l[z].val \in 1..MaxSize
            /\ \A y \in StoresIn(l, "size") : y <= z => l[y].val <= l[z].val
        BY <2>2 DEF LogInv, SizesOK
      <3>4. \A i \in 0..(l[z].val - 1) : Published(l2, z, i)
        BY <1>1, <1>2, <2>2, PublishedKept
      <3>5. \A y \in StoresIn(l2, "size") : y <= z => l2[y].val <= l[z].val
        <4> TAKE y \in StoresIn(l2, "size")
        <4> HAVE y <= z
        <4>1. y \in StoresIn(l, "size")
          BY <1>4, <3>2
        <4> QED
          BY <1>4, <3>3, <4>1
      <3> QED
        BY <3>1, <3>3, <3>4, <3>5
    <2> QED
      BY <1>4, <2>1, <2>2
  <1>12. LogInv(l2)
    BY <1>0, <1>2, <1>3, <1>11 DEF LogInv, Added
  <1>13. Grown(l, l2)
    <2>1. \A s \in Slots(l, Top(l)) : EntryIn(l, Top(l), s) # 0 =>
             EntryIn(l2, Top(l2), s) = EntryIn(l, Top(l), s)
      BY <1>2
    <2>2. Slots(l, Top(l)) \subseteq Slots(l2, Top(l2)) /\ SizeIn(l) <= SizeIn(l2)
      BY <1>2, <1>7
    <2> QED
      BY <1>1, <2>1, <2>2, GrownIf
  <1>14. SameTop(l, l2)
    <2>1. w.op # "dir"
      OBVIOUS
    <2> QED
      BY <2>1, TopKept
  <1> QED
    BY <1>7, <1>12, <1>13, <1>14 DEF SizedAt

\* A block is entered, in an empty slot of the directory in use.
EnteredAt(l, w, l2) ==
    /\ LogInv(l2) /\ Grown(l, l2) /\ SameTop(l, l2) /\ SizeIn(l2) = SizeIn(l)
    /\ EntryIn(l2, Top(l2), w.slot) # 0

LEMMA StoreEntry ==
    ASSUME NEW l, NEW w, NEW l2, LogInv(l), Grows_(l, w, l2), w.op = "entry",
           w.dir = Top(l), w.slot \in Slots(l, Top(l)), EntryIn(l, Top(l), w.slot) = 0
    PROVE  EnteredAt(l, w, l2)
  <1> DEFINE n == Len(l) + 1
             D == Top(l)
             s == w.slot
  <1>0. Facts(l) /\ Added(l, w, l2)
    BY LogFacts, StoreAdded
  <1>1. NotOver(l, w) /\ w.op # "dir" /\ w.op # "size" /\ w.op # "make"
    BY DEF NotOver
  <1>2. /\ AddedOf(l, w, l2, "dir") /\ AddedOf(l, w, l2, "entry") /\ AddedOf(l, w, l2, "make")
    BY StoresAdded
  <1>3. /\ StoresIn(l2, "dir") = StoresIn(l, "dir") /\ StoresIn(l2, "make") = StoresIn(l, "make")
        /\ StoresIn(l2, "entry") = StoresIn(l, "entry") \cup {n} /\ l2[n] = w
        /\ \A k \in StoresIn(l, "dir") : l2[k] = l[k]
        /\ \A k \in StoresIn(l, "make") : l2[k] = l[k]
        /\ \A k \in StoresIn(l, "entry") : l2[k] = l[k]
    BY <1>0, <1>1, <1>2 DEF AddedOf, Added
  <1>4. D \in StoresIn(l, "dir") /\ n \in Nat /\ n # 0
    <2>1. n \in Nat /\ n # 0
      BY <1>0, SMT DEF Facts
    <2> QED
      BY <2>1, TopIsDir
  <1>5. SameTop(l, l2)
    BY <1>1, TopKept
  <1>6. EntriesIn(l, D, s) = {}
    <2>1. ASSUME NEW k \in EntriesIn(l, D, s) PROVE FALSE
      <3>1. EntryIn(l, D, s) = k
        <4> HIDE DEF D, s
        <4>1. \A j \in EntriesIn(l, D, s) : j = EntryIn(l, D, s)
          BY OneEntry
        <4> QED
          BY <4>1
      <3>2. k # 0
        BY <1>0 DEF Facts, EntriesIn
      <3> QED
        BY <3>1, <3>2
    <2> QED
      BY <2>1
  <1>7. EntriesIn(l2, D, s) = {n}
    <2>1. \A k : k \in EntriesIn(l2, D, s) <=> k = n
      <3> TAKE k
      <3>1. k \in StoresIn(l, "entry") => ~(l2[k].dir = D /\ l2[k].slot = s)
        BY <1>3, <1>6 DEF EntriesIn
      <3> QED
        BY <1>3, <3>1 DEF EntriesIn
    <2> QED
      BY <2>1
  <1>8. EntryIn(l2, D, s) = n
    <2>1. n >= n
      BY <1>4, SMT
    <2> HIDE DEF n
    <2>2. Max({n}) = n
      BY <1>4, <2>1, MaxIs
    <2> QED
      BY <1>7, <2>2 DEF EntryIn
  <1>9. ASSUME NEW d \in StoresIn(l, "dir")
        PROVE  /\ Slots(l2, d) = Slots(l, d) /\ CapacityIn(l2, d) = CapacityIn(l, d)
               /\ \A r : ~(d = D /\ r = s) => EntryIn(l2, d, r) = EntryIn(l, d, r)
    <2>1. EntriesSame(l, w, l2, d)
      BY <1>0, EntriesKept DEF Facts
    <2> QED
      BY <2>1 DEF EntriesSame
  <1>10. EntriesStay(l, l2)
    <2> SUFFICES ASSUME NEW d \in StoresIn(l, "dir"), NEW r \in Slots(l, d), EntryIn(l, d, r) # 0
                 PROVE  EntryIn(l2, d, r) = EntryIn(l, d, r)
      BY DEF EntriesStay
    <2>1. ~(d = D /\ r = s)
      OBVIOUS
    <2> QED
      BY <1>9, <2>1
  <1>11. SizesOK(l2) /\ SizeIn(l2) = SizeIn(l)
    BY <1>1, <1>10, SizesKept
  <1>12. DirsOK(l2)
    BY <1>3 DEF LogInv, DirsOK
  <1>13. Chain(l2)
    <2> SUFFICES ASSUME NEW d \in StoresIn(l, "dir"), NEW e \in StoresIn(l, "dir"), d <= e
                 PROVE  /\ CapacityIn(l2, d) <= CapacityIn(l2, e)
                        /\ \A r \in Slots(l2, d) : EntryIn(l2, d, r) # 0 =>
                             EntryIn(l2, e, r) = EntryIn(l2, d, r)
      BY <1>3 DEF Chain
    <2>1. /\ CapacityIn(l, d) <= CapacityIn(l, e)
          /\ \A r \in Slots(l, d) : EntryIn(l, d, r) # 0 => EntryIn(l, e, r) = EntryIn(l, d, r)
      BY DEF LogInv, Chain
    <2>2. /\ Slots(l2, d) = Slots(l, d) /\ CapacityIn(l2, d) = CapacityIn(l, d)
          /\ CapacityIn(l2, e) = CapacityIn(l, e)
          /\ \A r : ~(d = D /\ r = s) => EntryIn(l2, d, r) = EntryIn(l, d, r)
          /\ \A r : ~(e = D /\ r = s) => EntryIn(l2, e, r) = EntryIn(l, e, r)
      BY <1>9
    <2>3. d = D => e = D
      <3>1. e <= D /\ d \in 1..Len(l) /\ e \in 1..Len(l) /\ Len(l) \in Nat
        BY <1>0 DEF Facts
      <3> HIDE DEF D
      <3> QED
        BY <3>1, SMT
    <2>4. ASSUME NEW r \in Slots(l2, d), EntryIn(l2, d, r) # 0
          PROVE  EntryIn(l2, e, r) = EntryIn(l2, d, r)
      <3>1. CASE d = D /\ r = s
        BY <2>3, <3>1
      <3>2. CASE ~(d = D /\ r = s)
        <4>1. EntryIn(l2, d, r) = EntryIn(l, d, r) /\ r \in Slots(l, d)
          BY <2>2, <3>2
        <4>2. EntryIn(l, e, r) = EntryIn(l, d, r) /\ EntryIn(l, e, r) # 0
          BY <2>1, <2>4, <4>1
        <4>3. ~(e = D /\ r = s)
          BY <4>2
        <4> QED
          BY <2>2, <4>1, <4>2, <4>3
      <3> QED
        BY <3>1, <3>2
    <2> QED
      BY <2>1, <2>2, <2>4
  <1>14. EntriesOK(l2)
    <2>1. ASSUME NEW d \in StoresIn(l2, "dir"), NEW r \in Slots(l2, d), EntryIn(l2, d, r) # 0
          PROVE  EntryIn(l2, d, r) \in StoresIn(l2, "entry") /\ l2[EntryIn(l2, d, r)].slot = r
      <3>0. d \in StoresIn(l, "dir")
        BY <1>3
      <3>1. CASE d = D /\ r = s
        BY <1>3, <1>8, <3>1
      <3>2. CASE ~(d = D /\ r = s)
        <4>1. EntryIn(l2, d, r) = EntryIn(l, d, r) /\ r \in Slots(l, d)
          BY <1>9, <3>0, <3>2
        <4>2. EntryIn(l, d, r) \in StoresIn(l, "entry") /\ l[EntryIn(l, d, r)].slot = r
          BY <2>1, <3>0, <4>1 DEF LogInv, EntriesOK
        <4> QED
          BY <1>3, <4>1, <4>2
      <3> QED
        BY <3>1, <3>2
    <2>2. ASSUME NEW k \in StoresIn(l2, "entry")
          PROVE  /\ l2[k].dir \in StoresIn(l2, "dir") /\ l2[k].slot \in Slots(l2, l2[k].dir)
                 /\ EntryIn(l2, Top(l2), l2[k].slot) = k
      <3>1. CASE k = n
        <4>1. l2[k] = w /\ w.dir = D /\ Slots(l2, D) = Slots(l, D) /\ Top(l2) = D
          BY <1>3, <1>4, <1>5, <1>9, <3>1 DEF SameTop
        <4> QED
          BY <1>3, <1>4, <1>8, <3>1, <4>1
      <3>2. CASE k \in StoresIn(l, "entry")
        <4>1. l2[k] = l[k] /\ k # 0
          BY <1>0, <1>3, <3>2 DEF Facts
        <4>2. /\ l[k].dir \in StoresIn(l, "dir") /\ l[k].slot \in Slots(l, l[k].dir)
              /\ EntryIn(l, Top(l), l[k].slot) = k
          BY <3>2 DEF LogInv, EntriesOK
        <4>3. l[k].slot # s
          BY <4>1, <4>2
        <4>4. EntryIn(l2, D, l[k].slot) = EntryIn(l, D, l[k].slot)
          BY <1>4, <1>9, <4>3
        <4>5. Slots(l2, l[k].dir) = Slots(l, l[k].dir) /\ Top(l2) = D
          BY <1>5, <1>9, <4>2 DEF SameTop
        <4> QED
          BY <1>3, <4>1, <4>2, <4>4, <4>5
      <3> QED
        BY <1>3, <3>1, <3>2
    <2> QED
      BY <2>1, <2>2 DEF EntriesOK
  <1>15. MakesOK(l2)
    <2> SUFFICES ASSUME NEW k \in StoresIn(l, "make")
                 PROVE  l2[k].addr \in StoresIn(l2, "entry") \X (0..(BlockSize - 1))
      BY <1>3 DEF MakesOK
    <2>1. l2[k] = l[k] /\ l[k].addr \in StoresIn(l, "entry") \X (0..(BlockSize - 1))
      BY <1>3 DEF LogInv, MakesOK
    <2>2. StoresIn(l, "entry") \subseteq StoresIn(l2, "entry")
      BY <1>3
    <2> QED
      BY <2>1, <2>2, SMT
  <1>16. LogInv(l2)
    BY <1>0, <1>11, <1>12, <1>13, <1>14, <1>15 DEF LogInv, Added
  <1>17. Grown(l, l2)
    <2>1. \A r \in Slots(l, Top(l)) : EntryIn(l, Top(l), r) # 0 =>
             EntryIn(l2, Top(l2), r) = EntryIn(l, Top(l), r)
      BY <1>4, <1>5, <1>10 DEF SameTop, EntriesStay
    <2>2. Slots(l, Top(l)) \subseteq Slots(l2, Top(l2))
      BY <1>5 DEF SameTop
    <2>3. SizeIn(l) <= SizeIn(l2)
      <3>1. SizeIn(l) \in Int
        BY <1>0, SMT DEF Facts
      <3> QED
        BY <1>11, <3>1, SMT
    <2> QED
      BY <1>1, <2>1, <2>2, <2>3, GrownIf
  <1>18. EntryIn(l2, Top(l2), w.slot) # 0
    BY <1>4, <1>5, <1>8 DEF SameTop
  <1> QED
    BY <1>5, <1>11, <1>16, <1>17, <1>18 DEF EnteredAt

\* A longer directory is published, with the blocks of the one in use.
MovedTo(l, w, l2) ==
    /\ LogInv(l2) /\ Grown(l, l2) /\ SizeIn(l2) = SizeIn(l)
    /\ Slots(l2, Top(l2)) = 0..(w.cap - 1)
    /\ StoresIn(l2, "dir") = StoresIn(l, "dir") \cup {Top(l2)} /\ Top(l2) # 0

Copied(l, c) ==
    [s \in 0..(c - 1) |-> IF s < CapacityIn(l, Top(l)) THEN EntryIn(l, Top(l), s) ELSE 0]

LEMMA StoreDir ==
    ASSUME NEW l, NEW w, NEW l2, LogInv(l), Grows_(l, w, l2), w.op = "dir",
           w.cap \in Nat, w.cap > CapacityIn(l, Top(l)), w.blocks = Copied(l, w.cap)
    PROVE  MovedTo(l, w, l2)
  <1> DEFINE n == Len(l) + 1
             D == Top(l)
             c == CapacityIn(l, D)
  <1>0. Facts(l) /\ Added(l, w, l2)
    BY LogFacts, StoreAdded
  <1>1. NotOver(l, w) /\ w.op # "entry" /\ w.op # "size" /\ w.op # "make"
    BY DEF NotOver
  <1>2. /\ AddedOf(l, w, l2, "dir") /\ AddedOf(l, w, l2, "entry") /\ AddedOf(l, w, l2, "make")
    BY StoresAdded
  <1>3. /\ StoresIn(l2, "dir") = StoresIn(l, "dir") \cup {n} /\ StoresIn(l2, "make") = StoresIn(l, "make")
        /\ StoresIn(l2, "entry") = StoresIn(l, "entry") /\ l2[n] = w
        /\ \A k \in StoresIn(l, "dir") : l2[k] = l[k]
        /\ \A k \in StoresIn(l, "make") : l2[k] = l[k]
        /\ \A k \in StoresIn(l, "entry") : l2[k] = l[k]
    BY <1>0, <1>1, <1>2 DEF AddedOf, Added
  <1>4. n \in Nat /\ n # 0 /\ n \notin 1..Len(l)
    BY <1>0, SMT DEF Facts, Added
  <1>5. Top(l2) = n
    <2>1. LatestOf(l, w, l2, "dir")
      BY LatestNew
    <2> QED
      BY <2>1 DEF LatestOf, Top
  <1>6. c \in Nat /\ (c # 0 => D \in StoresIn(l, "dir"))
    <2>1. CASE D = 0
      BY <2>1, SMT DEF CapacityIn
    <2>2. CASE D # 0
      <3>1. D \in StoresIn(l, "dir")
        BY <1>0, <2>2 DEF Facts
      <3>2. l[D].cap \in Nat
        BY <3>1 DEF LogInv, DirsOK
      <3> QED
        BY <2>2, <3>1, <3>2 DEF CapacityIn
    <2> QED
      BY <2>1, <2>2
  <1>7. CapacityIn(l2, n) = w.cap /\ Slots(l2, n) = 0..(w.cap - 1)
    BY <1>3, <1>4 DEF CapacityIn, Slots
  <1>8. \A s \in Slots(l, D) : s \in 0..(w.cap - 1) /\ s < c /\ c # 0
    <2> HIDE DEF c
    <2> QED
      BY <1>6, SMT DEF Slots, c
  <1>9. \A s : EntriesIn(l2, n, s) = {}
    <2>1. ASSUME NEW k \in StoresIn(l, "entry") PROVE l2[k].dir # n
      <3>1. l[k].dir \in StoresIn(l, "dir")
        BY DEF LogInv, EntriesOK
      <3>2. l[k].dir \in 1..Len(l)
        BY <1>0, <3>1 DEF Facts
      <3> QED
        BY <1>3, <1>4, <3>2
    <2> QED
      BY <1>3, <2>1 DEF EntriesIn
  <1>10. \A s \in 0..(w.cap - 1) :
            EntryIn(l2, n, s) = IF s < c THEN EntryIn(l, D, s) ELSE 0
    BY <1>3, <1>9 DEF EntryIn, Copied
  <1>11. \A s \in Slots(l, D) : EntryIn(l2, n, s) = EntryIn(l, D, s) /\ D \in StoresIn(l, "dir")
    BY <1>6, <1>8, <1>10
  <1>12. ASSUME NEW d \in StoresIn(l, "dir")
         PROVE  /\ Slots(l2, d) = Slots(l, d) /\ CapacityIn(l2, d) = CapacityIn(l, d)
                /\ \A r : EntryIn(l2, d, r) = EntryIn(l, d, r)
    <2>1. EntriesSame(l, w, l2, d)
      BY <1>0, EntriesKept DEF Facts
    <2> QED
      BY <1>1, <2>1 DEF EntriesSame
  <1>13. EntriesStay(l, l2)
    BY <1>12 DEF EntriesStay
  <1>14. SizesOK(l2) /\ SizeIn(l2) = SizeIn(l)
    BY <1>1, <1>13, SizesKept
  <1>15. DirsOK(l2)
    <2>1. w.cap \in Nat \ {0} /\ DOMAIN w.blocks = 0..(w.cap - 1)
      <3>1. DOMAIN w.blocks = 0..(w.cap - 1)
        BY DEF Copied
      <3>2. w.cap \in Nat \ {0}
        <4> HIDE DEF c
        <4>1. w.cap > c
          BY DEF c
        <4> QED
          BY <1>6, <4>1, SMT
      <3> QED
        BY <3>1, <3>2
    <2> QED
      BY <1>3, <2>1 DEF LogInv, DirsOK
  <1>16. Chain(l2)
    <2> SUFFICES ASSUME NEW d \in StoresIn(l2, "dir"), NEW e \in StoresIn(l2, "dir"), d <= e
                 PROVE  /\ CapacityIn(l2, d) <= CapacityIn(l2, e)
                        /\ \A r \in Slots(l2, d) : EntryIn(l2, d, r) # 0 =>
                             EntryIn(l2, e, r) = EntryIn(l2, d, r)
      BY DEF Chain
    <2>1. CASE d \in StoresIn(l, "dir") /\ e \in StoresIn(l, "dir")
      <3>1. /\ CapacityIn(l, d) <= CapacityIn(l, e)
            /\ \A r \in Slots(l, d) : EntryIn(l, d, r) # 0 => EntryIn(l, e, r) = EntryIn(l, d, r)
        BY <2>1 DEF LogInv, Chain
      <3> QED
        BY <1>12, <2>1, <3>1
    <2>2. CASE d \in StoresIn(l, "dir") /\ e = n
      <3>1. D \in StoresIn(l, "dir") /\ d <= D
        BY <1>0, <2>2 DEF Facts
      <3>2. /\ Slots(l, d) \subseteq Slots(l, D)
            /\ CapacityIn(l, d) \in Nat /\ CapacityIn(l, d) <= CapacityIn(l, D)
            /\ \A s \in Slots(l, d) : EntryIn(l, d, s) # 0 => EntryIn(l, D, s) = EntryIn(l, d, s)
        BY <2>2, <3>1, SlotsGrow
      <3>3. CapacityIn(l, d) <= w.cap
        <4> HIDE DEF c
        <4>1. CapacityIn(l, d) \in Nat /\ CapacityIn(l, d) <= c /\ w.cap > c
          BY <3>2 DEF c
        <4> QED
          BY <1>6, <4>1, SMT
      <3> QED
        BY <1>7, <1>11, <1>12, <2>2, <3>2, <3>3
    <2>3. CASE d = n /\ e = n
      <3>1. w.cap <= w.cap
        BY SMT
      <3> QED
        BY <1>7, <2>3, <3>1
    <2>4. CASE d = n /\ e \in StoresIn(l, "dir")
      <3>1. e \in 1..Len(l) /\ Len(l) \in Nat /\ Len(l) + 1 <= e
        BY <1>0, <2>4 DEF Facts
      <3> QED
        BY <3>1, SMT
    <2> QED
      BY <1>3, <2>1, <2>2, <2>3, <2>4
  <1>17. EntriesOK(l2)
    <2>1. ASSUME NEW d \in StoresIn(l, "dir"), NEW r \in Slots(l, d), EntryIn(l, d, r) # 0
          PROVE  EntryIn(l, d, r) \in StoresIn(l2, "entry") /\ l2[EntryIn(l, d, r)].slot = r
      <3>1. EntryIn(l, d, r) \in StoresIn(l, "entry") /\ l[EntryIn(l, d, r)].slot = r
        BY <2>1 DEF LogInv, EntriesOK
      <3> QED
        BY <1>3, <3>1
    <2>2. ASSUME NEW d \in StoresIn(l2, "dir"), NEW r \in Slots(l2, d), EntryIn(l2, d, r) # 0
          PROVE  EntryIn(l2, d, r) \in StoresIn(l2, "entry") /\ l2[EntryIn(l2, d, r)].slot = r
      <3>1. CASE d \in StoresIn(l, "dir")
        BY <1>12, <2>1, <2>2, <3>1
      <3>2. CASE d = n
        <4>1. r \in 0..(w.cap - 1)
          BY <1>7, <2>2, <3>2
        <4>2. r < c /\ EntryIn(l2, n, r) = EntryIn(l, D, r)
          BY <1>10, <2>2, <3>2, <4>1
        <4>3. c # 0 /\ r \in Slots(l, D)
          <5> HIDE DEF c
          <5>1. r \in 0..(c - 1) /\ c # 0
            BY <1>6, <4>1, <4>2, SMT
          <5> QED
            BY <5>1 DEF Slots, c
        <4> QED
          BY <1>6, <2>1, <2>2, <3>2, <4>2, <4>3
      <3> QED
        BY <1>3, <3>1, <3>2
    <2>3. ASSUME NEW k \in StoresIn(l2, "entry")
          PROVE  /\ l2[k].dir \in StoresIn(l2, "dir") /\ l2[k].slot \in Slots(l2, l2[k].dir)
                 /\ EntryIn(l2, Top(l2), l2[k].slot) = k
      <3>1. k \in StoresIn(l, "entry") /\ l2[k] = l[k]
        BY <1>3, <2>3
      <3>2. /\ l[k].dir \in StoresIn(l, "dir") /\ l[k].slot \in Slots(l, l[k].dir)
            /\ EntryIn(l, D, l[k].slot) = k
        BY <3>1 DEF LogInv, EntriesOK
      <3>3. D \in StoresIn(l, "dir") /\ l[k].dir <= D
        BY <1>0, <3>2 DEF Facts
      <3>4. l[k].slot \in Slots(l, D)
        <4>1. Slots(l, l[k].dir) \subseteq Slots(l, D)
          BY <3>2, <3>3, SlotsGrow
        <4> QED
          BY <3>2, <4>1
      <3>5. EntryIn(l2, n, l[k].slot) = k
        BY <1>11, <3>2, <3>4
      <3> QED
        BY <1>3, <1>5, <1>12, <3>1, <3>2, <3>5
    <2> QED
      BY <2>2, <2>3 DEF EntriesOK
  <1>18. MakesOK(l2)
    <2> SUFFICES ASSUME NEW k \in StoresIn(l, "make")
                 PROVE  l2[k].addr \in StoresIn(l, "entry") \X (0..(BlockSize - 1))
      BY <1>3 DEF MakesOK
    <2>1. l2[k] = l[k] /\ l[k].addr \in StoresIn(l, "entry") \X (0..(BlockSize - 1))
      BY <1>3 DEF LogInv, MakesOK
    <2> QED
      BY <2>1
  <1>19. LogInv(l2)
    BY <1>0, <1>14, <1>15, <1>16, <1>17, <1>18 DEF LogInv, Added
  <1>20. Grown(l, l2)
    <2>1. \A r \in Slots(l, Top(l)) : EntryIn(l, Top(l), r) # 0 =>
             EntryIn(l2, Top(l2), r) = EntryIn(l, Top(l), r)
      BY <1>5, <1>11
    <2>2. Slots(l, Top(l)) \subseteq Slots(l2, Top(l2))
      BY <1>5, <1>7, <1>8
    <2>3. SizeIn(l) <= SizeIn(l2)
      <3>1. SizeIn(l) \in Int
        BY <1>0, SMT DEF Facts
      <3> QED
        BY <1>14, <3>1, SMT
    <2> QED
      BY <1>1, <2>1, <2>2, <2>3, GrownIf
  <1> QED
    BY <1>3, <1>4, <1>5, <1>7, <1>14, <1>19, <1>20 DEF MovedTo

-----------------------------------------------------------------------------
(* The threads.                                                            *)

Pcs == {"idle", "lock", "grow", "block", "make", "publish", "done", "dir", "deref", "ctor"}
Ops == {"none", "emplace_back", "resize", "reserve", "index", "iter"}
WriterOps == {"emplace_back", "resize", "reserve"}
Frames == [pc : Pcs, op : Ops, arg : 0..MaxSize, i : 0..MaxSize, dir : Nat, view : Nat,
           known : 0..MaxSize]
Its == [index : 0..MaxSize, elem : {Unset} \cup (Nat \X Nat)]

\* The size n was stored within the view v.
Knows(l, v, n) == n = 0 \/ \E z \in StoresIn(l, "size") : z <= v /\ n <= l[z].val

\* The frame f of a thread, and its iterator x: what it knows and reads.
SeenOK(l, f) == f.view <= Len(l) /\ f.dir <= Len(l) /\ Knows(l, f.view, f.known)
ReadOK(l, f, x) ==
    /\ f.pc \in {"dir", "deref"} =>
         f.arg < f.known /\ f.op \in {"index", "iter"} /\ (f.op = "iter" => f.arg = x.index)
    /\ f.pc = "deref" => f.dir = LatestIn(l, "dir", f.view)
CacheOK(l, x) == x.elem # Unset => InBlock(l, x.index) /\ x.elem = At_(l, x.index)

Local(l, f, x) ==
    SeenOK(l, f) /\ ReadOK(l, f, x) /\ CacheOK(l, x) /\ (f.pc = "lock" => f.op \in WriterOps)

\* Who made element j.
By(l, j) == l[Max(MakesIn(l, At_(l, j)))].by

\* The frame f of the thread t that has the lock.
HoldsLock(f) == f.pc \in {"grow", "block", "make", "publish", "done"}
Holder(l, t, f) ==
    /\ f.op \in WriterOps /\ f.view = Len(l)
    /\ f.pc \in {"block", "make", "publish"} =>
         /\ f.op # "reserve" /\ SizeIn(l) <= f.i
         /\ \A j \in SizeIn(l)..(f.i - 1) : Ready(l, j)
    /\ f.pc = "grow" => f.i = SizeIn(l)
    /\ f.op = "emplace_back" /\ f.pc \in {"grow", "block", "make"} => f.i = SizeIn(l) /\ f.i < MaxSize
    /\ f.pc \in {"block", "make"} => BlockOf(f.i) \in Slots(l, Top(l))
    /\ f.op = "resize" /\ f.pc \in {"block", "make"} =>
         f.i < f.arg /\ \A j \in 0..(f.arg - 1) : BlockOf(j) \in Slots(l, Top(l))
    /\ f.pc = "make" => InBlock(l, f.i)
    /\ f.pc = "publish" => f.i > SizeIn(l)
    /\ f.pc = "done" /\ f.op # "reserve" => f.i = SizeIn(l)
    /\ f.op = "emplace_back" /\ f.pc \in {"publish", "done"} => f.i > 0 /\ By(l, f.i - 1) = t

ThreadOK(l, t, f, x) ==
    f \in Frames /\ x \in Its /\ Local(l, f, x) /\ (HoldsLock(f) => Holder(l, t, f))

\* One thread has the lock.
LockOK ==
    /\ owner \in Threads \cup {NoThread}
    /\ \A t \in Threads : owner = t <=> HoldsLock(th[t])

\* Directories are retired, never lost.
DirsKept == retired \cup ({Top(log)} \ {0}) = StoresIn(log, "dir")

\* The elements whose index emplace_back returned.
AppendedOK(l, A) == \A p \in A : p[1] \in 0..(SizeIn(l) - 1) /\ By(l, p[1]) = p[2]

\* Nobody uses a destroyed deque.
FreedOK == freed # Unset => NothingLeaks /\ \A t \in Threads : th[t].pc = "idle"

\* The inductive invariant: the history of the stores, what each thread knows
\* of it, reads and has done with the lock held, and what was promised.
DequeInv ==
    /\ cast \in Casts /\ th \in [Threads -> Frames] /\ it \in [Threads -> Its]
    /\ LogInv(log) /\ (\A t \in Threads : ThreadOK(log, t, th[t], it[t]))
    /\ LockOK /\ DirsKept /\ AppendedOK(log, appended) /\ FreedOK

\* What a thread knows and reads stays as the log grows.
LEMMA Stable ==
    ASSUME NEW l, NEW l2, Grown(l, l2), NEW f \in Frames, NEW x \in Its, Local(l, f, x)
    PROVE  Local(l2, f, x)
  <1>0. Len(l) \in Nat /\ Len(l2) \in Nat /\ Len(l) <= Len(l2) /\ f.view \in Nat /\ f.dir \in Nat
    BY DEF Grown, Frames
  <1>1. f.view <= Len(l) /\ f.dir <= Len(l) /\ Knows(l, f.view, f.known)
    BY DEF Local, SeenOK
  <1>2. f.view <= Len(l2) /\ f.dir <= Len(l2)
    BY <1>0, <1>1, SMT
  <1>3. Knows(l2, f.view, f.known)
    <2>1. \A z \in StoresIn(l, "size") : z \in StoresIn(l2, "size") /\ l2[z] = l[z]
      BY DEF Grown, StoresIn
    <2> QED
      BY <1>1, <2>1 DEF Knows
  <1>4. ReadOK(l2, f, x)
    <2>1. LatestIn(l2, "dir", f.view) = LatestIn(l, "dir", f.view)
      BY <1>0, <1>1 DEF Grown
    <2> QED
      BY <2>1 DEF Local, ReadOK
  <1>5. CacheOK(l2, x)
    BY DEF Local, CacheOK, Grown
  <1> QED
    BY <1>2, <1>3, <1>4, <1>5 DEF Local, SeenOK

\* The last construction at an address.
LEMMA LastMake ==
    ASSUME NEW l, LogInv(l), NEW a, MakesIn(l, a) # {}
    PROVE  Max(MakesIn(l, a)) \in MakesIn(l, a) /\ Max(MakesIn(l, a)) \in 1..Len(l)
  <1>1. Facts(l)
    BY LogFacts
  <1>2. \A k \in MakesIn(l, a) : k \in 1..Len(l) /\ k \in 0..Len(l)
    <2> TAKE k \in MakesIn(l, a)
    <2>1. k \in 1..Len(l) /\ Len(l) \in Nat
      BY <1>1 DEF Facts, MakesIn
    <2> QED
      BY <2>1, SMT
  <1> DEFINE S == MakesIn(l, a)
  <1>3. S \in SUBSET (0..Len(l)) /\ S # {} /\ Len(l) \in Nat /\ Ordered(Len(l))
    BY <1>1, <1>2 DEF Facts, LogInv
  <1>4. Max(S) \in S
    <2> HIDE DEF S
    <2> QED
      BY <1>3, MaxIn
  <1> QED
    BY <1>2, <1>4

\* Who made an element stays, when nothing is made over it.
LEMMA MakerKept ==
    ASSUME NEW l, NEW l2, LogInv(l), Grown(l, l2), NEW j, Ready(l, j),
           MakesIn(l2, At_(l, j)) = MakesIn(l, At_(l, j))
    PROVE  By(l2, j) = By(l, j)
  <1>1. At_(l2, j) = At_(l, j) /\ MakesIn(l, At_(l, j)) # {}
    BY DEF Grown, Ready
  <1>2. Max(MakesIn(l, At_(l, j))) \in 1..Len(l)
    BY <1>1, LastMake
  <1>3. l2[Max(MakesIn(l, At_(l, j)))] = l[Max(MakesIn(l, At_(l, j)))]
    BY <1>2 DEF Grown
  <1> QED
    BY <1>1, <1>3 DEF By

LEMMA AppendedStable ==
    ASSUME NEW l, NEW l2, LogInv(l), LogInv(l2), Grown(l, l2), NEW A, AppendedOK(l, A)
    PROVE  AppendedOK(l2, A)
  <1> SUFFICES ASSUME NEW p \in A
               PROVE  p[1] \in 0..(SizeIn(l2) - 1) /\ By(l2, p[1]) = p[2]
    BY DEF AppendedOK
  <1>1. p[1] \in 0..(SizeIn(l) - 1) /\ By(l, p[1]) = p[2]
    BY DEF AppendedOK
  <1>2. SizeIn(l) \in 0..MaxSize /\ SizeIn(l2) \in 0..MaxSize /\ SizeIn(l) <= SizeIn(l2)
    BY LogFacts DEF Facts, Grown
  <1>3. p[1] \in 0..(SizeIn(l2) - 1)
    BY <1>1, <1>2, BoundsAssumption, SMT
  <1>4. Ready(l, p[1]) /\ MakesIn(l2, At_(l, p[1])) = MakesIn(l, At_(l, p[1]))
    BY <1>1, BelowSize DEF Grown
  <1>5. By(l2, p[1]) = By(l, p[1])
    BY <1>4, MakerKept
  <1> QED
    BY <1>1, <1>3, <1>5

-----------------------------------------------------------------------------
(* Steps.                                                                  *)

\* Thread t gets the frame f; no other is touched.
LEMMA FrameStep ==
    ASSUME NEW t \in Threads, NEW f \in Frames, th \in [Threads -> Frames],
           th' = [th EXCEPT ![t] = f]
    PROVE  /\ th' \in [Threads -> Frames] /\ th'[t] = f
           /\ \A u \in Threads : u # t => th'[u] = th[u]
  BY SMT

LEMMA ItStep ==
    ASSUME NEW t \in Threads, NEW x \in Its, it \in [Threads -> Its],
           it' = [it EXCEPT ![t] = x]
    PROVE  /\ it' \in [Threads -> Its] /\ it'[t] = x
           /\ \A u \in Threads : u # t => it'[u] = it[u]
  BY SMT

\* The lock goes along with the frame f of t.
LockStep(t, f) ==
    \/ owner' = owner /\ (HoldsLock(f) <=> HoldsLock(th[t]))
    \/ owner = NoThread /\ owner' = t /\ HoldsLock(f)
    \/ owner = t /\ owner' = NoThread /\ ~HoldsLock(f)

LEMMA LockKept ==
    ASSUME LockOK, NEW t \in Threads, NEW f, LockStep(t, f), th'[t] = f,
           \A u \in Threads : u # t => th'[u] = th[u]
    PROVE  LockOK'
  <1>0. NoThread \notin Threads
    BY NamesAssumption
  <1>1. owner' \in Threads \cup {NoThread}
    BY DEF LockOK, LockStep
  <1>2. ASSUME NEW u \in Threads PROVE owner' = u <=> HoldsLock(th'[u])
    <2>1. CASE u = t
      BY <1>0, <2>1 DEF LockOK, LockStep
    <2>2. CASE u # t
      BY <1>0, <2>2 DEF LockOK, LockStep
    <2> QED
      BY <2>1, <2>2
  <1> QED
    BY <1>1, <1>2 DEF LockOK

\* Only thread t changes, to the frame f and the iterator x.
Becomes(t, f, x) ==
    /\ th' = [th EXCEPT ![t] = f] /\ f \in Frames /\ x \in Its
    /\ it' = [it EXCEPT ![t] = x]

\* A step of t that leaves the log.
LEMMA KeepLog ==
    ASSUME DequeInv, NEW t \in Threads, NEW f, NEW x, Becomes(t, f, x), LockStep(t, f),
           ThreadOK(log, t, f, x), AppendedOK(log, appended'), freed = Unset,
           UNCHANGED <<log, retired, freed, cast>>
    PROVE  DequeInv'
  <1>0. /\ cast' = cast /\ log' = log /\ retired' = retired /\ freed' = freed
        /\ th \in [Threads -> Frames] /\ it \in [Threads -> Its] /\ LogInv(log)
    BY DEF DequeInv
  <1>1. /\ th' \in [Threads -> Frames] /\ th'[t] = f
        /\ \A u \in Threads : u # t => th'[u] = th[u]
    BY <1>0, FrameStep DEF Becomes
  <1>2. /\ it' \in [Threads -> Its] /\ it'[t] = x
        /\ \A u \in Threads : u # t => it'[u] = it[u]
    BY <1>0, ItStep DEF Becomes
  <1>3. LockOK'
    BY <1>1, LockKept DEF DequeInv
  <1>4. ASSUME NEW u \in Threads PROVE ThreadOK(log', u, th'[u], it'[u])
    <2>1. CASE u = t
      BY <1>0, <1>1, <1>2, <2>1
    <2>2. CASE u # t
      BY <1>0, <1>1, <1>2, <2>2 DEF DequeInv
    <2> QED
      BY <2>1, <2>2
  <1>5. DirsKept'
    BY <1>0 DEF DequeInv, DirsKept
  <1>6. FreedOK'
    BY <1>0 DEF FreedOK
  <1>7. AppendedOK(log', appended')
    BY <1>0
  <1>8. cast' \in Casts /\ LogInv(log')
    BY <1>0 DEF DequeInv
  <1> QED
    BY <1>1, <1>2, <1>3, <1>4, <1>5, <1>6, <1>7, <1>8 DEF DequeInv

\* A step of t that stores, holding the lock.
LEMMA GrowLog ==
    ASSUME DequeInv, NEW t \in Threads, NEW f \in Frames, th' = [th EXCEPT ![t] = f],
           HoldsLock(th[t]), HoldsLock(f), SeenOK(log', f), Holder(log', t, f),
           LogInv(log'), Grown(log, log'), DirsKept', freed = Unset,
           UNCHANGED <<owner, it, appended, freed, cast>>
    PROVE  DequeInv'
  <1>0. /\ cast' = cast /\ owner' = owner /\ it' = it /\ freed' = freed /\ appended' = appended
        /\ th \in [Threads -> Frames] /\ it \in [Threads -> Its] /\ LogInv(log)
    BY DEF DequeInv
  <1>1. /\ th' \in [Threads -> Frames] /\ th'[t] = f
        /\ \A u \in Threads : u # t => th'[u] = th[u]
    BY <1>0, FrameStep
  <1>2. it' \in [Threads -> Its]
    BY <1>0
  <1>3. LockOK'
    <2>1. LockStep(t, f) /\ LockOK
      BY <1>0 DEF LockStep, DequeInv
    <2> QED
      BY <1>1, <2>1, LockKept
  <1>4. ASSUME NEW u \in Threads PROVE ThreadOK(log', u, th'[u], it'[u])
    <2>0. th[u] \in Frames /\ it[u] \in Its /\ Local(log, th[u], it[u])
      BY DEF DequeInv, ThreadOK
    <2>1. CASE u = t
      <3>1. it[u] \in Its /\ CacheOK(log', it[u])
        <4>1. Local(log', th[u], it[u])
          BY <2>0, Stable
        <4> QED
          BY <2>0, <4>1 DEF Local
      <3>2. ReadOK(log', f, it[u]) /\ f.pc # "lock"
        BY DEF ReadOK, HoldsLock
      <3>3. Local(log', f, it[u])
        BY <3>1, <3>2 DEF Local
      <3> QED
        BY <1>0, <1>1, <2>1, <3>1, <3>3 DEF ThreadOK
    <2>2. CASE u # t
      <3>1. Local(log', th[u], it[u])
        BY <2>0, Stable
      <3>2. ~HoldsLock(th[u])
        BY <2>2 DEF DequeInv, LockOK
      <3>3. th'[u] = th[u] /\ it'[u] = it[u]
        BY <1>0, <1>1, <2>2
      <3> QED
        BY <2>0, <3>1, <3>2, <3>3 DEF ThreadOK
    <2> QED
      BY <2>1, <2>2
  <1>5. FreedOK'
    BY <1>0 DEF FreedOK
  <1>6. AppendedOK(log', appended')
    <2>1. AppendedOK(log, appended)
      BY DEF DequeInv
    <2>2. AppendedOK(log', appended)
      BY <1>0, <2>1, AppendedStable
    <2> QED
      BY <1>0, <2>2
  <1>7. cast' \in Casts
    BY <1>0 DEF DequeInv
  <1> QED
    BY <1>1, <1>2, <1>3, <1>4, <1>5, <1>6, <1>7 DEF DequeInv

\* A thread in a call, or about to begin one, has not seen the destructor.
LEMMA NotFreed ==
    ASSUME DequeInv, NEW t \in Threads, Idle(t) \/ th[t].pc # "idle"
    PROVE  freed = Unset
  BY DEF DequeInv, FreedOK, Idle

-----------------------------------------------------------------------------
(* Blocks and offsets of neighbours.                                       *)

LEMMA Quotients ==
    ASSUME NEW i \in Nat
    PROVE  \E q \in Nat, r \in 0..(BlockSize - 1), m \in Int :
             BlockOf(i) = q /\ OffsetOf(i) = r /\ m = BlockSize * q /\ i = m + r
  <1>1. /\ BlockOf(i) \in Nat /\ OffsetOf(i) \in 0..(BlockSize - 1)
        /\ i = BlockSize * BlockOf(i) + OffsetOf(i)
    BY Position
  <1>2. PICK q \in Nat, r \in 0..(BlockSize - 1) : BlockOf(i) = q /\ OffsetOf(i) = r
    BY <1>1
  <1>3. i = BlockSize * q + r
    BY <1>1, <1>2
  <1>4. PICK m \in Int : m = BlockSize * q
    BY BlockAssumption, SMT
  <1> QED
    BY <1>2, <1>3, <1>4

\* Block numbers are in the order of the indices, and go up one by one.
LEMMA Neighbours ==
    ASSUME NEW i \in Nat
    PROVE  /\ BlockOf(i + 1) <= BlockOf(i) + 1
           /\ OffsetOf(i + 1) # 0 => BlockOf(i + 1) = BlockOf(i)
  <1>1. PICK q \in Nat, r \in 0..(BlockSize - 1), m \in Int :
            BlockOf(i) = q /\ OffsetOf(i) = r /\ m = BlockSize * q /\ i = m + r
    BY Quotients
  <1>2. i + 1 \in Nat
    BY SMT
  <1>3. PICK p \in Nat, s \in 0..(BlockSize - 1), k \in Int :
            BlockOf(i + 1) = p /\ OffsetOf(i + 1) = s /\ k = BlockSize * p /\ i + 1 = k + s
    BY <1>2, Quotients
  <1>4. BlockSize \in Nat \ {0}
    BY BlockAssumption
  <1>5. p >= q + 1 => k >= m + BlockSize
    <2>1. p >= q + 1 => BlockSize * p >= BlockSize * q + BlockSize
      BY <1>4, MultipleStep, SMT
    <2> QED
      BY <1>1, <1>3, <2>1
  <1>6. q >= p + 1 => m >= k + BlockSize
    <2>1. q >= p + 1 => BlockSize * q >= BlockSize * p + BlockSize
      BY <1>4, MultipleStep, SMT
    <2> QED
      BY <1>1, <1>3, <2>1
  <1>7. PICK c \in Int : c = BlockSize * (q + 1) /\ c >= m + BlockSize
    <2>1. BlockSize * (q + 1) >= BlockSize * q + BlockSize
      BY <1>4, MultipleStep, SMT
    <2>2. BlockSize * (q + 1) \in Int
      BY <1>4, SMT
    <2> QED
      BY <1>1, <2>1, <2>2
  <1>8. p >= q + 1 + 1 => k >= c + BlockSize
    <2>1. q + 1 \in Int
      BY SMT
    <2>2. p >= q + 1 + 1 => BlockSize * p >= BlockSize * (q + 1) + BlockSize
      BY <1>4, <2>1, MultipleStep, SMT
    <2> QED
      BY <1>3, <1>7, <2>2
  <1>9. p <= q + 1 /\ (s # 0 => p = q)
    BY <1>1, <1>3, <1>4, <1>5, <1>6, <1>7, <1>8, SMT
  <1> QED
    BY <1>1, <1>3, <1>9

LEMMA FirstBlock == BlockOf(0) = 0
  <1>1. 0 \in Nat /\ BlockSize \in Nat \ {0}
    BY BlockAssumption, SMT
  <1>2. PICK q \in Nat, r \in 0..(BlockSize - 1), m \in Int :
            BlockOf(0) = q /\ OffsetOf(0) = r /\ m = BlockSize * q /\ 0 = m + r
    BY <1>1, Quotients
  <1>3. q >= 0 + 1 => BlockSize * q >= BlockSize * 0 + BlockSize
    BY <1>1, MultipleStep, SMT
  <1>4. BlockSize * 0 = 0
    BY <1>1, SMT
  <1>5. q = 0
    BY <1>1, <1>2, <1>3, <1>4, SMT
  <1> QED
    BY <1>2, <1>5

\* The blocks that n elements need hold every one of them.
LEMMA BlocksEnough ==
    ASSUME NEW n \in Nat
    PROVE  BlocksFor(n) \in Nat /\ \A j \in 0..(n - 1) : BlockOf(j) < BlocksFor(n)
  <1>0. BlockSize \in Nat \ {0} /\ n + BlockSize - 1 \in Nat
    BY BlockAssumption, SMT
  <1> DEFINE u == n + BlockSize - 1
  <1>a. u \in Nat /\ u = n + BlockSize - 1
    BY <1>0
  <1>b. BlocksFor(n) = BlockOf(u)
    BY DEF BlocksFor, BlockOf
  <1> HIDE DEF u
  <1>1. PICK p \in Nat, s \in 0..(BlockSize - 1), k \in Int :
            BlockOf(u) = p /\ OffsetOf(u) = s /\ k = BlockSize * p /\ u = k + s
    BY <1>a, Quotients
  <1>2. BlocksFor(n) = p
    BY <1>1, <1>b
  <1>3. ASSUME NEW j \in 0..(n - 1) PROVE BlockOf(j) < p
    <2>1. j \in Nat
      BY SMT
    <2>2. PICK q \in Nat, r \in 0..(BlockSize - 1), m \in Int :
              BlockOf(j) = q /\ OffsetOf(j) = r /\ m = BlockSize * q /\ j = m + r
      BY <2>1, Quotients
    <2>3. q >= p + 1 => BlockSize * q >= BlockSize * p + BlockSize
      BY <1>0, MultipleStep, SMT
    <2>4. q >= p + 1 => m >= k + BlockSize
      BY <1>1, <2>2, <2>3
    <2>5. q = p => m = k
      BY <1>1, <2>2
    <2>6. q < p
      BY <1>0, <1>a, <1>1, <2>2, <2>4, <2>5, SMT
    <2> QED
      BY <2>2, <2>6
  <1> QED
    BY <1>2, <1>3

\* Within a block, offsets differ as indices do.
LEMMA SameBlock ==
    ASSUME NEW i \in Nat, NEW j \in Nat, BlockOf(i) = BlockOf(j)
    PROVE  OffsetOf(j) = OffsetOf(i) + (j - i)
  <1>1. PICK q \in Nat, r \in 0..(BlockSize - 1), m \in Int :
            BlockOf(i) = q /\ OffsetOf(i) = r /\ m = BlockSize * q /\ i = m + r
    BY Quotients
  <1>2. PICK p \in Nat, s \in 0..(BlockSize - 1), k \in Int :
            BlockOf(j) = p /\ OffsetOf(j) = s /\ k = BlockSize * p /\ j = k + s
    BY Quotients
  <1>3. k = m
    BY <1>1, <1>2
  <1>4. s = r + (j - i)
    BY <1>1, <1>2, <1>3, BlockAssumption, SMT
  <1> QED
    BY <1>1, <1>2, <1>4

\* The address of an element.
LEMMA AddressType ==
    ASSUME NEW l, LogInv(l), NEW j \in Nat, InBlock(l, j)
    PROVE  At_(l, j) \in StoresIn(l, "entry") \X (0..(BlockSize - 1)) /\ At_(l, j) \in Nat \X Nat
  <1>1. BlockOf(j) \in Slots(l, Top(l)) /\ EntryIn(l, Top(l), BlockOf(j)) # 0
    BY DEF InBlock
  <1>2. Top(l) \in StoresIn(l, "dir")
    BY <1>1, TopIsDir
  <1>3. EntryIn(l, Top(l), BlockOf(j)) \in StoresIn(l, "entry")
    BY <1>1, <1>2 DEF LogInv, EntriesOK
  <1>4. OffsetOf(j) \in 0..(BlockSize - 1)
    BY Position
  <1>5. At_(l, j) = <<EntryIn(l, Top(l), BlockOf(j)), OffsetOf(j)>>
    BY DEF At_, AddressIn
  <1>6. EntryIn(l, Top(l), BlockOf(j)) \in Nat
    BY <1>3, LogFacts DEF Facts
  <1> QED
    BY <1>3, <1>4, <1>5, <1>6, BlockAssumption, SMT

\* An iterator moved within its block.
LEMMA MovedCache ==
    ASSUME NEW l, LogInv(l), NEW i \in Nat, NEW j \in Nat, InBlock(l, i), BlockOf(i) = BlockOf(j),
           NEW a, a = At_(l, i)
    PROVE  InBlock(l, j) /\ <<a[1], a[2] + (j - i)>> = At_(l, j)
  <1>1. InBlock(l, j)
    BY DEF InBlock
  <1>2. a = <<EntryIn(l, Top(l), BlockOf(i)), OffsetOf(i)>>
    BY DEF At_, AddressIn
  <1>3. a[1] = EntryIn(l, Top(l), BlockOf(j)) /\ a[2] = OffsetOf(i)
    BY <1>2, SMT
  <1>4. OffsetOf(j) = a[2] + (j - i)
    BY <1>3, SameBlock
  <1> QED
    BY <1>1, <1>3, <1>4 DEF At_, AddressIn

-----------------------------------------------------------------------------
(* The steps that leave the log.                                           *)

LEMMA ThreadHas ==
    ASSUME DequeInv, NEW t \in Threads
    PROVE  /\ LogInv(log) /\ Facts(log) /\ th \in [Threads -> Frames] /\ it \in [Threads -> Its]
           /\ th[t] \in Frames /\ it[t] \in Its
           /\ SeenOK(log, th[t]) /\ ReadOK(log, th[t], it[t]) /\ CacheOK(log, it[t])
           /\ th[t].pc = "lock" => th[t].op \in WriterOps
           /\ HoldsLock(th[t]) => Holder(log, t, th[t])
           /\ owner = t <=> HoldsLock(th[t])
           /\ AppendedOK(log, appended)
  <1>1. LogInv(log)
    BY DEF DequeInv
  <1>2. Facts(log)
    BY <1>1, LogFacts
  <1> QED
    BY <1>1, <1>2 DEF DequeInv, ThreadOK, Local, LockOK

LEMMA ItSame ==
    ASSUME NEW t \in Threads, it \in [Threads -> Its], it' = it
    PROVE  it' = [it EXCEPT ![t] = it[t]]
  BY SMT

LEMMA ThSame ==
    ASSUME NEW t \in Threads, th \in [Threads -> Frames], th' = th
    PROVE  th' = [th EXCEPT ![t] = th[t]]
  BY SMT

\* A longer view knows as much.
LEMMA KnowsMore ==
    ASSUME NEW l, LogInv(l), NEW v \in Nat, NEW u \in Nat, v <= u, NEW n, Knows(l, v, n)
    PROVE  Knows(l, u, n)
  <1>1. ASSUME NEW z \in StoresIn(l, "size"), z <= v PROVE z <= u
    <2>1. z \in Nat
      BY LogFacts DEF Facts
    <2> QED
      BY <1>1, <2>1, SMT
  <1> QED
    BY <1>1 DEF Knows

\* What a load of size_ returns.
LEMMA SizeLoaded ==
    ASSUME DequeInv, NEW t \in Threads, NEW k \in SizeStores(t)
    PROVE  /\ ViewAfter(t, k) \in Nat /\ ViewAfter(t, k) <= Len(log)
           /\ SizeAt(k) \in 0..MaxSize /\ Knows(log, ViewAfter(t, k), SizeAt(k))
  <1>0. /\ LogInv(log) /\ Facts(log) /\ th[t] \in Frames /\ SeenOK(log, th[t])
    BY ThreadHas
  <1> DEFINE v == th[t].view
  <1>1. v \in Nat /\ v <= Len(log) /\ Len(log) \in Nat
    BY <1>0 DEF Frames, SeenOK, Facts
  <1>2. SizeStores(t) = {LatestIn(log, "size", v)} \cup {j \in StoresIn(log, "size") : j > v}
    BY OfTheLog DEF SizeStores, Readable
  <1>3. LatestIn(log, "size", v) \in {0} \cup StoresIn(log, "size")
    BY <1>0, <1>1, LatestIs DEF LogInv
  <1>4. k \in {0} \cup StoresIn(log, "size")
    BY <1>2, <1>3
  <1>5. CASE k = 0
    <2>1. ViewAfter(t, k) = v
      <3>1. ~(0 > v)
        BY <1>1, SMT
      <3> QED
        BY <1>5, <3>1 DEF ViewAfter
    <2>2. SizeAt(k) = 0 /\ 0 \in 0..MaxSize
      <3>1. 0 \in 0..MaxSize
        BY BoundsAssumption, SMT
      <3> QED
        BY <1>5, <3>1 DEF SizeAt
    <2> QED
      BY <1>1, <2>1, <2>2 DEF Knows
  <1>6. CASE k \in StoresIn(log, "size")
    <2>1. k \in 1..Len(log) /\ k \in Nat /\ k # 0
      BY <1>0, <1>6 DEF Facts
    <2>2. log[k].val \in 1..MaxSize
      BY <1>0, <1>6 DEF LogInv, SizesOK
    <2>3. SizeAt(k) = log[k].val
      BY <2>1 DEF SizeAt
    <2>4. SizeAt(k) \in 0..MaxSize /\ SizeAt(k) <= log[k].val
      BY <2>2, <2>3, BoundsAssumption, SMT
    <2>5. PICK u : u = ViewAfter(t, k)
      OBVIOUS
    <2>6. (u = k /\ k > v) \/ (u = v /\ ~(k > v))
      <3>1. u = IF k > v THEN k ELSE v
        BY <2>5 DEF ViewAfter
      <3> HIDE DEF v
      <3>2. CASE k > v
        BY <3>1, <3>2
      <3>3. CASE ~(k > v)
        BY <3>1, <3>3
      <3> QED
        BY <3>2, <3>3
    <2>7. u \in Nat /\ u <= Len(log) /\ k <= u
      <3> HIDE DEF v
      <3> QED
        BY <1>1, <2>1, <2>6, SMT
    <2>8. Knows(log, u, SizeAt(k))
      BY <1>6, <2>4, <2>7 DEF Knows
    <2> QED
      BY <2>4, <2>5, <2>7, <2>8
  <1> QED
    BY <1>4, <1>5, <1>6

\* A call returns.
LEMMA Returned ==
    ASSUME DequeInv, NEW t \in Threads, NEW v \in Nat, NEW n \in 0..MaxSize, NEW x \in Its,
           Return(t, v, n), it' = [it EXCEPT ![t] = x],
           v <= Len(log), Knows(log, v, n), CacheOK(log, x),
           \/ owner' = owner /\ ~HoldsLock(th[t])
           \/ owner = t /\ owner' = NoThread,
           AppendedOK(log, appended'), freed = Unset, UNCHANGED <<log, retired, freed, cast>>
    PROVE  DequeInv'
  <1> DEFINE f == [pc |-> "idle", op |-> "none", arg |-> 0, i |-> 0, dir |-> 0, view |-> v,
                   known |-> n]
  <1>1. 0 \in 0..MaxSize /\ 0 \in Nat /\ 0 <= Len(log)
    <2>1. Len(log) \in Nat
      BY ThreadHas DEF Facts
    <2> QED
      BY <2>1, BoundsAssumption, SMT
  <1>2. f \in Frames
    BY <1>1 DEF Frames, Pcs, Ops
  <1>3. th' = [th EXCEPT ![t] = f]
    BY DEF Return
  <1>4. f.pc = "idle" /\ f.view = v /\ f.known = n /\ f.dir = 0
    OBVIOUS
  <1> HIDE DEF f
  <1>5. ~HoldsLock(f) /\ f.pc # "lock" /\ f.pc \notin {"dir", "deref"}
    BY <1>4 DEF HoldsLock
  <1>6. LockStep(t, f)
    BY <1>5 DEF LockStep
  <1>7. Local(log, f, x)
    BY <1>1, <1>4, <1>5 DEF Local, SeenOK, ReadOK
  <1>8. ThreadOK(log, t, f, x) /\ Becomes(t, f, x)
    BY <1>2, <1>3, <1>5, <1>7 DEF ThreadOK, Becomes
  <1> QED
    BY <1>6, <1>8, KeepLog

\* A thread that does not have the lock goes on, with the frame f.
LEMMA GoesOn ==
    ASSUME DequeInv, NEW t \in Threads, NEW f \in Frames, NEW x \in Its,
           th' = [th EXCEPT ![t] = f], it' = [it EXCEPT ![t] = x],
           SeenOK(log, f), ReadOK(log, f, x), CacheOK(log, x),
           f.pc = "lock" => f.op \in WriterOps,
           ~HoldsLock(th[t]), ~HoldsLock(f),
           freed = Unset, UNCHANGED <<log, owner, retired, appended, freed, cast>>
    PROVE  DequeInv'
  <1>1. LockStep(t, f) /\ Becomes(t, f, x)
    BY DEF LockStep, Becomes
  <1>2. ThreadOK(log, t, f, x)
    BY DEF ThreadOK, Local
  <1>3. AppendedOK(log, appended')
    BY ThreadHas
  <1> QED
    BY <1>1, <1>2, <1>3, KeepLog

\* A read of element i begins.
LEMMA ReadBegun ==
    ASSUME DequeInv, NEW t \in Threads, NEW o \in {"index", "iter"}, NEW i \in 0..MaxSize,
           NEW v \in Nat, NEW n \in 0..MaxSize, ToDirectory(t, o, i, v, n),
           v <= Len(log), Knows(log, v, n), i < n, o = "iter" => i = it[t].index,
           ~HoldsLock(th[t]), freed = Unset,
           UNCHANGED <<log, owner, retired, it, appended, freed, cast>>
    PROVE  DequeInv'
  <1> DEFINE f == [th[t] EXCEPT !.pc = "dir", !.op = o, !.arg = i, !.view = v, !.known = n]
  <1>0. th[t] \in Frames /\ it[t] \in Its /\ it \in [Threads -> Its] /\ CacheOK(log, it[t])
        /\ SeenOK(log, th[t])
    BY ThreadHas
  <1>1. th' = [th EXCEPT ![t] = f]
    BY DEF ToDirectory
  <1>2. f \in Frames
    BY <1>0 DEF Frames, Pcs, Ops
  <1>3. f.pc = "dir" /\ f.op = o /\ f.arg = i /\ f.view = v /\ f.known = n /\ f.dir = th[t].dir
    BY <1>0 DEF Frames
  <1> HIDE DEF f
  <1>4. it' = [it EXCEPT ![t] = it[t]]
    BY <1>0, ItSame
  <1>5. SeenOK(log, f) /\ ReadOK(log, f, it[t]) /\ ~HoldsLock(f) /\ f.pc # "lock"
    BY <1>0, <1>3 DEF SeenOK, ReadOK, HoldsLock
  <1> QED
    BY <1>0, <1>1, <1>2, <1>4, <1>5, GoesOn

LEMMA IdleOutside ==
    ASSUME DequeInv, NEW t \in Threads, Idle(t)
    PROVE  ~HoldsLock(th[t]) /\ freed = Unset /\ th[t].pc = "idle"
  BY DEF Idle, HoldsLock

\* A call that leaves everything else as it is, and the iterator too.
ReadsOnly == UNCHANGED <<log, owner, retired, it, failures, appended, freed, cast>>

LEMMA ReturnedSize ==
    ASSUME DequeInv, NEW t \in Threads, NEW k \in SizeStores(t),
           Return(t, ViewAfter(t, k), SizeAt(k)), ~HoldsLock(th[t]), freed = Unset, ReadsOnly
    PROVE  DequeInv'
  <1>1. /\ ViewAfter(t, k) \in Nat /\ ViewAfter(t, k) <= Len(log)
        /\ SizeAt(k) \in 0..MaxSize /\ Knows(log, ViewAfter(t, k), SizeAt(k))
    BY SizeLoaded
  <1>2. /\ UNCHANGED <<log, retired, freed, cast>> /\ owner' = owner /\ it' = it /\ appended' = appended
    BY DEF ReadsOnly
  <1>3. it[t] \in Its /\ it \in [Threads -> Its] /\ CacheOK(log, it[t]) /\ AppendedOK(log, appended)
    BY ThreadHas
  <1>4. it' = [it EXCEPT ![t] = it[t]] /\ AppendedOK(log, appended')
    BY <1>2, <1>3, ItSame
  <1>5. PICK v \in Nat, n \in 0..MaxSize : v = ViewAfter(t, k) /\ n = SizeAt(k)
    BY <1>1
  <1>6. Return(t, v, n) /\ v <= Len(log) /\ Knows(log, v, n)
    BY <1>1, <1>5
  <1> QED
    BY <1>2, <1>3, <1>4, <1>6, Returned

LEMMA CallStep ==
    ASSUME DequeInv, NEW t \in Threads, NEW o \in WriterOps, NEW n \in 0..MaxSize, Call(t, o, n)
    PROVE  DequeInv'
  <1> DEFINE f == [th[t] EXCEPT !.pc = "lock", !.op = o, !.arg = n]
  <1>0. /\ th[t] \in Frames /\ it[t] \in Its /\ it \in [Threads -> Its] /\ CacheOK(log, it[t])
        /\ SeenOK(log, th[t]) /\ ~HoldsLock(th[t]) /\ freed = Unset
    BY ThreadHas, IdleOutside DEF Call
  <1>1. th' = [th EXCEPT ![t] = f]
    BY DEF Call
  <1>2. f \in Frames
    BY <1>0 DEF Frames, Pcs, Ops, WriterOps
  <1>3. /\ f.pc = "lock" /\ f.op = o /\ f.view = th[t].view /\ f.dir = th[t].dir
        /\ f.known = th[t].known
    BY <1>0 DEF Frames
  <1> HIDE DEF f
  <1>4. it' = [it EXCEPT ![t] = it[t]]
    BY <1>0, ItSame DEF Call
  <1>5. SeenOK(log, f) /\ ReadOK(log, f, it[t]) /\ ~HoldsLock(f) /\ f.op \in WriterOps
    BY <1>0, <1>3 DEF SeenOK, ReadOK, HoldsLock
  <1>6. UNCHANGED <<log, owner, retired, appended, freed, cast>>
    BY DEF Call
  <1> QED
    BY <1>0, <1>1, <1>2, <1>4, <1>5, <1>6, GoesOn

LEMMA CallsStep ==
    ASSUME DequeInv, NEW t \in Threads, Emplace_back(t) \/ Reserve(t)
    PROVE  DequeInv'
  <1>1. CASE Emplace_back(t)
    <2>1. 0 \in 0..MaxSize /\ "emplace_back" \in WriterOps /\ Call(t, "emplace_back", 0)
      <3>1. 0 \in 0..MaxSize
        BY BoundsAssumption, SMT
      <3> QED
        BY <1>1, <3>1 DEF Emplace_back, WriterOps
    <2> QED
      BY <2>1, CallStep
  <1>2. CASE Reserve(t)
    <2>1. PICK n \in 1..MaxSize : Call(t, "reserve", n)
      BY <1>2 DEF Reserve
    <2>2. n \in 0..MaxSize
      BY BoundsAssumption, SMT
    <2>3. "reserve" \in WriterOps
      BY DEF WriterOps
    <2> QED
      BY <2>1, <2>2, <2>3, CallStep
  <1> QED
    BY <1>1, <1>2

LEMMA ResizeStep ==
    ASSUME DequeInv, NEW t \in Threads, Resize(t)
    PROVE  DequeInv'
  <1>0. /\ th[t] \in Frames /\ it[t] \in Its /\ it \in [Threads -> Its] /\ CacheOK(log, it[t])
        /\ SeenOK(log, th[t]) /\ ~HoldsLock(th[t]) /\ freed = Unset /\ LogInv(log)
    BY ThreadHas, IdleOutside DEF Resize
  <1>1. PICK n \in 1..MaxSize, k \in SizeStores(t) :
            IF n <= SizeAt(k)
            THEN Return(t, ViewAfter(t, k), SizeAt(k))
            ELSE th' = [th EXCEPT ![t] = [@ EXCEPT !.pc = "lock", !.op = "resize", !.arg = n,
                                                   !.view = ViewAfter(t, k)]]
    BY DEF Resize
  <1>2. ReadsOnly
    BY DEF Resize, ReadsOnly
  <1>3. CASE n <= SizeAt(k)
    <2>1. Return(t, ViewAfter(t, k), SizeAt(k))
      BY <1>1, <1>3
    <2> QED
      BY <1>0, <1>2, <2>1, ReturnedSize
  <1>4. CASE ~(n <= SizeAt(k))
    <2>1. ViewAfter(t, k) \in Nat /\ ViewAfter(t, k) <= Len(log)
      BY SizeLoaded
    <2>2. PICK v \in Nat : v = ViewAfter(t, k) /\ v <= Len(log)
      BY <2>1
    <2>3. n \in 0..MaxSize
      BY BoundsAssumption, SMT
    <2> DEFINE f == [th[t] EXCEPT !.pc = "lock", !.op = "resize", !.arg = n, !.view = v]
    <2>4. th' = [th EXCEPT ![t] = f]
      BY <1>1, <1>4, <2>2
    <2>5. f \in Frames
      BY <1>0, <2>3 DEF Frames, Pcs, Ops
    <2>6. /\ f.pc = "lock" /\ f.op = "resize" /\ f.view = v /\ f.dir = th[t].dir
          /\ f.known = th[t].known
      BY <1>0 DEF Frames
    <2> HIDE DEF f
    <2>7. Knows(log, v, th[t].known)
      <3>1. th[t].view \in Nat /\ Knows(log, th[t].view, th[t].known)
        BY <1>0 DEF Frames, SeenOK
      <3>2. th[t].view <= v
        <4>1. PICK u \in Nat : u = th[t].view
          BY <3>1
        <4>2. k \in Nat
          <5>1. SizeStores(t) = {LatestIn(log, "size", u)} \cup {j \in StoresIn(log, "size") : j > u}
            BY <4>1, OfTheLog DEF SizeStores, Readable
          <5>2. LatestIn(log, "size", u) \in Nat /\ \A j \in StoresIn(log, "size") : j \in Nat
            BY <1>0, LatestIs, LogFacts DEF LogInv, Facts
          <5> QED
            BY <5>1, <5>2
        <4>3. v = IF k > u THEN k ELSE u
          BY <2>2, <4>1 DEF ViewAfter
        <4>4. u <= v
          BY <4>2, <4>3, SMT
        <4> QED
          BY <4>1, <4>4
      <3> QED
        BY <1>0, <3>1, <3>2, KnowsMore
    <2>8. it' = [it EXCEPT ![t] = it[t]]
      BY <1>0, <1>2, ItSame DEF ReadsOnly
    <2>9. SeenOK(log, f) /\ ReadOK(log, f, it[t]) /\ ~HoldsLock(f) /\ f.op \in WriterOps
      BY <1>0, <2>2, <2>6, <2>7 DEF SeenOK, ReadOK, HoldsLock, WriterOps
    <2>10. UNCHANGED <<log, owner, retired, appended, freed, cast>>
      BY <1>2 DEF ReadsOnly
    <2> QED
      BY <1>0, <2>4, <2>5, <2>8, <2>9, <2>10, GoesOn
  <1> QED
    BY <1>3, <1>4

\* size(), at() and operator[].
LEMMA SizeStep ==
    ASSUME DequeInv, NEW t \in Threads, Size(t)
    PROVE  DequeInv'
  <1>1. PICK k \in SizeStores(t) : Return(t, ViewAfter(t, k), SizeAt(k))
    BY DEF Size
  <1>2. ReadsOnly /\ ~HoldsLock(th[t]) /\ freed = Unset
    BY IdleOutside DEF Size, ReadsOnly
  <1> QED
    BY <1>1, <1>2, ReturnedSize

\* A read that a load of size_ allows.
LEMMA CheckedRead ==
    ASSUME DequeInv, NEW t \in Threads, NEW o \in {"index", "iter"}, NEW i \in 0..MaxSize,
           NEW k \in SizeStores(t), i < SizeAt(k), o = "iter" => i = it[t].index,
           ToDirectory(t, o, i, ViewAfter(t, k), SizeAt(k)),
           ~HoldsLock(th[t]), freed = Unset, ReadsOnly
    PROVE  DequeInv'
  <1>1. /\ ViewAfter(t, k) \in Nat /\ ViewAfter(t, k) <= Len(log)
        /\ SizeAt(k) \in 0..MaxSize /\ Knows(log, ViewAfter(t, k), SizeAt(k))
    BY SizeLoaded
  <1>2. PICK v \in Nat, n \in 0..MaxSize : v = ViewAfter(t, k) /\ n = SizeAt(k)
    BY <1>1
  <1>3. v <= Len(log) /\ Knows(log, v, n) /\ i < n /\ ToDirectory(t, o, i, v, n)
    BY <1>1, <1>2
  <1>4. UNCHANGED <<log, owner, retired, it, appended, freed, cast>>
    BY DEF ReadsOnly
  <1> QED
    BY <1>3, <1>4, ReadBegun

LEMMA AtStep ==
    ASSUME DequeInv, NEW t \in Threads, At(t)
    PROVE  DequeInv'
  <1>1. PICK i \in 0..MaxSize, k \in SizeStores(t) :
            IF i < SizeAt(k) THEN ToDirectory(t, "index", i, ViewAfter(t, k), SizeAt(k))
                             ELSE Return(t, ViewAfter(t, k), SizeAt(k))
    BY DEF At
  <1>2. ReadsOnly /\ ~HoldsLock(th[t]) /\ freed = Unset
    BY IdleOutside DEF At, ReadsOnly
  <1>3. CASE i < SizeAt(k)
    <2>1. ToDirectory(t, "index", i, ViewAfter(t, k), SizeAt(k))
      BY <1>1, <1>3
    <2>2. "index" \in {"index", "iter"} /\ ("index" = "iter" => i = it[t].index)
      OBVIOUS
    <2> QED
      BY <1>2, <1>3, <2>1, <2>2, CheckedRead
  <1>4. CASE ~(i < SizeAt(k))
    <2>1. Return(t, ViewAfter(t, k), SizeAt(k))
      BY <1>1, <1>4
    <2> QED
      BY <1>2, <2>1, ReturnedSize
  <1> QED
    BY <1>3, <1>4

\* A read of an index within the size that the thread knows.
LEMMA KnownRead ==
    ASSUME DequeInv, NEW t \in Threads, NEW o \in {"index", "iter"}, NEW i \in 0..MaxSize,
           i < th[t].known, o = "iter" => i = it[t].index,
           ToDirectory(t, o, i, th[t].view, th[t].known), Idle(t), ReadsOnly
    PROVE  DequeInv'
  <1>1. /\ th[t].view \in Nat /\ th[t].known \in 0..MaxSize /\ th[t].view <= Len(log)
        /\ Knows(log, th[t].view, th[t].known)
    BY ThreadHas DEF SeenOK, Frames
  <1>2. PICK v \in Nat, n \in 0..MaxSize : v = th[t].view /\ n = th[t].known
    BY <1>1
  <1>3. v <= Len(log) /\ Knows(log, v, n) /\ i < n /\ ToDirectory(t, o, i, v, n)
    BY <1>1, <1>2
  <1>4. UNCHANGED <<log, owner, retired, it, appended, freed, cast>> /\ ~HoldsLock(th[t]) /\ freed = Unset
    BY IdleOutside DEF ReadsOnly
  <1> QED
    BY <1>3, <1>4, ReadBegun

LEMMA SubscriptStep ==
    ASSUME DequeInv, NEW t \in Threads, Subscript(t)
    PROVE  DequeInv'
  <1>1. PICK i \in 0..(th[t].known - 1) : ToDirectory(t, "index", i, th[t].view, th[t].known)
    BY DEF Subscript
  <1>2. th[t].known \in 0..MaxSize
    BY ThreadHas DEF Frames
  <1>3. i \in 0..MaxSize /\ i < th[t].known
    BY <1>2, BoundsAssumption, SMT
  <1>4. Idle(t) /\ ReadsOnly
    BY DEF Subscript, ReadsOnly
  <1>5. "index" \in {"index", "iter"} /\ ("index" = "iter" => i = it[t].index)
    OBVIOUS
  <1> QED
    BY <1>1, <1>3, <1>4, <1>5, KnownRead

LEMMA StarStep ==
    ASSUME DequeInv, NEW t \in Threads, Star(t)
    PROVE  DequeInv'
  <1>1. it[t].index \in 0..MaxSize
    BY ThreadHas DEF Its
  <1>2. Idle(t) /\ ReadsOnly
    BY DEF Star, ReadsOnly
  <1>3. /\ it[t].index < th[t].known
        /\ ToDirectory(t, "iter", it[t].index, th[t].view, th[t].known)
    BY DEF Star
  <1>4. "iter" \in {"index", "iter"}
    OBVIOUS
  <1>5. PICK i \in 0..MaxSize : i = it[t].index
    BY <1>1
  <1> QED
    BY <1>2, <1>3, <1>4, <1>5, KnownRead

LEMMA ConstructorStep ==
    ASSUME DequeInv, NEW t \in Threads, IteratorConstructor(t)
    PROVE  DequeInv'
  <1>1. PICK k \in SizeStores(t) :
            IF it[t].index < SizeAt(k)
            THEN ToDirectory(t, "iter", it[t].index, ViewAfter(t, k), SizeAt(k))
            ELSE Return(t, ViewAfter(t, k), SizeAt(k))
    BY DEF IteratorConstructor
  <1>2. ReadsOnly /\ ~HoldsLock(th[t]) /\ freed = Unset
    <2>1. th[t].pc = "ctor"
      BY DEF IteratorConstructor
    <2>2. th[t].pc # "idle" /\ ~HoldsLock(th[t])
      BY <2>1 DEF HoldsLock
    <2>3. freed = Unset
      BY <2>2, NotFreed
    <2> QED
      BY <2>2, <2>3 DEF IteratorConstructor, ReadsOnly
  <1>3. PICK i \in 0..MaxSize : i = it[t].index
    BY ThreadHas DEF Its
  <1>4. CASE it[t].index < SizeAt(k)
    <2>1. ToDirectory(t, "iter", i, ViewAfter(t, k), SizeAt(k)) /\ i < SizeAt(k)
      BY <1>1, <1>3, <1>4
    <2>2. "iter" \in {"index", "iter"}
      OBVIOUS
    <2> QED
      BY <1>2, <1>3, <2>1, <2>2, CheckedRead
  <1>5. CASE ~(it[t].index < SizeAt(k))
    <2>1. Return(t, ViewAfter(t, k), SizeAt(k))
      BY <1>1, <1>5
    <2> QED
      BY <1>2, <2>1, ReturnedSize
  <1> QED
    BY <1>4, <1>5

\* The directory load, after which the thread's view has it.
LEMMA LoadDirectoryStep ==
    ASSUME DequeInv, NEW t \in Threads, LoadDirectory(t)
    PROVE  DequeInv'
  <1>0. /\ th[t] \in Frames /\ it[t] \in Its /\ it \in [Threads -> Its] /\ CacheOK(log, it[t])
        /\ SeenOK(log, th[t]) /\ ReadOK(log, th[t], it[t]) /\ LogInv(log) /\ Facts(log)
    BY ThreadHas
  <1>1. th[t].pc = "dir"
    BY DEF LoadDirectory
  <1>2. th[t].pc # "idle" /\ ~HoldsLock(th[t])
    BY <1>1 DEF HoldsLock
  <1>3. freed = Unset
    BY <1>2, NotFreed
  <1>4. PICK d \in Readable("dir", th[t].view) :
            th' = [th EXCEPT ![t] = [@ EXCEPT !.pc = "deref", !.dir = d, !.view = ViewAfter(t, d)]]
    BY DEF LoadDirectory
  <1>5. PICK u \in Nat : u = th[t].view /\ u <= Len(log)
    BY <1>0 DEF Frames, SeenOK
  <1>6. d \in {LatestIn(log, "dir", u)} \cup {j \in StoresIn(log, "dir") : j > u}
    BY <1>5, OfTheLog DEF Readable
  <1>7. /\ LatestIn(log, "dir", u) \in Nat /\ LatestIn(log, "dir", u) <= u
        /\ \A v \in Nat : LatestIn(log, "dir", v) \in Nat /\ LatestIn(log, "dir", v) <= v
             /\ \A j \in StoresIn(log, "dir") : j <= v => j <= LatestIn(log, "dir", v)
        /\ \A j \in StoresIn(log, "dir") : j \in 1..Len(log)
    BY <1>0, <1>5, LatestIs DEF LogInv, Facts
  <1>8. PICK v : v = ViewAfter(t, d)
    OBVIOUS
  <1>9. v \in Nat /\ d \in Nat /\ v <= Len(log) /\ d <= Len(log) /\ u <= v /\ d = LatestIn(log, "dir", v)
    <2>0. Len(log) \in Nat
      BY <1>0 DEF Facts
    <2>1. CASE d = LatestIn(log, "dir", u)
      <3>1. d \in Nat /\ d <= u
        BY <1>7, <2>1
      <3>2. ~(d > u) /\ d <= Len(log) /\ u <= u
        BY <1>5, <2>0, <3>1, SMT
      <3>3. v = u
        BY <1>5, <1>8, <3>2 DEF ViewAfter
      <3> QED
        BY <1>5, <2>1, <3>1, <3>2, <3>3
    <2>2. CASE d \in StoresIn(log, "dir") /\ d > u
      <3>1. v = d
        BY <1>5, <1>8, <2>2 DEF ViewAfter
      <3>2. d \in 1..Len(log)
        BY <1>7, <2>2
      <3>3. d \in Nat /\ d <= Len(log) /\ u <= d /\ d <= d
        BY <1>5, <2>0, <2>2, <3>2, SMT
      <3>4. PICK e \in Nat : e = LatestIn(log, "dir", d) /\ e <= d /\ d <= e
        BY <1>7, <2>2, <3>3
      <3>5. e = d
        BY <3>3, <3>4, SMT
      <3> QED
        BY <3>1, <3>3, <3>4, <3>5
    <2> QED
      BY <1>6, <2>1, <2>2
  <1> DEFINE f == [th[t] EXCEPT !.pc = "deref", !.dir = d, !.view = v]
  <1>10. th' = [th EXCEPT ![t] = f]
    BY <1>4, <1>8
  <1>11. f \in Frames
    BY <1>0, <1>9 DEF Frames, Pcs
  <1>12. /\ f.pc = "deref" /\ f.op = th[t].op /\ f.arg = th[t].arg /\ f.view = v /\ f.dir = d
         /\ f.known = th[t].known
    BY <1>0 DEF Frames
  <1> HIDE DEF f
  <1>13. Knows(log, v, th[t].known)
    <2>1. Knows(log, u, th[t].known)
      BY <1>0, <1>5 DEF SeenOK
    <2> QED
      BY <1>0, <1>9, <2>1, KnowsMore
  <1>14. SeenOK(log, f) /\ ReadOK(log, f, it[t]) /\ ~HoldsLock(f) /\ f.pc # "lock"
    <2>1. th[t].arg < th[t].known /\ th[t].op \in {"index", "iter"}
          /\ (th[t].op = "iter" => th[t].arg = it[t].index)
      BY <1>0, <1>1 DEF ReadOK
    <2> QED
      BY <1>9, <1>12, <1>13, <2>1 DEF SeenOK, ReadOK, HoldsLock
  <1>15. it' = [it EXCEPT ![t] = it[t]]
    BY <1>0, ItSame DEF LoadDirectory
  <1>16. UNCHANGED <<log, owner, retired, appended, freed, cast>>
    BY DEF LoadDirectory
  <1> QED
    BY <1>0, <1>2, <1>3, <1>10, <1>11, <1>14, <1>15, <1>16, GoesOn

\* What the thread is about to dereference is published, within its view.
LEMMA DereferenceFinds ==
    ASSUME DequeInv, NEW t \in Threads, th[t].pc = "deref"
    PROVE  \E z \in StoresIn(log, "size") :
             /\ z <= th[t].view /\ th[t].arg \in 0..(log[z].val - 1)
             /\ th[t].dir \in StoresIn(log, "dir") /\ Top(log) \in StoresIn(log, "dir")
             /\ Found(log, z, th[t].arg, th[t].dir) /\ Found(log, z, th[t].arg, Top(log))
  <1>0. /\ th[t] \in Frames /\ SeenOK(log, th[t]) /\ ReadOK(log, th[t], it[t])
        /\ LogInv(log) /\ Facts(log)
    BY ThreadHas
  <1>1. PICK u \in Nat, i \in 0..MaxSize, n \in 0..MaxSize :
            /\ u = th[t].view /\ i = th[t].arg /\ n = th[t].known
    BY <1>0 DEF Frames
  <1>2. Knows(log, u, n) /\ i < n /\ th[t].dir = LatestIn(log, "dir", u)
    BY <1>0, <1>1 DEF SeenOK, ReadOK
  <1>3. n # 0
    BY <1>1, <1>2, BoundsAssumption, SMT
  <1>4. PICK z \in StoresIn(log, "size") : z <= u /\ n <= log[z].val
    BY <1>2, <1>3 DEF Knows
  <1>5. log[z].val \in 1..MaxSize
    BY <1>0 DEF LogInv, SizesOK
  <1>6. i \in 0..(log[z].val - 1)
    BY <1>1, <1>2, <1>4, <1>5, BoundsAssumption, SMT
  <1>7. Published(log, z, i)
    BY <1>0, <1>6 DEF LogInv, SizesOK
  <1> DEFINE c == LatestIn(log, "dir", z)
  <1>8. z \in Nat /\ log \in Seq(Records) /\ Ordered(Len(log))
    BY <1>0 DEF Facts, LogInv
  <1>9. c \in {0} \cup StoresIn(log, "dir") /\ c \in Nat /\ c <= z
    BY <1>8, LatestIs
  <1>10. c \in StoresIn(log, "dir") /\ c # 0
    BY <1>7, <1>9 DEF Published
  <1>11. c <= u
    <2> HIDE DEF c
    <2> QED
      BY <1>1, <1>4, <1>8, <1>9, SMT
  <1>12. PICK d : d = LatestIn(log, "dir", u)
    OBVIOUS
  <1>13. d \in {0} \cup StoresIn(log, "dir") /\ d \in Nat /\ c <= d
    BY <1>8, <1>10, <1>11, <1>12, LatestIs
  <1>14. d # 0
    <2> HIDE DEF c
    <2> QED
      BY <1>9, <1>10, <1>13, SMT
  <1>15. d \in StoresIn(log, "dir")
    BY <1>13, <1>14
  <1>16. Found(log, z, i, d)
    BY <1>0, <1>6, <1>13, <1>15, PublishedFound
  <1>17. Top(log) \in StoresIn(log, "dir") /\ c <= Top(log)
    BY <1>0, <1>10 DEF Facts
  <1>18. Found(log, z, i, Top(log))
    BY <1>0, <1>6, <1>17, PublishedFound
  <1> QED
    BY <1>1, <1>2, <1>4, <1>6, <1>12, <1>15, <1>16, <1>17, <1>18

LEMMA DereferenceStep ==
    ASSUME DequeInv, NEW t \in Threads, Dereference(t)
    PROVE  DequeInv'
  <1>0. /\ th[t] \in Frames /\ it[t] \in Its /\ it \in [Threads -> Its] /\ CacheOK(log, it[t])
        /\ SeenOK(log, th[t]) /\ ReadOK(log, th[t], it[t]) /\ LogInv(log) /\ Facts(log)
        /\ AppendedOK(log, appended)
    BY ThreadHas
  <1>1. th[t].pc = "deref" /\ Return(t, th[t].view, th[t].known)
    BY DEF Dereference
  <1>2. th[t].pc # "idle" /\ ~HoldsLock(th[t])
    BY <1>1 DEF HoldsLock
  <1>3. freed = Unset
    BY <1>2, NotFreed
  <1>4. PICK v \in Nat, n \in 0..MaxSize : v = th[t].view /\ n = th[t].known
    BY <1>0 DEF Frames
  <1>5. Return(t, v, n) /\ v <= Len(log) /\ Knows(log, v, n)
    BY <1>0, <1>1, <1>4 DEF SeenOK
  <1>6. UNCHANGED <<log, retired, freed, cast>> /\ owner' = owner /\ appended' = appended
    BY DEF Dereference
  <1>7. CASE th[t].op = "index"
    <2>1. it' = it
      BY <1>7 DEF Dereference
    <2>2. it' = [it EXCEPT ![t] = it[t]]
      BY <1>0, <2>1, ItSame
    <2> QED
      BY <1>0, <1>2, <1>3, <1>5, <1>6, <2>2, Returned
  <1>8. CASE th[t].op # "index"
    <2>1. th[t].arg = it[t].index /\ th[t].arg \in 0..MaxSize
      BY <1>0, <1>1, <1>8 DEF ReadOK, Frames
    <2>2. PICK z \in StoresIn(log, "size") :
             /\ Found(log, z, th[t].arg, th[t].dir) /\ Found(log, z, th[t].arg, Top(log))
      BY <1>1, DereferenceFinds
    <2>3. PICK a : a = AddressIn(log, th[t].dir, th[t].arg)
      OBVIOUS
    <2>4. a = At_(log, th[t].arg)
      BY <2>2, <2>3 DEF Found, At_
    <2>5. InBlock(log, th[t].arg)
      <3>1. /\ BlockOf(th[t].arg) \in Slots(log, Top(log))
            /\ EntryIn(log, Top(log), BlockOf(th[t].arg)) \in 1..z
        BY <2>2 DEF Found
      <3>2. z \in Nat
        BY <1>0 DEF Facts
      <3>3. EntryIn(log, Top(log), BlockOf(th[t].arg)) # 0
        BY <3>1, <3>2, SMT
      <3> QED
        BY <3>1, <3>3 DEF InBlock
    <2>6. a \in Nat \X Nat
      <3>1. th[t].arg \in Nat
        BY <2>1, BoundsAssumption, SMT
      <3> QED
        BY <1>0, <2>4, <2>5, <3>1, AddressType
    <2> DEFINE x == [it[t] EXCEPT !.elem = a]
    <2>7. it' = [it EXCEPT ![t] = x]
      BY <1>8, <2>3, OfTheLog DEF Dereference
    <2>8. x \in Its
      BY <1>0, <2>6 DEF Its
    <2>9. x.index = it[t].index /\ x.elem = a
      BY <1>0 DEF Its
    <2> HIDE DEF x
    <2>10. CacheOK(log, x)
      BY <2>1, <2>4, <2>5, <2>9 DEF CacheOK
    <2> QED
      BY <1>0, <1>2, <1>3, <1>5, <1>6, <2>7, <2>8, <2>10, Returned
  <1> QED
    BY <1>7, <1>8

\* begin() and end().
LEMMA IteratorBegun ==
    ASSUME DequeInv, NEW t \in Threads, Idle(t), NEW i \in 0..MaxSize, NEW v \in Nat,
           NEW n \in 0..MaxSize, ToConstructor(t, i, v, n), v <= Len(log), Knows(log, v, n),
           UNCHANGED <<log, owner, retired, appended, freed, cast>>
    PROVE  DequeInv'
  <1>0. th[t] \in Frames /\ SeenOK(log, th[t]) /\ ~HoldsLock(th[t]) /\ freed = Unset
    BY ThreadHas, IdleOutside
  <1> DEFINE f == [th[t] EXCEPT !.pc = "ctor", !.view = v, !.known = n]
             x == [index |-> i, elem |-> Unset]
  <1>1. th' = [th EXCEPT ![t] = f] /\ it' = [it EXCEPT ![t] = x]
    BY DEF ToConstructor
  <1>2. f \in Frames
    BY <1>0 DEF Frames, Pcs
  <1>3. x \in Its
    BY DEF Its
  <1>4. f.pc = "ctor" /\ f.view = v /\ f.dir = th[t].dir /\ f.known = n
    BY <1>0 DEF Frames
  <1>5. x.elem = Unset
    OBVIOUS
  <1> HIDE DEF f, x
  <1>6. SeenOK(log, f) /\ ReadOK(log, f, x) /\ CacheOK(log, x) /\ ~HoldsLock(f) /\ f.pc # "lock"
    BY <1>0, <1>4, <1>5 DEF SeenOK, ReadOK, CacheOK, HoldsLock
  <1> QED
    BY <1>0, <1>1, <1>2, <1>3, <1>6, GoesOn

LEMMA BeginStep ==
    ASSUME DequeInv, NEW t \in Threads, Begin(t)
    PROVE  DequeInv'
  <1>1. PICK v \in Nat, n \in 0..MaxSize : v = th[t].view /\ n = th[t].known
    BY ThreadHas DEF Frames
  <1>2. v <= Len(log) /\ Knows(log, v, n)
    BY <1>1, ThreadHas DEF SeenOK
  <1>3. Idle(t) /\ ToConstructor(t, 0, v, n) /\ UNCHANGED <<log, owner, retired, appended, freed, cast>>
    BY <1>1 DEF Begin
  <1>4. 0 \in 0..MaxSize
    BY BoundsAssumption, SMT
  <1> QED
    BY <1>2, <1>3, <1>4, IteratorBegun

LEMMA EndStep ==
    ASSUME DequeInv, NEW t \in Threads, End(t)
    PROVE  DequeInv'
  <1>1. PICK k \in SizeStores(t) : ToConstructor(t, SizeAt(k), ViewAfter(t, k), SizeAt(k))
    BY DEF End
  <1>2. /\ ViewAfter(t, k) \in Nat /\ ViewAfter(t, k) <= Len(log)
        /\ SizeAt(k) \in 0..MaxSize /\ Knows(log, ViewAfter(t, k), SizeAt(k))
    BY SizeLoaded
  <1>3. PICK v \in Nat, n \in 0..MaxSize : v = ViewAfter(t, k) /\ n = SizeAt(k)
    BY <1>2
  <1>4. ToConstructor(t, n, v, n) /\ v <= Len(log) /\ Knows(log, v, n)
    BY <1>1, <1>2, <1>3
  <1>5. Idle(t) /\ UNCHANGED <<log, owner, retired, appended, freed, cast>>
    BY DEF End
  <1> QED
    BY <1>4, <1>5, IteratorBegun

\* The iterator moves to i, within its block or without a cached element.
LEMMA MovesTo ==
    ASSUME DequeInv, NEW t \in Threads, Idle(t), NEW i \in 0..MaxSize, NEW a, Moves(t, i, a),
           \/ a = Unset
           \/ BlockOf(it[t].index) = BlockOf(i) /\ a = Shift(it[t].elem, i - it[t].index)
    PROVE  DequeInv'
  <1>0. /\ th[t] \in Frames /\ it[t] \in Its /\ th \in [Threads -> Frames] /\ SeenOK(log, th[t])
        /\ CacheOK(log, it[t]) /\ LogInv(log) /\ th[t].pc = "idle" /\ ~HoldsLock(th[t]) /\ freed = Unset
    BY ThreadHas, IdleOutside
  <1> DEFINE x == [index |-> i, elem |-> a]
  <1>1. it' = [it EXCEPT ![t] = x] /\ th' = th /\ UNCHANGED <<log, owner, retired, appended, freed, cast>>
    BY DEF Moves
  <1>2. th' = [th EXCEPT ![t] = th[t]]
    BY <1>0, <1>1, ThSame
  <1>3. ASSUME a # Unset
        PROVE  InBlock(log, i) /\ a = At_(log, i) /\ a \in Nat \X Nat
    <2>1. /\ BlockOf(it[t].index) = BlockOf(i) /\ a = Shift(it[t].elem, i - it[t].index)
          /\ it[t].elem # Unset
      BY <1>3 DEF Shift
    <2>2. InBlock(log, it[t].index) /\ it[t].elem = At_(log, it[t].index)
      BY <1>0, <2>1 DEF CacheOK
    <2>3. PICK j \in Nat, b \in {it[t].elem} : j = it[t].index
      <3>1. it[t].index \in 0..MaxSize
        BY <1>0 DEF Its
      <3>2. it[t].index \in Nat
        BY <3>1, BoundsAssumption, SMT
      <3> QED
        BY <3>2
    <2>4. i \in Nat
      BY BoundsAssumption, SMT
    <2>5. InBlock(log, j) /\ b = it[t].elem /\ b = At_(log, j) /\ BlockOf(j) = BlockOf(i)
      BY <2>1, <2>2, <2>3
    <2>6. InBlock(log, i) /\ <<b[1], b[2] + (i - j)>> = At_(log, i)
      BY <1>0, <2>4, <2>5, MovedCache
    <2>7. a = <<b[1], b[2] + (i - j)>>
      BY <2>1, <2>3, <2>5 DEF Shift
    <2>8. At_(log, i) \in Nat \X Nat
      BY <1>0, <2>4, <2>6, AddressType
    <2> QED
      BY <2>6, <2>7, <2>8
  <1>4. x \in Its
    BY <1>3 DEF Its
  <1>5. x.index = i /\ x.elem = a
    OBVIOUS
  <1> HIDE DEF x
  <1>6. CacheOK(log, x) /\ ReadOK(log, th[t], x) /\ th[t].pc # "lock"
    BY <1>0, <1>3, <1>5 DEF CacheOK, ReadOK
  <1> QED
    BY <1>0, <1>1, <1>2, <1>4, <1>6, GoesOn

LEMMA IteratorMoves ==
    ASSUME DequeInv, NEW t \in Threads, Increment(t) \/ Decrement(t) \/ Jump(t)
    PROVE  DequeInv'
  <1>0. it[t].index \in 0..MaxSize /\ th[t].known \in 0..MaxSize
    BY ThreadHas DEF Its, Frames
  <1>1. CASE Increment(t)
    <2>1. /\ Idle(t) /\ it[t].index < th[t].known
          /\ Moves(t, it[t].index + 1,
                   IF OffsetOf(it[t].index + 1) = 0 THEN Unset ELSE Shift(it[t].elem, 1))
      BY <1>1 DEF Increment
    <2>2. PICK j \in Nat, i \in 0..MaxSize : j = it[t].index /\ i = j + 1 /\ i - j = 1
      <3>1. /\ it[t].index \in Nat /\ it[t].index + 1 \in 0..MaxSize
            /\ (it[t].index + 1) - it[t].index = 1
        BY <1>0, <2>1, BoundsAssumption, SMT
      <3> QED
        BY <3>1
    <2>3. CASE OffsetOf(i) = 0
      <3>1. Moves(t, i, Unset)
        BY <2>1, <2>2, <2>3
      <3> QED
        BY <2>1, <3>1, MovesTo
    <2>4. CASE OffsetOf(i) # 0
      <3>1. Moves(t, i, Shift(it[t].elem, i - it[t].index))
        BY <2>1, <2>2, <2>4
      <3>2. BlockOf(it[t].index) = BlockOf(i)
        BY <2>2, <2>4, Neighbours
      <3> QED
        BY <2>1, <3>1, <3>2, MovesTo
    <2> QED
      BY <2>3, <2>4
  <1>2. CASE Decrement(t)
    <2>1. /\ Idle(t) /\ it[t].index > 0
          /\ Moves(t, it[t].index - 1,
                   IF OffsetOf(it[t].index) = 0 THEN Unset ELSE Shift(it[t].elem, -1))
      BY <1>2 DEF Decrement
    <2>2. PICK j \in 0..MaxSize, i \in 0..MaxSize :
              j = it[t].index /\ i = j - 1 /\ i - j = -1 /\ j = i + 1 /\ i \in Nat
      <3>1. /\ it[t].index - 1 \in 0..MaxSize /\ (it[t].index - 1) - it[t].index = -1
            /\ it[t].index = (it[t].index - 1) + 1 /\ it[t].index - 1 \in Nat
        BY <1>0, <2>1, BoundsAssumption, SMT
      <3> QED
        BY <1>0, <3>1
    <2>3. CASE OffsetOf(j) = 0
      <3>1. Moves(t, i, Unset)
        BY <2>1, <2>2, <2>3
      <3> QED
        BY <2>1, <3>1, MovesTo
    <2>4. CASE OffsetOf(j) # 0
      <3>1. Moves(t, i, Shift(it[t].elem, i - it[t].index))
        BY <2>1, <2>2, <2>4
      <3>2. BlockOf(it[t].index) = BlockOf(i)
        <4>1. BlockOf(i + 1) = BlockOf(i)
          BY <2>2, <2>4, Neighbours
        <4> QED
          BY <2>2, <4>1
      <3> QED
        BY <2>1, <3>1, <3>2, MovesTo
    <2> QED
      BY <2>3, <2>4
  <1>3. CASE Jump(t)
    <2>1. Idle(t)
      BY <1>3 DEF Jump
    <2>2. PICK i \in 0..th[t].known :
              Moves(t, i, IF BlockOf(i) = BlockOf(it[t].index)
                          THEN Shift(it[t].elem, i - it[t].index) ELSE Unset)
      BY <1>3 DEF Jump
    <2>3. i \in 0..MaxSize
      BY <1>0, BoundsAssumption, SMT
    <2>4. CASE BlockOf(i) = BlockOf(it[t].index)
      <3>1. Moves(t, i, Shift(it[t].elem, i - it[t].index))
        BY <2>2, <2>4
      <3> QED
        BY <2>1, <2>3, <2>4, <3>1, MovesTo
    <2>5. CASE BlockOf(i) # BlockOf(it[t].index)
      <3>1. Moves(t, i, Unset)
        BY <2>2, <2>5
      <3> QED
        BY <2>1, <2>3, <3>1, MovesTo
    <2> QED
      BY <2>4, <2>5
  <1> QED
    BY <1>1, <1>2, <1>3

-----------------------------------------------------------------------------
(* The writers.                                                            *)

LEMMA LockTaken ==
    ASSUME DequeInv, NEW t \in Threads, Lock(t)
    PROVE  DequeInv'
  <1>0. /\ th[t] \in Frames /\ it[t] \in Its /\ it \in [Threads -> Its] /\ CacheOK(log, it[t])
        /\ SeenOK(log, th[t]) /\ LogInv(log) /\ Facts(log) /\ AppendedOK(log, appended)
        /\ (th[t].pc = "lock" => th[t].op \in WriterOps)
    BY ThreadHas
  <1>1. /\ th[t].pc = "lock" /\ owner = NoThread /\ owner' = t
        /\ (th[t].op = "emplace_back" => SizeIn(log) < MaxSize)
    BY OfTheLog DEF Lock
  <1>2. freed = Unset
    <2>1. th[t].pc # "idle"
      BY <1>1
    <2> QED
      BY <2>1, NotFreed
  <1>3. PICK v \in Nat, i \in 0..MaxSize : v = Len(log) /\ i = SizeIn(log)
    BY <1>0 DEF Facts
  <1> DEFINE f == [th[t] EXCEPT !.pc = "grow", !.view = v, !.i = i]
  <1>4. th' = [th EXCEPT ![t] = f]
    BY <1>3, OfTheLog DEF Lock, Now
  <1>5. f \in Frames
    BY <1>0 DEF Frames, Pcs
  <1>6. /\ f.pc = "grow" /\ f.op = th[t].op /\ f.i = i /\ f.view = v /\ f.dir = th[t].dir
        /\ f.known = th[t].known
    BY <1>0 DEF Frames
  <1> HIDE DEF f
  <1>7. v <= Len(log) /\ Knows(log, v, th[t].known) /\ th[t].dir <= Len(log)
    <2>1. PICK u \in Nat : u = th[t].view /\ u <= Len(log)
      BY <1>0 DEF Frames, SeenOK
    <2>2. u <= v /\ v <= Len(log)
      BY <1>3, <2>1, SMT
    <2>3. Knows(log, u, th[t].known) /\ th[t].dir <= Len(log)
      BY <1>0, <2>1 DEF SeenOK
    <2> QED
      BY <1>0, <2>2, <2>3, KnowsMore
  <1>8. SeenOK(log, f) /\ ReadOK(log, f, it[t]) /\ HoldsLock(f) /\ f.pc # "lock"
    BY <1>6, <1>7 DEF SeenOK, ReadOK, HoldsLock
  <1>9. Holder(log, t, f)
    BY <1>0, <1>1, <1>3, <1>6 DEF Holder
  <1>10. Local(log, f, it[t])
    BY <1>0, <1>8 DEF Local
  <1>11. it' = [it EXCEPT ![t] = it[t]]
    BY <1>0, ItSame DEF Lock
  <1>12. Becomes(t, f, it[t]) /\ LockStep(t, f) /\ ThreadOK(log, t, f, it[t])
    BY <1>0, <1>1, <1>4, <1>5, <1>8, <1>9, <1>10, <1>11 DEF Becomes, LockStep, ThreadOK
  <1>13. UNCHANGED <<log, retired, freed, cast>> /\ AppendedOK(log, appended')
    BY <1>0 DEF Lock
  <1> QED
    BY <1>2, <1>12, <1>13, KeepLog

\* The holder's frame.
LEMMA HolderHas ==
    ASSUME DequeInv, NEW t \in Threads, HoldsLock(th[t])
    PROVE  /\ Holder(log, t, th[t]) /\ owner = t /\ freed = Unset
           /\ th[t].view = Len(log) /\ th[t].op \in WriterOps /\ th[t].i \in 0..MaxSize
           /\ th[t].arg \in 0..MaxSize /\ th[t].known \in 0..MaxSize
           /\ Knows(log, Len(log), th[t].known) /\ Len(log) \in Nat
  <1>1. Holder(log, t, th[t]) /\ owner = t /\ th[t] \in Frames /\ SeenOK(log, th[t]) /\ Facts(log)
    BY ThreadHas
  <1>2. freed = Unset
    <2>1. th[t].pc # "idle"
      BY DEF HoldsLock
    <2> QED
      BY <2>1, NotFreed
  <1>3. th[t].view = Len(log) /\ th[t].op \in WriterOps
    BY <1>1 DEF Holder
  <1>4. /\ th[t].i \in 0..MaxSize /\ th[t].arg \in 0..MaxSize /\ th[t].known \in 0..MaxSize
    BY <1>1 DEF Frames
  <1> QED
    BY <1>1, <1>2, <1>3, <1>4 DEF SeenOK, Facts

\* The lock is released.
LEMMA Released ==
    ASSUME DequeInv, NEW t \in Threads, HoldsLock(th[t]), NEW n \in 0..MaxSize, Unlock(t, n),
           Knows(log, Len(log), n), AppendedOK(log, appended'),
           UNCHANGED <<log, retired, it, freed, cast>>
    PROVE  DequeInv'
  <1>1. owner = t /\ freed = Unset /\ th[t].view = Len(log) /\ Len(log) \in Nat
    BY HolderHas
  <1>2. it[t] \in Its /\ it \in [Threads -> Its] /\ CacheOK(log, it[t])
    BY ThreadHas
  <1>3. it' = [it EXCEPT ![t] = it[t]]
    BY <1>2, ItSame
  <1>4. PICK v \in Nat : v = Len(log)
    BY <1>1
  <1>5. v <= Len(log)
    BY <1>4, SMT
  <1>6. Return(t, v, n) /\ owner' = NoThread /\ Knows(log, v, n)
    BY <1>1, <1>4 DEF Unlock
  <1> QED
    BY <1>1, <1>2, <1>3, <1>5, <1>6, Returned

LEMMA KnowsSize ==
    ASSUME NEW l, LogInv(l)
    PROVE  Knows(l, Len(l), SizeIn(l)) /\ SizeIn(l) \in 0..MaxSize
  <1>1. Facts(l)
    BY LogFacts
  <1>2. SizeIn(l) \in 0..MaxSize
    BY <1>1 DEF Facts
  <1>3. SizeIn(l) <= SizeIn(l)
    BY <1>2, BoundsAssumption, SMT
  <1>4. \A z \in StoresIn(l, "size") : z <= Len(l)
    <2> TAKE z \in StoresIn(l, "size")
    <2>1. z \in 1..Len(l) /\ Len(l) \in Nat
      BY <1>1 DEF Facts
    <2> QED
      BY <2>1, SMT
  <1>5. SizeIn(l) # 0 => \E z \in StoresIn(l, "size") : l[z].val = SizeIn(l)
    BY <1>1 DEF Facts
  <1> QED
    BY <1>2, <1>3, <1>4, <1>5 DEF Knows

LEMMA NothingToDoStep ==
    ASSUME DequeInv, NEW t \in Threads, NothingToDo(t)
    PROVE  DequeInv'
  <1>1. HoldsLock(th[t])
    BY DEF NothingToDo, HoldsLock
  <1>2. LogInv(log) /\ AppendedOK(log, appended)
    BY ThreadHas
  <1>3. PICK n \in 0..MaxSize : n = SizeIn(log) /\ Knows(log, Len(log), n)
    BY <1>2, KnowsSize
  <1>4. Unlock(t, n) /\ UNCHANGED <<log, retired, it, freed, cast>> /\ AppendedOK(log, appended')
    BY <1>2, <1>3, OfTheLog DEF NothingToDo
  <1> QED
    BY <1>1, <1>3, <1>4, Released

LEMMA BadAllocStep ==
    ASSUME DequeInv, NEW t \in Threads, BadAlloc(t)
    PROVE  DequeInv'
  <1>1. HoldsLock(th[t])
    BY DEF BadAlloc, Working, HoldsLock
  <1>2. th[t].known \in 0..MaxSize /\ Knows(log, Len(log), th[t].known)
    BY <1>1, HolderHas
  <1>3. AppendedOK(log, appended)
    BY ThreadHas
  <1>4. Unlock(t, th[t].known) /\ UNCHANGED <<log, retired, it, freed, cast>> /\ AppendedOK(log, appended')
    BY <1>3 DEF BadAlloc
  <1>5. PICK n \in 0..MaxSize : n = th[t].known
    BY <1>2
  <1> QED
    BY <1>1, <1>2, <1>4, <1>5, Released

LEMMA FinishStep ==
    ASSUME DequeInv, NEW t \in Threads, Finish(t)
    PROVE  DequeInv'
  <1>0. LogInv(log) /\ AppendedOK(log, appended) /\ Facts(log)
    BY ThreadHas
  <1>1. HoldsLock(th[t]) /\ th[t].pc = "done"
    BY DEF Finish, HoldsLock
  <1>2. /\ th[t].known \in 0..MaxSize /\ Knows(log, Len(log), th[t].known)
        /\ th[t].i \in 0..MaxSize /\ Holder(log, t, th[t])
    BY <1>1, HolderHas
  <1>3. UNCHANGED <<log, retired, it, freed, cast>>
    BY DEF Finish
  <1>4. AppendedOK(log, appended')
    <2>1. CASE th[t].op = "emplace_back"
      <3>1. appended' = appended \cup {<<th[t].i - 1, t>>}
        BY <2>1 DEF Finish
      <3>2. th[t].i = SizeIn(log) /\ th[t].i > 0 /\ By(log, th[t].i - 1) = t
        BY <1>1, <1>2, <2>1 DEF Holder
      <3>3. th[t].i - 1 \in 0..(SizeIn(log) - 1)
        BY <1>2, <3>2, BoundsAssumption, SMT
      <3>4. PICK p \in {<<th[t].i - 1, t>>} : p[1] = th[t].i - 1 /\ p[2] = t
        BY SMT
      <3> QED
        BY <1>0, <3>1, <3>2, <3>3, <3>4 DEF AppendedOK
    <2>2. CASE th[t].op # "emplace_back"
      BY <1>0, <2>2 DEF Finish
    <2> QED
      BY <2>1, <2>2
  <1>5. CASE th[t].op = "reserve"
    <2>1. Unlock(t, th[t].known)
      BY <1>5 DEF Finish
    <2>2. PICK n \in 0..MaxSize : n = th[t].known
      BY <1>2
    <2> QED
      BY <1>1, <1>2, <1>3, <1>4, <2>1, <2>2, Released
  <1>6. CASE th[t].op # "reserve"
    <2>1. Unlock(t, th[t].i)
      BY <1>6 DEF Finish
    <2>2. PICK n \in 0..MaxSize : n = th[t].i /\ n = SizeIn(log)
      BY <1>1, <1>2, <1>6 DEF Holder
    <2>3. Knows(log, Len(log), n)
      BY <1>0, <2>2, KnowsSize
    <2> QED
      BY <1>1, <1>3, <1>4, <2>1, <2>2, <2>3, Released
  <1> QED
    BY <1>5, <1>6

\* A directory that is full reaches the next index.
LEMMA SizeBlock ==
    ASSUME NEW l, LogInv(l)
    PROVE  /\ CapacityIn(l, Top(l)) \in Nat /\ BlockOf(SizeIn(l)) \in Nat
           /\ BlockOf(SizeIn(l)) <= CapacityIn(l, Top(l))
  <1>0. Facts(l)
    BY LogFacts
  <1>1. CapacityIn(l, Top(l)) \in Nat
    <2>1. CASE Top(l) = 0
      BY <2>1, SMT DEF CapacityIn
    <2>2. CASE Top(l) # 0
      <3>1. Top(l) \in StoresIn(l, "dir")
        BY <1>0, <2>2 DEF Facts
      <3> QED
        BY <2>2, <3>1 DEF CapacityIn, LogInv, DirsOK
    <2> QED
      BY <2>1, <2>2
  <1>2. PICK n \in Nat, c \in Nat : n = SizeIn(l) /\ c = CapacityIn(l, Top(l))
    <2>1. SizeIn(l) \in 0..MaxSize
      BY <1>0 DEF Facts
    <2>2. SizeIn(l) \in Nat
      BY <2>1, BoundsAssumption, SMT
    <2> QED
      BY <1>1, <2>2
  <1>3. BlockOf(n) \in Nat
    BY Position
  <1>4. BlockOf(n) <= c
    <2>1. CASE n = 0
      <3>1. 0 <= c
        BY SMT
      <3> QED
        BY <2>1, <3>1, FirstBlock
    <2>2. CASE n # 0
      <3>1. PICK m \in Nat : n = m + 1 /\ m \in 0..(n - 1)
        <4>1. n - 1 \in Nat /\ n = (n - 1) + 1 /\ n - 1 \in 0..(n - 1)
          BY <2>2, SMT
        <4> QED
          BY <4>1
      <3>2. Ready(l, m)
        BY <1>2, <3>1, BelowSize
      <3>3. BlockOf(m) \in 0..(c - 1)
        BY <1>2, <3>2 DEF Ready, InBlock, Slots
      <3>4. BlockOf(m + 1) <= BlockOf(m) + 1
        BY Neighbours
      <3>5. PICK a \in Nat, b \in Nat : a = BlockOf(n) /\ b = BlockOf(m)
        BY <1>3, Position
      <3>6. a <= b + 1 /\ b \in 0..(c - 1)
        BY <3>1, <3>3, <3>4, <3>5
      <3>7. a <= c
        BY <3>6, SMT
      <3> QED
        BY <3>5, <3>7
    <2> QED
      BY <2>1, <2>2
  <1> QED
    BY <1>1, <1>2, <1>3, <1>4

\* The capacity asked for holds the elements of the call.
Fits(t, c) ==
    /\ BlockOf(th[t].i) < c
    /\ th[t].op = "resize" => th[t].i < th[t].arg /\ \A j \in 0..(th[t].arg - 1) : BlockOf(j) < c

LEMMA CapacityFits ==
    ASSUME DequeInv, NEW t \in Threads, Working(t)
    PROVE  /\ NewCapacity(t) \in Nat /\ directory_capacity_ \in Nat
           /\ th[t].op # "reserve" => Fits(t, NewCapacity(t))
  <1>0. LogInv(log) /\ Facts(log)
    BY ThreadHas
  <1>1. HoldsLock(th[t]) /\ th[t].pc = "grow"
    BY DEF Working, HoldsLock
  <1>2. /\ Holder(log, t, th[t]) /\ th[t].op \in WriterOps /\ th[t].i \in 0..MaxSize
        /\ th[t].arg \in 0..MaxSize
    BY <1>1, HolderHas
  <1>3. PICK c \in Nat, b \in Nat :
            c = directory_capacity_ /\ b = BlockOf(th[t].i) /\ th[t].i = SizeIn(log) /\ b <= c
    <2>1. th[t].i = SizeIn(log)
      BY <1>1, <1>2 DEF Holder
    <2> QED
      BY <1>0, <2>1, SizeBlock, OfTheLog
  <1>4. PICK n \in Nat : n = th[t].arg
    <2>1. th[t].arg \in Nat
      BY <1>2, BoundsAssumption, SMT
    <2> QED
      BY <2>1
  <1>5. BlocksFor(n) \in Nat /\ \A j \in 0..(n - 1) : BlockOf(j) < BlocksFor(n)
    BY BlocksEnough
  <1>6. CASE th[t].op = "emplace_back"
    <2>1. NewCapacity(t) = IF b < c THEN c ELSE IF c = 0 THEN 1 ELSE c * 2
      BY <1>3, <1>6 DEF NewCapacity
    <2>2. NewCapacity(t) \in Nat /\ b < NewCapacity(t)
      <3>1. PICK d : d = NewCapacity(t)
        OBVIOUS
      <3>2. d = IF b < c THEN c ELSE IF c = 0 THEN 1 ELSE c * 2
        BY <2>1, <3>1
      <3>3. d \in Nat /\ b < d
        BY <1>3, <3>2, SMT
      <3> QED
        BY <3>1, <3>3
    <2>3. Fits(t, NewCapacity(t))
      BY <1>3, <1>6, <2>2 DEF Fits
    <2> QED
      BY <1>3, <2>2, <2>3
  <1>7. CASE th[t].op = "resize"
    <2>1. NewCapacity(t) = BlocksFor(n)
      BY <1>4, <1>7 DEF NewCapacity
    <2>2. n > th[t].i
      BY <1>3, <1>4, <1>7, OfTheLog DEF Working
    <2>3. th[t].i < n /\ th[t].i \in 0..(n - 1)
      BY <1>2, <2>2, BoundsAssumption, SMT
    <2>4. Fits(t, NewCapacity(t))
      BY <1>4, <1>5, <2>1, <2>3 DEF Fits
    <2> QED
      BY <1>3, <1>5, <2>1, <2>4
  <1>8. CASE th[t].op = "reserve"
    <2>1. NewCapacity(t) = IF n > capacity THEN BlocksFor(n) ELSE 0
      BY <1>4, <1>8 DEF NewCapacity
    <2>2. NewCapacity(t) \in Nat
      <3>1. CASE n > capacity
        BY <1>5, <2>1, <3>1
      <3>2. CASE ~(n > capacity)
        <4>1. 0 \in Nat
          BY SMT
        <4> QED
          BY <2>1, <3>2, <4>1
      <3> QED
        BY <3>1, <3>2
    <2> QED
      BY <1>3, <1>8, <2>2
  <1> QED
    BY <1>2, <1>6, <1>7, <1>8 DEF WriterOps

\* The holder goes on, and stores nothing.
LEMMA HolderGoesOn ==
    ASSUME DequeInv, NEW t \in Threads, HoldsLock(th[t]), NEW f \in Frames,
           th' = [th EXCEPT ![t] = f], SeenOK(log, f), HoldsLock(f), Holder(log, t, f),
           UNCHANGED <<log, owner, retired, it, appended, freed, cast>>
    PROVE  DequeInv'
  <1>0. /\ it[t] \in Its /\ it \in [Threads -> Its] /\ CacheOK(log, it[t]) /\ AppendedOK(log, appended)
    BY ThreadHas
  <1>1. freed = Unset
    BY HolderHas
  <1>2. f.pc # "lock" /\ ReadOK(log, f, it[t])
    BY DEF HoldsLock, ReadOK
  <1>3. it' = [it EXCEPT ![t] = it[t]]
    BY <1>0, ItSame
  <1>4. Becomes(t, f, it[t]) /\ LockStep(t, f) /\ ThreadOK(log, t, f, it[t])
    BY <1>0, <1>2, <1>3 DEF Becomes, LockStep, ThreadOK, Local
  <1>5. AppendedOK(log, appended') /\ UNCHANGED <<log, retired, freed, cast>>
    BY <1>0
  <1> QED
    BY <1>1, <1>4, <1>5, KeepLog

LEMMA RoomEnoughStep ==
    ASSUME DequeInv, NEW t \in Threads, RoomEnough(t)
    PROVE  DequeInv'
  <1>0. th[t] \in Frames /\ SeenOK(log, th[t]) /\ LogInv(log) /\ Facts(log)
    BY ThreadHas
  <1>1. Working(t) /\ ~Grows(t) /\ th[t].op # "reserve"
    BY DEF RoomEnough
  <1>2. HoldsLock(th[t]) /\ th[t].pc = "grow"
    BY <1>1 DEF Working, HoldsLock
  <1>3. Holder(log, t, th[t]) /\ th[t].op \in WriterOps /\ th[t].i \in 0..MaxSize /\ th[t].arg \in 0..MaxSize
    BY <1>2, HolderHas
  <1>4. PICK c \in Nat, d \in Nat :
            c = CapacityIn(log, Top(log)) /\ d = NewCapacity(t) /\ ~(d > c) /\ Fits(t, d)
    BY <1>1, CapacityFits, OfTheLog DEF Grows
  <1>5. ASSUME NEW j \in Nat, BlockOf(j) < d PROVE BlockOf(j) \in Slots(log, Top(log))
    <2>1. PICK b \in Nat : b = BlockOf(j)
      BY Position
    <2>2. b \in 0..(c - 1)
      BY <1>4, <1>5, <2>1, SMT
    <2> QED
      BY <1>4, <2>1, <2>2 DEF Slots
  <1>6. th[t].i \in Nat /\ \A j \in 0..(th[t].arg - 1) : j \in Nat
    BY <1>3, BoundsAssumption, SMT
  <1>7. /\ BlockOf(th[t].i) \in Slots(log, Top(log))
        /\ th[t].op = "resize" =>
             th[t].i < th[t].arg /\ \A j \in 0..(th[t].arg - 1) : BlockOf(j) \in Slots(log, Top(log))
    BY <1>4, <1>5, <1>6 DEF Fits
  <1> DEFINE f == [th[t] EXCEPT !.pc = "block"]
  <1>8. th' = [th EXCEPT ![t] = f]
    BY DEF RoomEnough
  <1>9. f \in Frames
    BY <1>0 DEF Frames, Pcs
  <1>10. /\ f.pc = "block" /\ f.op = th[t].op /\ f.i = th[t].i /\ f.arg = th[t].arg
         /\ f.view = th[t].view /\ f.dir = th[t].dir /\ f.known = th[t].known
    BY <1>0 DEF Frames
  <1> HIDE DEF f
  <1>11. SeenOK(log, f) /\ HoldsLock(f)
    BY <1>0, <1>10 DEF SeenOK, HoldsLock
  <1>12. /\ f.op # "reserve" /\ f.i = SizeIn(log) /\ f.view = Len(log)
         /\ f.op = "emplace_back" => f.i < MaxSize
    BY <1>1, <1>2, <1>3, <1>10 DEF Holder
  <1>13. SizeIn(log) <= f.i /\ \A j \in SizeIn(log)..(f.i - 1) : Ready(log, j)
    <2>1. PICK n \in 0..MaxSize : n = SizeIn(log)
      BY <1>0 DEF Facts
    <2>2. n <= n /\ \A j \in n..(n - 1) : FALSE
      BY BoundsAssumption, SMT
    <2> QED
      BY <1>12, <2>1, <2>2
  <1>14. Holder(log, t, f)
    BY <1>3, <1>7, <1>10, <1>12, <1>13 DEF Holder
  <1>15. UNCHANGED <<log, owner, retired, it, appended, freed, cast>>
    BY DEF RoomEnough
  <1> QED
    BY <1>2, <1>8, <1>9, <1>11, <1>14, <1>15, HolderGoesOn

LEMMA BlockPresentStep ==
    ASSUME DequeInv, NEW t \in Threads, BlockPresent(t)
    PROVE  DequeInv'
  <1>0. th[t] \in Frames /\ SeenOK(log, th[t])
    BY ThreadHas
  <1>1. th[t].pc = "block" /\ HoldsLock(th[t]) /\ EntryIn(log, Top(log), BlockOf(th[t].i)) # 0
    BY OfTheLog DEF BlockPresent, HasBlock, HoldsLock
  <1>2. Holder(log, t, th[t])
    BY <1>1, HolderHas
  <1> DEFINE f == [th[t] EXCEPT !.pc = "make"]
  <1>3. th' = [th EXCEPT ![t] = f]
    BY DEF BlockPresent
  <1>4. f \in Frames
    BY <1>0 DEF Frames, Pcs
  <1>5. /\ f.pc = "make" /\ f.op = th[t].op /\ f.i = th[t].i /\ f.arg = th[t].arg
        /\ f.view = th[t].view /\ f.dir = th[t].dir /\ f.known = th[t].known
    BY <1>0 DEF Frames
  <1> HIDE DEF f
  <1>6. SeenOK(log, f) /\ HoldsLock(f)
    BY <1>0, <1>5 DEF SeenOK, HoldsLock
  <1>7. Holder(log, t, f)
    BY <1>1, <1>2, <1>5 DEF Holder, InBlock
  <1>8. UNCHANGED <<log, owner, retired, it, appended, freed, cast>>
    BY DEF BlockPresent
  <1> QED
    BY <1>1, <1>3, <1>4, <1>6, <1>7, <1>8, HolderGoesOn

\* The frame of t after a store: at pc, with index i.
StoredFrame(t, pc, i, f) ==
    /\ f.pc = pc /\ f.i = i /\ f.op = th[t].op /\ f.arg = th[t].arg /\ f.view = Len(log')

\* The holder stores w.
LEMMA Wrote ==
    ASSUME DequeInv, NEW t \in Threads, HoldsLock(th[t]),
           NEW w \in Records, NEW pc \in {"block", "make", "publish", "done"}, NEW i \in 0..MaxSize,
           Write(t, w, pc, i), LogInv(log'), Grown(log, log'), DirsKept',
           \A f : StoredFrame(t, pc, i, f) => Holder(log', t, f),
           UNCHANGED <<owner, it, appended, freed, cast>>
    PROVE  DequeInv'
  <1>0. th[t] \in Frames /\ it[t] \in Its /\ SeenOK(log, th[t]) /\ LogInv(log)
    BY ThreadHas
  <1>1. freed = Unset /\ Knows(log, Len(log), th[t].known)
    BY HolderHas
  <1>2. Grows_(log, w, log')
    BY <1>0 DEF Grows_, LogInv, Write
  <1>3. PICK v \in Nat : v = Now + 1 /\ v = Len(log')
    <2>1. Added(log, w, log')
      BY <1>2, StoreAdded
    <2> QED
      BY <2>1 DEF Added, Now
  <1> DEFINE f == [th[t] EXCEPT !.pc = pc, !.view = v, !.i = i]
  <1>4. th' = [th EXCEPT ![t] = f]
    BY <1>3 DEF Write
  <1>5. f \in Frames
    BY <1>0 DEF Frames, Pcs
  <1>6. /\ f.pc = pc /\ f.op = th[t].op /\ f.i = i /\ f.arg = th[t].arg
        /\ f.view = v /\ f.dir = th[t].dir /\ f.known = th[t].known
    BY <1>0 DEF Frames
  <1> HIDE DEF f
  <1>7. Holder(log', t, f)
    <2>1. StoredFrame(t, pc, i, f)
      BY <1>3, <1>6 DEF StoredFrame
    <2> QED
      BY <2>1
  <1>8. SeenOK(log', f)
    <2>1. PICK d \in Nat : d = th[t].dir /\ d <= Len(log)
      BY <1>0 DEF Frames, SeenOK
    <2>2. Len(log) \in Nat /\ Len(log) <= Len(log')
      BY DEF Grown
    <2>3. d <= Len(log') /\ v <= v /\ Len(log) <= v
      BY <1>3, <2>1, <2>2, SMT
    <2>4. Knows(log', v, th[t].known)
      <3>1. \A z \in StoresIn(log, "size") : z \in StoresIn(log', "size") /\ log'[z] = log[z]
        BY DEF Grown, StoresIn
      <3>2. Knows(log', Len(log), th[t].known)
        BY <1>1, <3>1 DEF Knows
      <3> QED
        BY <2>2, <2>3, <3>2, KnowsMore
    <2> QED
      BY <1>3, <1>6, <2>1, <2>3, <2>4 DEF SeenOK
  <1>9. HoldsLock(f)
    BY <1>6 DEF HoldsLock
  <1> QED
    BY <1>1, <1>4, <1>5, <1>7, <1>8, <1>9, GrowLog

LEMMA ReadyKept ==
    ASSUME NEW l, NEW l2, Grown(l, l2), NEW j, Ready(l, j)
    PROVE  Ready(l2, j)
  <1>1. InBlock(l2, j) /\ At_(l2, j) = At_(l, j) /\ MakesIn(l, At_(l, j)) \subseteq MakesIn(l2, At_(l, j))
    BY DEF Ready, Grown
  <1> QED
    BY <1>1 DEF Ready

\* A store that is not of a directory leaves the directories.
LEMMA DirsStay ==
    ASSUME DequeInv, NEW w \in Records, Grows_(log, w, log'), w.op # "dir", retired' = retired
    PROVE  DirsKept'
  <1>1. LogInv(log) /\ DirsKept
    BY DEF DequeInv
  <1>2. Top(log') = Top(log)
    BY <1>1, TopKept DEF SameTop
  <1>3. AddedOf(log, w, log', "dir")
    BY StoresAdded
  <1>4. StoresIn(log', "dir") = StoresIn(log, "dir")
    BY <1>3 DEF AddedOf
  <1> QED
    BY <1>1, <1>2, <1>4 DEF DirsKept

LEMMA ReallocateStep ==
    ASSUME DequeInv, NEW t \in Threads, Reallocate_directory(t)
    PROVE  DequeInv'
  <1>0. LogInv(log) /\ Facts(log)
    BY ThreadHas
  <1>1. Working(t) /\ Grows(t)
    BY DEF Reallocate_directory
  <1>2. HoldsLock(th[t]) /\ th[t].pc = "grow"
    BY <1>1 DEF Working, HoldsLock
  <1>3. /\ Holder(log, t, th[t]) /\ th[t].op \in WriterOps /\ th[t].i \in 0..MaxSize
        /\ th[t].arg \in 0..MaxSize
    BY <1>2, HolderHas
  <1>4. PICK c \in Nat, d \in Nat :
            /\ c = CapacityIn(log, Top(log)) /\ d = NewCapacity(t) /\ d > c
            /\ th[t].op # "reserve" => Fits(t, d)
    BY <1>1, CapacityFits, OfTheLog DEF Grows
  <1> DEFINE w == [op |-> "dir", cap |-> d, blocks |-> Copied(log, d)]
             pc == IF th[t].op = "reserve" THEN "done" ELSE "block"
  <1>5. Write(t, w, pc, th[t].i)
    <2>1. DirectoryFrom(d) = Copied(log, d)
      BY OfTheLog DEF DirectoryFrom, Copied
    <2> QED
      BY <1>4, <2>1 DEF Reallocate_directory
  <1>6. Copied(log, d) \in [0..(d - 1) -> Nat]
    <2>1. ASSUME NEW s \in 0..(d - 1), s < c PROVE EntryIn(log, Top(log), s) \in Nat
      <3>1. s \in 0..(c - 1)
        BY <2>1, SMT
      <3>2. s \in Slots(log, Top(log))
        BY <1>4, <3>1 DEF Slots
      <3>3. Top(log) \in StoresIn(log, "dir")
        BY <1>0, <3>2, TopIsDir
      <3>4. CASE EntryIn(log, Top(log), s) = 0
        BY <3>4, SMT
      <3>5. CASE EntryIn(log, Top(log), s) # 0
        <4>1. EntryIn(log, Top(log), s) \in StoresIn(log, "entry")
          BY <1>0, <3>2, <3>3, <3>5 DEF LogInv, EntriesOK
        <4> QED
          BY <1>0, <4>1 DEF Facts
      <3> QED
        BY <3>4, <3>5
    <2>2. 0 \in Nat
      BY SMT
    <2>3. ASSUME NEW s \in 0..(d - 1)
          PROVE  (IF s < CapacityIn(log, Top(log)) THEN EntryIn(log, Top(log), s) ELSE 0) \in Nat
      <3>1. CASE s < c
        BY <1>4, <2>1, <3>1
      <3>2. CASE ~(s < c)
        BY <1>4, <2>2, <3>2
      <3> QED
        BY <3>1, <3>2
    <2> QED
      BY <2>3 DEF Copied
  <1>7. w \in Records
    <2>1. Copied(log, d) \in UNION {[0..(e - 1) -> Nat] : e \in Nat}
      BY <1>6
    <2>2. w \in [op : {"dir"}, cap : Nat, blocks : UNION {[0..(e - 1) -> Nat] : e \in Nat}]
      BY <2>1
    <2> QED
      BY <2>2 DEF Records
  <1>8. w.op = "dir" /\ w.cap = d /\ w.blocks = Copied(log, d)
    OBVIOUS
  <1>9. retired' = retired \cup ({Top(log)} \ {0}) /\ UNCHANGED <<owner, it, appended, freed, cast>>
    BY OfTheLog DEF Reallocate_directory
  <1> HIDE DEF w
  <1>10. Grows_(log, w, log')
    BY <1>0, <1>5, <1>7 DEF Grows_, LogInv, Write
  <1>11. MovedTo(log, w, log')
    <2>1. w.cap \in Nat /\ w.cap > CapacityIn(log, Top(log)) /\ w.blocks = Copied(log, w.cap)
      BY <1>4, <1>8
    <2> QED
      BY <1>0, <1>8, <1>10, <2>1, StoreDir
  <1>12. /\ LogInv(log') /\ Grown(log, log') /\ SizeIn(log') = SizeIn(log)
         /\ Slots(log', Top(log')) = 0..(d - 1)
         /\ StoresIn(log', "dir") = StoresIn(log, "dir") \cup {Top(log')} /\ Top(log') # 0
    BY <1>8, <1>11 DEF MovedTo
  <1>13. DirsKept'
    <2>1. retired' = StoresIn(log, "dir")
      BY <1>9 DEF DequeInv, DirsKept
    <2> QED
      BY <1>12, <2>1 DEF DirsKept
  <1>14. pc \in {"block", "make", "publish", "done"}
    OBVIOUS
  <1>15. ASSUME NEW f, StoredFrame(t, pc, th[t].i, f) PROVE Holder(log', t, f)
    <2>0. /\ f.pc = pc /\ f.i = th[t].i /\ f.op = th[t].op /\ f.arg = th[t].arg
          /\ f.view = Len(log') /\ f.i = SizeIn(log') /\ f.op \in WriterOps
      <3>1. th[t].i = SizeIn(log)
        BY <1>2, <1>3 DEF Holder
      <3> QED
        BY <1>3, <1>12, <1>15, <3>1 DEF StoredFrame
    <2>1. CASE th[t].op = "reserve"
      <3>1. f.pc = "done" /\ f.op = "reserve"
        BY <2>0, <2>1
      <3> QED
        BY <2>0, <3>1 DEF Holder
    <2>2. CASE th[t].op # "reserve"
      <3>1. f.pc = "block" /\ f.op # "reserve"
        BY <2>0, <2>2
      <3>2. Fits(t, d)
        BY <1>4, <2>2
      <3>3. ASSUME NEW j \in Nat, BlockOf(j) < d PROVE BlockOf(j) \in Slots(log', Top(log'))
        <4>1. PICK b \in Nat : b = BlockOf(j)
          BY Position
        <4>2. b \in 0..(d - 1)
          BY <3>3, <4>1, SMT
        <4> QED
          BY <1>12, <4>1, <4>2
      <3>4. th[t].i \in Nat /\ \A j \in 0..(th[t].arg - 1) : j \in Nat
        BY <1>3, BoundsAssumption, SMT
      <3>5. /\ BlockOf(f.i) \in Slots(log', Top(log'))
            /\ f.op = "resize" =>
                 f.i < f.arg /\ \A j \in 0..(f.arg - 1) : BlockOf(j) \in Slots(log', Top(log'))
        BY <2>0, <3>2, <3>3, <3>4 DEF Fits
      <3>6. SizeIn(log') <= f.i /\ \A j \in SizeIn(log')..(f.i - 1) : Ready(log', j)
        <4>1. PICK n \in 0..MaxSize : n = f.i
          BY <1>3, <2>0
        <4>2. n <= n /\ \A j \in n..(n - 1) : FALSE
          BY BoundsAssumption, SMT
        <4> QED
          BY <2>0, <4>1, <4>2
      <3>7. f.op = "emplace_back" => f.i < MaxSize
        BY <1>2, <1>3, <2>0 DEF Holder
      <3> QED
        BY <2>0, <3>1, <3>5, <3>6, <3>7 DEF Holder
    <2> QED
      BY <2>1, <2>2
  <1> HIDE DEF pc
  <1>16. PICK i \in 0..MaxSize : i = th[t].i
    BY <1>3
  <1> QED
    BY <1>2, <1>5, <1>7, <1>9, <1>12, <1>13, <1>14, <1>15, <1>16, Wrote

LEMMA AllocateStep ==
    ASSUME DequeInv, NEW t \in Threads, Allocate_block(t)
    PROVE  DequeInv'
  <1>0. LogInv(log) /\ Facts(log)
    BY ThreadHas
  <1>1. th[t].pc = "block" /\ HoldsLock(th[t]) /\ EntryIn(log, Top(log), BlockOf(th[t].i)) = 0
    BY OfTheLog DEF Allocate_block, HasBlock, HoldsLock
  <1>2. Holder(log, t, th[t]) /\ th[t].i \in 0..MaxSize
    BY <1>1, HolderHas
  <1>3. BlockOf(th[t].i) \in Slots(log, Top(log)) /\ th[t].op # "reserve"
    BY <1>1, <1>2 DEF Holder
  <1>4. PICK i \in 0..MaxSize : i = th[t].i
    BY <1>2
  <1> DEFINE w == [op |-> "entry", dir |-> Top(log), slot |-> BlockOf(i)]
  <1>5. Write(t, w, "make", i)
    BY <1>4, OfTheLog DEF Allocate_block
  <1>6. w \in Records
    <2>1. BlockOf(i) \in Nat /\ Top(log) \in Nat
      <3>1. i \in Nat /\ Top(log) \in Nat
        BY <1>0, BoundsAssumption, SMT DEF Facts
      <3> QED
        BY <3>1, Position
    <2>2. w \in [op : {"entry"}, dir : Nat, slot : Nat]
      BY <2>1
    <2> QED
      BY <2>2 DEF Records
  <1>7. w.op = "entry" /\ w.dir = Top(log) /\ w.slot = BlockOf(i) /\ w.op # "dir"
    OBVIOUS
  <1> HIDE DEF w
  <1>8. Grows_(log, w, log') /\ retired' = retired /\ UNCHANGED <<owner, it, appended, freed, cast>>
    BY <1>0, <1>5, <1>6 DEF Grows_, LogInv, Write, Allocate_block
  <1>9. EnteredAt(log, w, log')
    BY <1>0, <1>1, <1>3, <1>4, <1>7, <1>8, StoreEntry
  <1>10. /\ LogInv(log') /\ Grown(log, log') /\ Slots(log', Top(log')) = Slots(log, Top(log))
         /\ SizeIn(log') = SizeIn(log) /\ EntryIn(log', Top(log'), BlockOf(i)) # 0
    BY <1>7, <1>9 DEF EnteredAt, SameTop
  <1>11. DirsKept'
    BY <1>6, <1>7, <1>8, DirsStay
  <1>12. ASSUME NEW f, StoredFrame(t, "make", i, f) PROVE Holder(log', t, f)
    <2>0. /\ f.pc = "make" /\ f.i = th[t].i /\ f.op = th[t].op /\ f.arg = th[t].arg
          /\ f.view = Len(log')
      BY <1>4, <1>12 DEF StoredFrame
    <2>1. SizeIn(log) <= th[t].i /\ \A j \in SizeIn(log)..(th[t].i - 1) : Ready(log', j)
      BY <1>1, <1>2, <1>10, ReadyKept DEF Holder
    <2>2. InBlock(log', th[t].i)
      BY <1>3, <1>4, <1>10 DEF InBlock
    <2>3. /\ th[t].op \in WriterOps
          /\ th[t].op = "emplace_back" => th[t].i = SizeIn(log) /\ th[t].i < MaxSize
          /\ th[t].op = "resize" =>
               th[t].i < th[t].arg /\ \A j \in 0..(th[t].arg - 1) : BlockOf(j) \in Slots(log, Top(log))
      BY <1>1, <1>2 DEF Holder
    <2> QED
      BY <1>3, <1>10, <2>0, <2>1, <2>2, <2>3 DEF Holder
  <1>13. "make" \in {"block", "make", "publish", "done"}
    OBVIOUS
  <1> QED
    BY <1>1, <1>5, <1>6, <1>8, <1>10, <1>11, <1>12, <1>13, Wrote

LEMMA ConstructStep ==
    ASSUME DequeInv, NEW t \in Threads, Construct(t)
    PROVE  DequeInv'
  <1>0. LogInv(log) /\ Facts(log)
    BY ThreadHas
  <1>1. th[t].pc = "make" /\ HoldsLock(th[t])
    BY DEF Construct, HoldsLock
  <1>2. Holder(log, t, th[t]) /\ th[t].i \in 0..MaxSize /\ th[t].arg \in 0..MaxSize /\ th[t].op \in WriterOps
    BY <1>1, HolderHas
  <1>3. PICK i \in 0..MaxSize : i = th[t].i
    BY <1>2
  <1>4. /\ InBlock(log, i) /\ SizeIn(log) <= i /\ th[t].op # "reserve"
        /\ \A j \in SizeIn(log)..(i - 1) : Ready(log, j)
        /\ th[t].op = "emplace_back" => i < MaxSize
        /\ th[t].op = "resize" =>
             i < th[t].arg /\ \A j \in 0..(th[t].arg - 1) : BlockOf(j) \in Slots(log, Top(log))
    BY <1>1, <1>2, <1>3 DEF Holder
  <1>5. PICK s \in 0..MaxSize : s = SizeIn(log)
    BY <1>0 DEF Facts
  <1>6. i \in Nat /\ i + 1 \in 0..MaxSize /\ i >= s /\ s <= i + 1 /\ i + 1 > s /\ (i + 1) - 1 = i /\ i + 1 > 0
    <2>1. i < MaxSize
      <3>1. CASE th[t].op = "emplace_back"
        BY <1>4, <3>1
      <3>2. CASE th[t].op = "resize"
        <4>1. i < th[t].arg
          BY <1>4, <3>2
        <4> QED
          BY <1>2, <4>1, BoundsAssumption, SMT
      <3> QED
        BY <1>2, <1>4, <3>1, <3>2 DEF WriterOps
    <2>2. s <= i
      BY <1>4, <1>5
    <2> QED
      BY <2>1, <2>2, BoundsAssumption, SMT
  <1> DEFINE w == [op |-> "make", addr |-> At_(log, i),
                   by |-> IF th[t].op = "resize" THEN NoThread ELSE t]
             pc == IF th[t].op = "resize" /\ i + 1 < th[t].arg THEN "block" ELSE "publish"
  <1>7. Write(t, w, pc, i + 1)
    <2>1. Address(directory_, i) = At_(log, i)
      BY OfTheLog DEF At_
    <2> QED
      BY <1>3, <2>1 DEF Construct
  <1>8. w \in Records
    <2>1. At_(log, i) \in Nat \X Nat
      BY <1>0, <1>4, <1>6, AddressType
    <2>2. w \in [op : {"make"}, addr : Nat \X Nat, by : Threads \cup {NoThread}]
      BY <2>1
    <2> QED
      BY <2>2 DEF Records
  <1>9. w.op = "make" /\ w.addr = At_(log, i) /\ w.op # "dir" /\ (th[t].op # "resize" => w.by = t)
    OBVIOUS
  <1>10. pc \in {"block", "publish"} /\ (pc = "block" => th[t].op = "resize" /\ i + 1 < th[t].arg)
    OBVIOUS
  <1> HIDE DEF w, pc
  <1>11. Grows_(log, w, log') /\ retired' = retired /\ UNCHANGED <<owner, it, appended, freed, cast>>
    BY <1>0, <1>7, <1>8 DEF Grows_, LogInv, Write, Construct
  <1>12. MadeAt(log, w, log', i)
    <2>1. i >= SizeIn(log)
      BY <1>5, <1>6
    <2> QED
      BY <1>0, <1>4, <1>6, <1>9, <1>11, <2>1, StoreMake
  <1>13. /\ LogInv(log') /\ Grown(log, log') /\ Slots(log', Top(log')) = Slots(log, Top(log))
         /\ SizeIn(log') = s /\ Ready(log', i) /\ (th[t].op # "resize" => By(log', i) = t)
    BY <1>5, <1>9, <1>12 DEF MadeAt, SameTop, By
  <1>14. DirsKept'
    BY <1>8, <1>9, <1>11, DirsStay
  <1>15. \A j \in s..i : Ready(log', j)
    <2> TAKE j \in s..i
    <2>1. j = i \/ j \in s..(i - 1)
      BY BoundsAssumption, SMT
    <2> QED
      BY <1>4, <1>5, <1>13, <2>1, ReadyKept
  <1>16. ASSUME NEW f, StoredFrame(t, pc, i + 1, f) PROVE Holder(log', t, f)
    <2>0. /\ f.pc = pc /\ f.i = i + 1 /\ f.op = th[t].op /\ f.arg = th[t].arg
          /\ f.view = Len(log') /\ f.op \in WriterOps /\ f.op # "reserve"
      BY <1>2, <1>4, <1>16 DEF StoredFrame
    <2>1. SizeIn(log') <= f.i /\ \A j \in SizeIn(log')..(f.i - 1) : Ready(log', j)
      BY <1>6, <1>13, <1>15, <2>0
    <2>2. CASE pc = "block"
      <3>1. f.pc = "block" /\ f.op = "resize" /\ f.i < f.arg
        BY <1>10, <2>0, <2>2
      <3>2. \A j \in 0..(f.arg - 1) : BlockOf(j) \in Slots(log', Top(log'))
        BY <1>4, <1>13, <2>0, <3>1
      <3>3. f.i \in 0..(f.arg - 1)
        <4>1. PICK n \in 0..MaxSize : n = f.arg
          BY <1>2, <2>0
        <4>2. i + 1 \in 0..(n - 1)
          <5>1. i + 1 < n
            BY <2>0, <3>1, <4>1
          <5> QED
            BY <1>6, <5>1, BoundsAssumption, SMT
        <4> QED
          BY <2>0, <4>1, <4>2
      <3>4. BlockOf(f.i) \in Slots(log', Top(log'))
        BY <3>2, <3>3
      <3> QED
        BY <2>0, <2>1, <3>1, <3>2, <3>4 DEF Holder
    <2>3. CASE pc = "publish"
      <3>1. f.pc = "publish" /\ f.i > SizeIn(log') /\ f.i > 0
        BY <1>6, <1>13, <2>0, <2>3
      <3>2. f.op = "emplace_back" => By(log', f.i - 1) = t
        BY <1>6, <1>13, <2>0
      <3> QED
        BY <2>0, <2>1, <3>1, <3>2 DEF Holder
    <2> QED
      BY <1>10, <2>2, <2>3
  <1>17. pc \in {"block", "make", "publish", "done"}
    BY <1>10
  <1>18. PICK n \in 0..MaxSize : n = i + 1
    BY <1>6
  <1>19. Write(t, w, pc, n) /\ \A f : StoredFrame(t, pc, n, f) => Holder(log', t, f)
    BY <1>7, <1>16, <1>18
  <1> QED
    BY <1>1, <1>8, <1>11, <1>13, <1>14, <1>17, <1>19, Wrote

LEMMA PublishStep ==
    ASSUME DequeInv, NEW t \in Threads, Publish(t)
    PROVE  DequeInv'
  <1>0. LogInv(log) /\ Facts(log)
    BY ThreadHas
  <1>1. th[t].pc = "publish" /\ HoldsLock(th[t])
    BY DEF Publish, HoldsLock
  <1>2. Holder(log, t, th[t]) /\ th[t].i \in 0..MaxSize /\ th[t].op \in WriterOps
    BY <1>1, HolderHas
  <1>3. PICK i \in 0..MaxSize : i = th[t].i
    BY <1>2
  <1>4. /\ SizeIn(log) <= i /\ th[t].op # "reserve" /\ i > SizeIn(log)
        /\ \A j \in SizeIn(log)..(i - 1) : Ready(log, j)
        /\ th[t].op = "emplace_back" => i > 0 /\ By(log, i - 1) = t
    BY <1>1, <1>2, <1>3 DEF Holder
  <1>5. i \in 1..MaxSize /\ i - 1 \in SizeIn(log)..(i - 1) /\ i \in Nat
    <2>1. SizeIn(log) \in 0..MaxSize
      BY <1>0 DEF Facts
    <2> QED
      BY <1>4, <2>1, BoundsAssumption, SMT
  <1> DEFINE w == [op |-> "size", val |-> i]
  <1>6. Write(t, w, "done", i)
    BY <1>3 DEF Publish
  <1>7. w \in Records
    <2>1. w \in [op : {"size"}, val : Nat]
      BY <1>5
    <2> QED
      BY <2>1 DEF Records
  <1>8. w.op = "size" /\ w.val = i /\ w.op # "dir" /\ w.op # "make"
    OBVIOUS
  <1> HIDE DEF w
  <1>9. Grows_(log, w, log') /\ retired' = retired /\ UNCHANGED <<owner, it, appended, freed, cast>>
    BY <1>0, <1>6, <1>7 DEF Grows_, LogInv, Write, Publish
  <1>10. SizedAt(log, w, log')
    <2>1. w.val \in 1..MaxSize /\ SizeIn(log) <= w.val /\ \A j \in SizeIn(log)..(w.val - 1) : Ready(log, j)
      BY <1>4, <1>5, <1>8
    <2> QED
      BY <1>0, <1>8, <1>9, <2>1, StoreSize
  <1>11. LogInv(log') /\ Grown(log, log') /\ SizeIn(log') = i
    BY <1>8, <1>10 DEF SizedAt
  <1>12. DirsKept'
    BY <1>7, <1>8, <1>9, DirsStay
  <1>13. By(log', i - 1) = By(log, i - 1)
    <2>1. Ready(log, i - 1)
      BY <1>4, <1>5
    <2>2. MakesSame(log, w, log', At_(log, i - 1))
      BY <1>9, MakesKept
    <2>3. MakesIn(log', At_(log, i - 1)) = MakesIn(log, At_(log, i - 1))
      BY <1>8, <2>2 DEF MakesSame
    <2> QED
      BY <1>0, <1>11, <2>1, <2>3, MakerKept
  <1>14. ASSUME NEW f, StoredFrame(t, "done", i, f) PROVE Holder(log', t, f)
    <2>0. /\ f.pc = "done" /\ f.i = i /\ f.op = th[t].op /\ f.arg = th[t].arg
          /\ f.view = Len(log')
      BY <1>14 DEF StoredFrame
    <2> QED
      BY <1>2, <1>4, <1>11, <1>13, <2>0 DEF Holder
  <1>15. "done" \in {"block", "make", "publish", "done"}
    OBVIOUS
  <1> QED
    BY <1>1, <1>6, <1>7, <1>9, <1>11, <1>12, <1>14, <1>15, Wrote

-----------------------------------------------------------------------------
(* The destructor.                                                         *)

LEMMA DestroyStep ==
    ASSUME DequeInv, Destroy
    PROVE  DequeInv'
  <1>0. LogInv(log) /\ Facts(log) /\ DirsKept
    BY LogFacts DEF DequeInv
  <1>1. UNCHANGED <<log, owner, retired, th, it, failures, appended, cast>>
    BY DEF Destroy
  <1>2. /\ freed'.elements = {AddressIn(log, Top(log), i) : i \in 0..(SizeIn(log) - 1)}
        /\ freed'.blocks = {EntryIn(log, Top(log), s) : s \in Slots(log, Top(log))} \ {0}
        /\ freed'.dirs = retired \cup ({Top(log)} \ {0})
    BY OfTheLog DEF Destroy, Slots
  <1>3. freed'.dirs = StoresIn(log, "dir")
    BY <1>0, <1>2 DEF DirsKept
  <1>4. freed'.blocks = StoresIn(log, "entry")
    <2>1. ASSUME NEW s \in Slots(log, Top(log)), EntryIn(log, Top(log), s) # 0
          PROVE  EntryIn(log, Top(log), s) \in StoresIn(log, "entry")
      <3>1. Top(log) \in StoresIn(log, "dir")
        BY <1>0, TopIsDir
      <3> QED
        BY <1>0, <2>1, <3>1 DEF LogInv, EntriesOK
    <2>2. ASSUME NEW k \in StoresIn(log, "entry")
          PROVE  k # 0 /\ \E s \in Slots(log, Top(log)) : k = EntryIn(log, Top(log), s)
      <3>1. /\ log[k].dir \in StoresIn(log, "dir") /\ log[k].slot \in Slots(log, log[k].dir)
            /\ EntryIn(log, Top(log), log[k].slot) = k
        BY <1>0 DEF LogInv, EntriesOK
      <3>2. Top(log) \in StoresIn(log, "dir") /\ log[k].dir <= Top(log)
        BY <1>0, <3>1 DEF Facts
      <3>3. Slots(log, log[k].dir) \subseteq Slots(log, Top(log))
        BY <1>0, <3>1, <3>2, SlotsGrow
      <3>4. k # 0
        BY <1>0 DEF Facts
      <3> QED
        BY <3>1, <3>3, <3>4
    <2>3. freed'.blocks \subseteq StoresIn(log, "entry")
      BY <1>2, <2>1
    <2>4. StoresIn(log, "entry") \subseteq freed'.blocks
      BY <1>2, <2>2
    <2> QED
      BY <2>3, <2>4
  <1>5. freed'.elements \subseteq {log[k].addr : k \in StoresIn(log, "make")}
    <2> SUFFICES ASSUME NEW i \in 0..(SizeIn(log) - 1)
                 PROVE  \E k \in StoresIn(log, "make") : AddressIn(log, Top(log), i) = log[k].addr
      BY <1>2
    <2>1. MakesIn(log, AddressIn(log, Top(log), i)) # {}
      BY <1>0, BelowSize DEF Ready, At_
    <2> QED
      BY <2>1 DEF MakesIn
  <1>6. NothingLeaks'
    <2>1. log' = log
      BY <1>1
    <2> QED
      BY <1>3, <1>4, <1>5, <2>1, OfTheLogNext DEF NothingLeaks
  <1>7. \A t \in Threads : th[t].pc = "idle"
    BY DEF Destroy, Idle
  <1>8. FreedOK'
    BY <1>1, <1>6, <1>7 DEF FreedOK
  <1>9. LockOK' /\ DirsKept'
    BY <1>1 DEF DequeInv, LockOK, DirsKept
  <1> QED
    BY <1>1, <1>8, <1>9 DEF DequeInv

LEMMA UnchangedStep ==
    ASSUME DequeInv, UNCHANGED vars
    PROVE  DequeInv'
  <1>1. /\ cast' = cast /\ log' = log /\ owner' = owner /\ retired' = retired /\ th' = th
        /\ it' = it /\ appended' = appended /\ freed' = freed
    BY DEF vars
  <1>2. LockOK' /\ DirsKept'
    BY <1>1 DEF DequeInv, LockOK, DirsKept
  <1>3. FreedOK'
    <2> SUFFICES ASSUME freed # Unset
                 PROVE  NothingLeaks' /\ \A t \in Threads : th[t].pc = "idle"
      BY <1>1 DEF FreedOK
    <2>1. NothingLeaks /\ \A t \in Threads : th[t].pc = "idle"
      BY DEF DequeInv, FreedOK
    <2>2. /\ freed.blocks = StoresIn(log, "entry") /\ freed.dirs = StoresIn(log, "dir")
          /\ freed.elements \subseteq {log[k].addr : k \in StoresIn(log, "make")}
      BY <2>1, OfTheLog DEF NothingLeaks
    <2>3. NothingLeaks'
      BY <1>1, <2>2, OfTheLogNext DEF NothingLeaks
    <2> QED
      BY <2>1, <2>3
  <1> QED
    BY <1>1, <1>2, <1>3 DEF DequeInv

-----------------------------------------------------------------------------
(* The invariant.                                                          *)

LEMMA EmptyLog ==
    /\ LogInv(<<>>) /\ Len(<<>>) = 0 /\ Top(<<>>) = 0 /\ SizeIn(<<>>) = 0
    /\ \A op : StoresIn(<<>>, op) = {}
  <1>1. Len(<<>>) = 0 /\ <<>> \in Seq(Records) /\ \A k \in 1..0 : FALSE
    BY SMT
  <1>2. \A op : StoresIn(<<>>, op) = {}
    BY <1>1 DEF StoresIn
  <1>3. \A op : LatestIn(<<>>, op, 0) = 0
    <2> TAKE op
    <2>1. {k \in StoresIn(<<>>, op) : k <= 0} = {}
      BY <1>2
    <2>2. {0} \cup {k \in StoresIn(<<>>, op) : k <= 0} = {0}
      BY <2>1
    <2>3. 0 \in Nat /\ 0 >= 0
      BY SMT
    <2>4. Max({0}) = 0
      BY <2>3, MaxIs
    <2> QED
      BY <2>2, <2>4 DEF LatestIn
  <1>4. Top(<<>>) = 0 /\ SizeIn(<<>>) = 0
    BY <1>1, <1>3 DEF Top, SizeIn, ValueIn
  <1>5. Ordered(0)
    <2>1. \A k \in 0..0 : k = 0 /\ 0 >= 0
      BY SMT
    <2> QED
      BY <2>1 DEF Ordered
  <1>6. LogInv(<<>>)
    BY <1>1, <1>2, <1>5 DEF LogInv, DirsOK, Chain, EntriesOK, MakesOK, SizesOK
  <1> QED
    BY <1>1, <1>2, <1>4, <1>6

LEMMA Starts ==
    ASSUME Init
    PROVE  DequeInv
  <1> DEFINE f == [pc |-> "idle", op |-> "none", arg |-> 0, i |-> 0, dir |-> 0, view |-> 0,
                   known |-> 0]
             x == [index |-> 0, elem |-> Unset]
  <1>0. 0 \in 0..MaxSize /\ 0 \in Nat /\ 0 <= 0
    BY BoundsAssumption, SMT
  <1>1. f \in Frames /\ x \in Its
    BY <1>0 DEF Frames, Its, Pcs, Ops
  <1>2. th = [t \in Threads |-> f] /\ it = [t \in Threads |-> x]
    BY DEF Init
  <1>3. f.pc = "idle" /\ f.view = 0 /\ f.dir = 0 /\ f.known = 0 /\ x.elem = Unset
    OBVIOUS
  <1> HIDE DEF f, x
  <1>4. th \in [Threads -> Frames] /\ it \in [Threads -> Its]
    BY <1>1, <1>2
  <1>5. \A t \in Threads : th[t] = f /\ it[t] = x
    BY <1>2
  <1>6. log = <<>> /\ owner = NoThread /\ retired = {} /\ appended = {} /\ freed = Unset /\ cast \in Casts
    BY DEF Init
  <1>7. ~HoldsLock(f) /\ Local(<<>>, f, x)
    BY <1>0, <1>3, EmptyLog DEF HoldsLock, Local, SeenOK, ReadOK, CacheOK, Knows
  <1>8. \A t \in Threads : ThreadOK(log, t, th[t], it[t])
    BY <1>1, <1>5, <1>6, <1>7 DEF ThreadOK
  <1>9. LockOK
    BY <1>5, <1>6, <1>7, NamesAssumption DEF LockOK
  <1>10. DirsKept /\ LogInv(log)
    BY <1>6, EmptyLog DEF DirsKept
  <1>11. AppendedOK(log, appended) /\ FreedOK
    BY <1>6 DEF AppendedOK, FreedOK
  <1> QED
    BY <1>4, <1>6, <1>8, <1>9, <1>10, <1>11 DEF DequeInv

LEMMA UsersAreThreads ==
    ASSUME cast \in Casts
    PROVE  Writers \subseteq Threads /\ Iterators \subseteq Threads /\ Users \subseteq Threads
  <1>1. cast \in [writers : SUBSET Threads, iterators : SUBSET Threads, maxFailures : Nat]
    BY CastsAssumption
  <1>2. cast.writers \in SUBSET Threads /\ cast.iterators \in SUBSET Threads
    BY <1>1
  <1> QED
    BY <1>2 DEF Writers, Iterators, Users

LEMMA Kept ==
    ASSUME DequeInv, [Next]_vars
    PROVE  DequeInv'
  <1>0. Writers \subseteq Threads /\ Iterators \subseteq Threads /\ Users \subseteq Threads
    BY UsersAreThreads DEF DequeInv
  <1>1. ASSUME NEW t \in Writers, Writer(t) PROVE DequeInv'
    <2>0. t \in Threads
      BY <1>0
    <2>1. CASE Emplace_back(t) \/ Reserve(t)
      BY <2>0, <2>1, CallsStep
    <2>2. CASE Resize(t)
      BY <2>0, <2>2, ResizeStep
    <2>3. CASE Lock(t)
      BY <2>0, <2>3, LockTaken
    <2>4. CASE NothingToDo(t)
      BY <2>0, <2>4, NothingToDoStep
    <2>5. CASE Reallocate_directory(t)
      BY <2>0, <2>5, ReallocateStep
    <2>6. CASE RoomEnough(t)
      BY <2>0, <2>6, RoomEnoughStep
    <2>7. CASE Allocate_block(t)
      BY <2>0, <2>7, AllocateStep
    <2>8. CASE BlockPresent(t)
      BY <2>0, <2>8, BlockPresentStep
    <2>9. CASE BadAlloc(t)
      BY <2>0, <2>9, BadAllocStep
    <2>10. CASE Construct(t)
      BY <2>0, <2>10, ConstructStep
    <2>11. CASE Publish(t)
      BY <2>0, <2>11, PublishStep
    <2>12. CASE Finish(t)
      BY <2>0, <2>12, FinishStep
    <2> QED
      BY <1>1, <2>1, <2>2, <2>3, <2>4, <2>5, <2>6, <2>7, <2>8, <2>9, <2>10, <2>11, <2>12 DEF Writer
  <1>2. ASSUME NEW t \in Users, Reader(t) PROVE DequeInv'
    <2>0. t \in Threads
      BY <1>0
    <2>1. CASE Size(t)
      BY <2>0, <2>1, SizeStep
    <2>2. CASE At(t)
      BY <2>0, <2>2, AtStep
    <2>3. CASE Subscript(t)
      BY <2>0, <2>3, SubscriptStep
    <2>4. CASE LoadDirectory(t)
      BY <2>0, <2>4, LoadDirectoryStep
    <2>5. CASE Dereference(t)
      BY <2>0, <2>5, DereferenceStep
    <2> QED
      BY <1>2, <2>1, <2>2, <2>3, <2>4, <2>5 DEF Reader
  <1>3. ASSUME NEW t \in Iterators, Iterate(t) PROVE DequeInv'
    <2>0. t \in Threads
      BY <1>0
    <2>1. CASE Begin(t)
      BY <2>0, <2>1, BeginStep
    <2>2. CASE End(t)
      BY <2>0, <2>2, EndStep
    <2>3. CASE IteratorConstructor(t)
      BY <2>0, <2>3, ConstructorStep
    <2>4. CASE Star(t)
      BY <2>0, <2>4, StarStep
    <2>5. CASE Increment(t) \/ Decrement(t) \/ Jump(t)
      BY <2>0, <2>5, IteratorMoves
    <2> QED
      BY <1>3, <2>1, <2>2, <2>3, <2>4, <2>5 DEF Iterate
  <1>4. CASE Destroy
    BY <1>4, DestroyStep
  <1>5. CASE Destroyed \/ UNCHANGED vars
    BY <1>5, UnchangedStep DEF Destroyed
  <1> QED
    BY <1>1, <1>2, <1>3, <1>4, <1>5 DEF Next

-----------------------------------------------------------------------------
(* What the invariant says.                                                *)

\* A published element, in the directory in use.
LEMMA FoundAtTop ==
    ASSUME NEW l, LogInv(l), NEW z \in StoresIn(l, "size"), NEW i \in 0..(l[z].val - 1)
    PROVE  Found(l, z, i, Top(l)) /\ Top(l) \in StoresIn(l, "dir")
  <1>1. Published(l, z, i) /\ Facts(l)
    BY LogFacts DEF LogInv, SizesOK
  <1>2. z \in Nat /\ l \in Seq(Records) /\ Ordered(Len(l))
    BY <1>1 DEF Facts, LogInv
  <1>3. LatestIn(l, "dir", z) \in {0} \cup StoresIn(l, "dir")
    BY <1>2, LatestIs
  <1>4. LatestIn(l, "dir", z) \in StoresIn(l, "dir")
    BY <1>1, <1>3 DEF Published
  <1>5. LatestIn(l, "dir", z) <= Top(l) /\ Top(l) \in StoresIn(l, "dir")
    BY <1>1, <1>4 DEF Facts
  <1> QED
    BY <1>5, PublishedFound

\* It may be read with any view that has the store of the size.
LEMMA FoundVisible ==
    ASSUME DequeInv, NEW z \in StoresIn(log, "size"), NEW i \in Nat, NEW d \in StoresIn(log, "dir"),
           Found(log, z, i, d), NEW v \in Nat, z <= v
    PROVE  Visible(d, i, v)
  <1>0. LogInv(log) /\ Facts(log) /\ z \in Nat
    BY LogFacts DEF DequeInv, Facts
  <1>1. BlockOf(i) < CapacityIn(log, d)
    <2>1. PICK c \in Nat, b \in Nat : c = CapacityIn(log, d) /\ b = BlockOf(i)
      <3>1. CapacityIn(log, d) \in Nat
        BY <1>0 DEF CapacityIn, LogInv, DirsOK, Facts
      <3> QED
        BY <3>1, Position
    <2>2. b \in 0..(c - 1)
      BY <2>1 DEF Found, Slots
    <2>3. b < c
      BY <2>2, SMT
    <2> QED
      BY <2>1, <2>3
  <1>2. PICK e \in 1..z : e = EntryIn(log, d, BlockOf(i))
    BY DEF Found
  <1>3. e # 0 /\ e <= v
    BY <1>0, <1>2, SMT
  <1>4. \A k \in EntriesIn(log, d, BlockOf(i)) : k <= v
    BY <1>2, <1>3 DEF Found
  <1>5. ASSUME NEW m \in MakesIn(log, AddressIn(log, d, i)) PROVE m <= v
    <2>1. m < z /\ m \in Nat
      BY <1>0 DEF Found, MakesIn, Facts
    <2> QED
      BY <1>0, <2>1, SMT
  <1>6. MakesIn(log, AddressIn(log, d, i)) # {}
    BY DEF Found
  <1> QED
    BY <1>1, <1>2, <1>3, <1>4, <1>5, <1>6, OfTheLog DEF Visible

LEMMA ReadsAreSafe ==
    ASSUME DequeInv
    PROVE  SafeReads
  <1>1. ASSUME NEW t \in Threads, th[t].pc = "deref"
        PROVE  Visible(th[t].dir, th[t].arg, th[t].view)
    <2>1. PICK z \in StoresIn(log, "size") :
             /\ z <= th[t].view /\ th[t].dir \in StoresIn(log, "dir")
             /\ Found(log, z, th[t].arg, th[t].dir)
      BY <1>1, DereferenceFinds
    <2>2. th[t].view \in Nat /\ th[t].arg \in 0..MaxSize
      BY ThreadHas DEF Frames
    <2>3. th[t].arg \in Nat
      BY <2>2, BoundsAssumption, SMT
    <2> QED
      BY <2>1, <2>2, <2>3, FoundVisible
  <1>2. ASSUME NEW t \in Iterators, it[t].elem # Unset
        PROVE  /\ BlockOf(it[t].index) < directory_capacity_
               /\ it[t].elem = Address(directory_, it[t].index)
               /\ it[t].index < th[t].known => Visible(directory_, it[t].index, Now)
    <2>0. t \in Threads
      BY UsersAreThreads DEF DequeInv
    <2>1. /\ LogInv(log) /\ Facts(log) /\ CacheOK(log, it[t]) /\ it[t] \in Its /\ th[t] \in Frames
          /\ SeenOK(log, th[t])
      BY <2>0, ThreadHas
    <2>2. PICK i \in 0..MaxSize : i = it[t].index
      BY <2>1 DEF Its
    <2>3. i \in Nat
      BY BoundsAssumption, SMT
    <2>4. InBlock(log, i) /\ it[t].elem = At_(log, i)
      BY <1>2, <2>1, <2>2 DEF CacheOK
    <2>5. BlockOf(i) < CapacityIn(log, Top(log))
      <3>1. PICK c \in Nat, b \in Nat : c = CapacityIn(log, Top(log)) /\ b = BlockOf(i)
        BY <2>1, <2>3, SizeBlock, Position
      <3>2. b \in 0..(c - 1)
        BY <2>4, <3>1 DEF InBlock, Slots
      <3>3. b < c
        BY <3>2, SMT
      <3> QED
        BY <3>1, <3>3
    <2>6. ASSUME i < th[t].known PROVE Visible(Top(log), i, Len(log))
      <3>1. PICK n \in 0..MaxSize : n = th[t].known /\ i < n /\ Knows(log, th[t].view, n)
        BY <2>1, <2>6 DEF Frames, SeenOK
      <3>2. n # 0
        BY <3>1, BoundsAssumption, SMT
      <3>3. PICK z \in StoresIn(log, "size") : n <= log[z].val
        BY <3>1, <3>2 DEF Knows
      <3>4. log[z].val \in 1..MaxSize
        BY <2>1 DEF LogInv, SizesOK
      <3>5. i \in 0..(log[z].val - 1)
        BY <3>1, <3>3, <3>4, BoundsAssumption, SMT
      <3>6. Found(log, z, i, Top(log)) /\ Top(log) \in StoresIn(log, "dir")
        BY <2>1, <3>5, FoundAtTop
      <3>7. z <= Len(log) /\ Len(log) \in Nat
        <4>1. z \in 1..Len(log) /\ Len(log) \in Nat
          BY <2>1 DEF Facts
        <4> QED
          BY <4>1, SMT
      <3> QED
        BY <2>3, <3>6, <3>7, FoundVisible
    <2> QED
      BY <2>2, <2>4, <2>5, <2>6, OfTheLog DEF At_, Now
  <1> QED
    BY <1>1, <1>2 DEF SafeReads, IteratorCache

LEMMA TypesHold ==
    ASSUME DequeInv
    PROVE  TypeOK
  <1>0. LogInv(log) /\ Facts(log)
    BY LogFacts DEF DequeInv
  <1>1. ASSUME NEW k \in 1..Now
        PROVE  \/ log[k].op = "dir" /\ DOMAIN log[k].blocks = 0..(log[k].cap - 1)
               \/ log[k].op = "entry" /\ log[k].slot \in 0..(CapacityOf(log[k].dir) - 1)
               \/ log[k].op = "make" /\ log[k].addr \in (1..Now) \X (0..(BlockSize - 1))
               \/ log[k].op = "size" /\ log[k].val \in 1..MaxSize
    <2>1. log[k].op \in {"dir", "entry", "make", "size"}
      <3>1. log[k] \in Records
        BY <1>0, SMT DEF LogInv, Now
      <3> QED
        BY <3>1 DEF Records
    <2>2. \A op : log[k].op = op => k \in StoresIn(log, op)
      BY DEF StoresIn, Now
    <2>3. CASE log[k].op = "dir"
      BY <1>0, <2>2, <2>3 DEF LogInv, DirsOK
    <2>4. CASE log[k].op = "entry"
      <3>1. log[k].slot \in Slots(log, log[k].dir)
        BY <1>0, <2>2, <2>4 DEF LogInv, EntriesOK
      <3> QED
        BY <2>4, <3>1, OfTheLog DEF Slots
    <2>5. CASE log[k].op = "make"
      <3>1. log[k].addr \in StoresIn(log, "entry") \X (0..(BlockSize - 1))
        BY <1>0, <2>2, <2>5 DEF LogInv, MakesOK
      <3>2. StoresIn(log, "entry") \subseteq 1..Now
        BY DEF StoresIn, Now
      <3>3. log[k].addr \in (1..Now) \X (0..(BlockSize - 1))
        BY <3>1, <3>2, SMT
      <3> QED
        BY <2>5, <3>3
    <2>6. CASE log[k].op = "size"
      BY <1>0, <2>2, <2>6 DEF LogInv, SizesOK
    <2> QED
      BY <2>1, <2>3, <2>4, <2>5, <2>6
  <1>2. owner \in Threads \cup {NoThread} /\ cast \in Casts
    BY DEF DequeInv, LockOK
  <1>3. retired \subseteq Stores("dir")
    BY OfTheLog DEF DequeInv, DirsKept
  <1> DEFINE F == [pc : {"idle", "lock", "grow", "block", "make", "publish",
                       "done", "dir", "deref", "ctor"},
                 op : {"none", "emplace_back", "resize", "reserve", "index", "iter"},
                 arg : 0..MaxSize, i : 0..MaxSize, dir : 0..Now,
                 view : 0..Now, known : 0..MaxSize]
  <1>4. th \in [Threads -> F]
    <2>1. ASSUME NEW t \in Threads PROVE th[t] \in F
      <3>1. th[t] \in Frames /\ SeenOK(log, th[t])
        BY ThreadHas
      <3>2. th[t].dir \in Nat /\ th[t].view \in Nat /\ th[t].dir <= Len(log) /\ th[t].view <= Len(log)
        BY <3>1 DEF Frames, SeenOK
      <3>3. th[t].dir \in 0..Now /\ th[t].view \in 0..Now
        BY <1>0, <3>2, SMT DEF Now, Facts
      <3> QED
        BY <3>1, <3>3 DEF Frames, Pcs, Ops
    <2>2. th \in [Threads -> Frames]
      BY DEF DequeInv
    <2> HIDE DEF F
    <2> QED
      BY <2>1, <2>2
  <1>5. ASSUME NEW t \in Iterators
        PROVE  /\ it[t].index \in 0..MaxSize
               /\ it[t].elem \in {Unset} \cup (1..Now) \X (0..(BlockSize - 1))
    <2>0. t \in Threads
      BY UsersAreThreads DEF DequeInv
    <2>1. it[t] \in Its /\ CacheOK(log, it[t])
      BY <2>0, ThreadHas
    <2>2. it[t].index \in 0..MaxSize
      BY <2>1 DEF Its
    <2>3. it[t].index \in Nat
      BY <2>2, BoundsAssumption, SMT
    <2>4. ASSUME it[t].elem # Unset PROVE it[t].elem \in (1..Now) \X (0..(BlockSize - 1))
      <3>1. InBlock(log, it[t].index) /\ it[t].elem = At_(log, it[t].index)
        BY <2>1, <2>4 DEF CacheOK
      <3>2. it[t].elem \in StoresIn(log, "entry") \X (0..(BlockSize - 1))
        BY <1>0, <2>3, <3>1, AddressType
      <3>3. StoresIn(log, "entry") \subseteq 1..Now
        BY DEF StoresIn, Now
      <3> QED
        BY <3>2, <3>3, SMT
    <2> QED
      BY <2>2, <2>4
  <1> QED
    BY <1>1, <1>2, <1>3, <1>4, <1>5 DEF TypeOK

LEMMA AppendsAreKept ==
    ASSUME DequeInv
    PROVE  AppendsKept
  <1>0. LogInv(log) /\ Facts(log) /\ AppendedOK(log, appended)
    BY LogFacts DEF DequeInv
  <1>1. ElementsStay
    <2> SUFFICES ASSUME NEW k \in StoresIn(log, "size"), NEW i \in 0..(ValueIn(log, k) - 1)
                 PROVE  /\ AddressIn(log, Top(log), i) = AddressIn(log, LatestIn(log, "dir", k), i)
                        /\ \A m \in MakesIn(log, AddressIn(log, LatestIn(log, "dir", k), i)) : m < k
      BY OfTheLog DEF ElementsStay
    <2>1. ValueIn(log, k) = log[k].val
      BY <1>0 DEF ValueIn, Facts
    <2>2. Found(log, k, i, Top(log))
      BY <1>0, <2>1, FoundAtTop
    <2>3. AddressIn(log, Top(log), i) = AddressIn(log, LatestIn(log, "dir", k), i)
      BY <2>2 DEF Found
    <2>4. \A m \in MakesIn(log, AddressIn(log, Top(log), i)) : m < k
      BY <2>2 DEF Found
    <2> QED
      BY <2>3, <2>4
  <1>2. NothingLeaks
    BY DEF DequeInv, FreedOK, NothingLeaks
  <1>3. ASSUME NEW p \in appended
        PROVE  /\ p[1] < SizeIn(log)
               /\ log[Max(MakesIn(log, AddressIn(log, Top(log), p[1])))].by = p[2]
    <2>1. p[1] \in 0..(SizeIn(log) - 1) /\ By(log, p[1]) = p[2]
      BY <1>0 DEF AppendedOK
    <2>2. SizeIn(log) \in 0..MaxSize
      BY <1>0 DEF Facts
    <2>3. p[1] < SizeIn(log)
      BY <2>1, <2>2, BoundsAssumption, SMT
    <2> QED
      BY <2>1, <2>3 DEF By, At_
  <1>4. TypeOK
    BY TypesHold
  <1> QED
    BY <1>1, <1>2, <1>3, <1>4, OfTheLog DEF AppendsKept

\* The wait-free reads of ConcurrentAppendDeque are safe: a thread that indexes
\* within a size it observed, with operator[], at() or an iterator, finds the
\* block and the element in whichever directory it loads, constructed before
\* its read, and an iterator's cached pointer stays the element of its index.
THEOREM DequeReadsSafe == Spec => []SafeReads
  <1>1. DequeInv => SafeReads
    BY ReadsAreSafe
  <1>2. Init => DequeInv
    BY Starts
  <1>3. DequeInv /\ [Next]_vars => DequeInv'
    BY Kept
  <1> QED
    BY <1>1, <1>2, <1>3, PTL DEF Spec

\* Nothing appended to ConcurrentAppendDeque is lost or moved: the index that
\* emplace_back returned holds its caller's element, references stay valid as
\* the directory is reallocated, and the destructor frees every directory and
\* every block, those of failed calls included.
THEOREM DequeAppendsKept == Spec => []AppendsKept
  <1>1. DequeInv => AppendsKept
    BY AppendsAreKept
  <1>2. Init => DequeInv
    BY Starts
  <1>3. DequeInv /\ [Next]_vars => DequeInv'
    BY Kept
  <1> QED
    BY <1>1, <1>2, <1>3, PTL DEF Spec

=============================================================================
