------------------------ MODULE SceneCollection_proofs ------------------------
(* Proofs about SceneCollection, for any collections, scenes and items, any  *)
(* surroundings and any number of changes.                                   *)
EXTENDS SceneCollection, FiniteSetTheorems, SequenceTheorems,
        WellFoundedInduction, TLAPS

(* What the slots in the queue of Qt may be.                                 *)
Slot ==
  [slot : {"save", "stale", "gone"}]
    \cup [slot : {"addItem", "removeItem"}, scene : Scenes, item : Items]
    \cup [slot : {"reorder", "removeScene"}, scene : Scenes]

(* The order of items in a scene: no item twice.                             *)
Orders == {seq \in Seq(Items) : IsInjective(seq)}

(* What a file may hold.                                                     *)
IsFile(f) ==
  /\ f.order \in Seq(Scenes)
  /\ f.current \in Scenes \cup {None}
  /\ DOMAIN f.items \subseteq Scenes /\ IsFiniteSet(DOMAIN f.items)
  /\ \A s \in DOMAIN f.items : f.items[s] \in Orders

DataTypes ==
  /\ env \in Environments
  /\ phase \in {"init", "running", "closing"}
  /\ collection \in Collections
  /\ scenes \subseteq Scenes /\ IsFiniteSet(scenes)
  /\ items \in [Scenes -> Orders]
  /\ rows \in Seq(Items)
  /\ slots \in Seq(Slot)
  /\ projectChanged \in BOOLEAN
  /\ DOMAIN file = Collections /\ \A c \in Collections : IsFile(file[c])
  /\ changes \in 0..MaxChanges

(* The slots that wait.                                                      *)
Waiting == Range(slots)

(* Saving is disabled before and after the program runs; then there is no    *)
(* scene, and no slot that is about one.                                     *)
Phases ==
  /\ disableSaving = IF phase = "running" THEN 0 ELSE 1
  /\ phase # "running" =>
       /\ scenes = {} /\ list = <<>> /\ current = None
       /\ \A m \in Waiting : m.slot \in {"save", "stale", "gone"}

(* The list of scenes holds each scene once, and beside them only those whose *)
(* slot still waits.                                                         *)
ListedOnce ==
  /\ list \in Seq(Scenes) /\ IsInjective(list)
  /\ current \in Range(list) \cup {None}
  /\ scenes \subseteq Range(list)
  /\ \A s \in Range(list) \ scenes : [slot |-> "removeScene", scene |-> s] \in Waiting
  /\ \A m \in Waiting : m.slot = "removeScene" => m.scene \notin scenes

(* The list of items holds those of the current scene, except those whose    *)
(* slot still waits; a slot that removes an item is about one that is gone.  *)
ItemsListed ==
  /\ current # None =>
       \A i \in Range(items[current]) \ Range(rows) :
         [slot |-> "addItem", scene |-> current, item |-> i] \in Waiting
  /\ current = None => rows = <<>>
  /\ \A m \in Waiting : m.slot = "removeItem" => m.item \notin Range(items[m.scene])

(* Without other threads only saves wait, and the order of the items is      *)
(* right.                                                                    *)
Alone ==
  ~env.threads =>
    /\ \A m \in Waiting : m.slot = "save"
    /\ current # None => rows = Reverse(items[current])

(* The scenes belong to their collection, and without other threads there is *)
(* always one.                                                               *)
Belong ==
  ~env.missing =>
    /\ \A s \in scenes : Home[s] = collection
    /\ ~env.threads /\ phase = "running" => scenes # {}

ListInv ==
  DataTypes /\ Phases /\ ListedOnce /\ ItemsListed /\ Alone /\ Belong /\ FilesAreTheirOwn

-----------------------------------------------------------------------------
(* Induction up to a number, on the set of numbers for which something holds. *)
LEMMA UpTo ==
  ASSUME NEW n \in Nat, NEW T \in SUBSET Nat, 0 \in T,
         \A k \in 0..(n - 1) : k \in T => k + 1 \in T
  PROVE  \A k \in 0..n : k \in T
<1> DEFINE Less == OpToRel(<, Nat)
           Others == {k \in 0..n : k \notin T}
<1>1. IsWellFoundedOn(Less, Nat)
  BY NatLessThanWellFounded, Zenon DEF Less
<1>2. SUFFICES ASSUME Others # {} PROVE FALSE
  BY <1>2
<1>3. Others \subseteq Nat
  OBVIOUS
<1> HIDE DEF Less, Others
<1>4. PICK m \in Others : \A y \in Nat : <<y, m>> \in Less => y \notin Others
  BY <1>1, <1>2, <1>3, WFMin
<1>5. \A y \in Nat : y < m => y \notin Others
  BY <1>3, <1>4 DEF Less, OpToRel
<1>6. m \in 0..n /\ m \notin T /\ m # 0
  BY <1>4 DEF Others
<1>7. m - 1 \notin Others
  BY <1>5, <1>6
<1>8. m - 1 \in 0..(n - 1)
  BY <1>6
<1>9. m - 1 \in T
  BY <1>7, <1>8 DEF Others
<1> QED BY <1>6, <1>8, <1>9

(* A function that yields each value from the one before exists.             *)
Iteration(f, S, s0, m, G) ==
  f \in [0..m -> S] /\ f[0] = s0 /\ \A k \in 1..m : f[k] = G[k][f[k - 1]]

(* One that has come to m can be carried on to m + 1.                        *)
LEMMA Iterated ==
  ASSUME NEW S, NEW s0 \in S, NEW n \in Nat, NEW G \in [1..n -> [S -> S]]
  PROVE  \E f : Iteration(f, S, s0, n, G)
<1> DEFINE Good(f, m) == Iteration(f, S, s0, m, G)
           T == {m \in Nat : m <= n => \E f : Good(f, m)}
<1>1. 0 \in T
  <2>1. Good([k \in 0..0 |-> s0], 0)
    BY DEF Iteration
  <2> QED BY <2>1
<1>2. ASSUME NEW m \in 0..(n - 1), m \in T
      PROVE  m + 1 \in T
  <2>1. PICK f : Good(f, m)
    BY <1>2
  <2> USE DEF Iteration
  <2> DEFINE g == [k \in 0..(m + 1) |-> IF k = m + 1 THEN G[m + 1][f[m]] ELSE f[k]]
  <2>2. f[m] \in S /\ G[m + 1] \in [S -> S]
    BY <1>2, <2>1
  <2>3. G[m + 1][f[m]] \in S
    BY <2>2
  <2>4. g \in [0..(m + 1) -> S]
    BY <2>1, <2>3, <1>2
  <2>5. g[0] = s0
    BY <2>1, <1>2
  <2>6. ASSUME NEW k \in 1..(m + 1) PROVE g[k] = G[k][g[k - 1]]
    <3>1. CASE k = m + 1
      <4>1. k - 1 = m /\ g[k - 1] = f[m] /\ g[k] = G[m + 1][f[m]]
        BY <3>1, <1>2
      <4> QED BY <3>1, <4>1
    <3>2. CASE k \in 1..m
      <4>1. g[k] = f[k] /\ g[k - 1] = f[k - 1]
        BY <3>2, <1>2
      <4> QED BY <3>2, <4>1, <2>1
    <3> QED BY <3>1, <3>2, <1>2
  <2> HIDE DEF g
  <2>7. Good(g, m + 1)
    BY <2>4, <2>5, <2>6
  <2>8. m + 1 \in Nat
    BY <1>2
  <2> HIDE DEF Good, Iteration
  <2> QED BY <2>7, <2>8
<1>3. T \in SUBSET Nat
  OBVIOUS
<1> HIDE DEF T
<1>4. \A k \in 0..n : k \in T
  BY <1>1, <1>2, <1>3, UpTo
<1>5. n \in T
  BY <1>4
<1>6. \E f : Good(f, n)
  BY <1>5 DEF T
<1> QED BY <1>6

-----------------------------------------------------------------------------
(* The lists.                                                                *)

(* The row of an element, if the list has it.                                *)
LEMMA RowFacts ==
  ASSUME NEW X, NEW seq \in Seq(X), NEW x
  PROVE  /\ x \in Range(seq) => Row(seq, x) \in 1..Len(seq) /\ seq[Row(seq, x)] = x
         /\ x \notin Range(seq) => Row(seq, x) = 0
<1> DEFINE I == {i \in 1..Len(seq) : seq[i] = x}
<1>1. Row(seq, x) = IF I # {} THEN Min(I) ELSE 0
  BY DEF Row, SelectInSeq
<1>2. x \in Range(seq) <=> I # {}
  BY DEF Range
<1>3. ASSUME I # {} PROVE Min(I) \in I
  <2> DEFINE Less == OpToRel(<, Nat)
  <2>1. IsWellFoundedOn(Less, Nat)
    BY NatLessThanWellFounded, Zenon DEF Less
  <2>2. I \subseteq Nat
    OBVIOUS
  <2> HIDE DEF Less, I
  <2>3. PICK m \in I : \A y \in Nat : <<y, m>> \in Less => y \notin I
    BY <1>3, <2>1, <2>2, WFMin
  <2>4. \A y \in Nat : y < m => y \notin I
    BY <2>2, <2>3 DEF Less, OpToRel
  <2>5. \A y \in I : m <= y
    BY <2>2, <2>4
  <2> QED BY <2>5 DEF Min
<1> QED BY <1>1, <1>2, <1>3

(* A list without its row i.                                                 *)
LEMMA Removed ==
  ASSUME NEW X, NEW seq \in Seq(X), NEW i \in 1..Len(seq)
  PROVE  /\ RemoveAt(seq, i) \in Seq(X)
         /\ Len(RemoveAt(seq, i)) = Len(seq) - 1
         /\ \A j \in 1..(Len(seq) - 1) :
              RemoveAt(seq, i)[j] = seq[IF j < i THEN j ELSE j + 1]
<1> DEFINE a == SubSeq(seq, 1, i - 1)
           b == SubSeq(seq, i + 1, Len(seq))
<1>1. /\ a \in Seq(X) /\ Len(a) = i - 1
      /\ \A j \in 1..(i - 1) : a[j] = seq[j]
  OBVIOUS
<1>2. /\ b \in Seq(X) /\ Len(b) = Len(seq) - i
      /\ \A j \in 1..(Len(seq) - i) : b[j] = seq[i + j]
  OBVIOUS
<1>3. RemoveAt(seq, i) = a \o b
  BY DEF RemoveAt
<1> HIDE DEF a, b
<1>4. /\ a \o b \in Seq(X) /\ Len(a \o b) = Len(a) + Len(b)
      /\ \A j \in 1..(Len(a) + Len(b)) :
           (a \o b)[j] = IF j <= Len(a) THEN a[j] ELSE b[j - Len(a)]
  BY <1>1, <1>2, ConcatProperties
<1>5. ASSUME NEW j \in 1..(Len(seq) - 1)
      PROVE  (a \o b)[j] = seq[IF j < i THEN j ELSE j + 1]
  BY <1>1, <1>2, <1>4
<1> QED BY <1>1, <1>2, <1>3, <1>4, <1>5

(* A list with a new row.                                                    *)
LEMMA Inserted ==
  ASSUME NEW X, NEW seq \in Seq(X), NEW at \in 1..(Len(seq) + 1), NEW x \in X
  PROVE  /\ InsertAt(seq, at, x) \in Seq(X)
         /\ Len(InsertAt(seq, at, x)) = Len(seq) + 1
         /\ InsertAt(seq, at, x)[at] = x
         /\ \A j \in 1..(at - 1) : InsertAt(seq, at, x)[j] = seq[j]
         /\ \A j \in at..Len(seq) : InsertAt(seq, at, x)[j + 1] = seq[j]
<1> DEFINE a == SubSeq(seq, 1, at - 1)
           b == SubSeq(seq, at, Len(seq))
           ax == a \o <<x>>
<1>1. /\ a \in Seq(X) /\ Len(a) = at - 1
      /\ \A j \in 1..(at - 1) : a[j] = seq[j]
  OBVIOUS
<1>2. /\ b \in Seq(X) /\ Len(b) = Len(seq) - at + 1
      /\ \A j \in 1..(Len(seq) - at + 1) : b[j] = seq[at + j - 1]
  OBVIOUS
<1>3. InsertAt(seq, at, x) = ax \o b
  BY DEF InsertAt
<1> HIDE DEF a, b
<1>4. /\ ax \in Seq(X) /\ Len(ax) = at /\ ax[at] = x
      /\ \A j \in 1..(at - 1) : ax[j] = seq[j]
  BY <1>1
<1> HIDE DEF ax
<1>5. /\ ax \o b \in Seq(X) /\ Len(ax \o b) = Len(ax) + Len(b)
      /\ \A j \in 1..(Len(ax) + Len(b)) :
           (ax \o b)[j] = IF j <= Len(ax) THEN ax[j] ELSE b[j - Len(ax)]
  BY <1>2, <1>4, ConcatProperties
<1>6. ASSUME NEW j \in 1..at PROVE (ax \o b)[j] = ax[j]
  BY <1>2, <1>4, <1>5
<1>7. ASSUME NEW j \in at..Len(seq) PROVE (ax \o b)[j + 1] = seq[j]
  <2>1. (ax \o b)[j + 1] = b[j + 1 - at] /\ j + 1 - at \in 1..(Len(seq) - at + 1)
    BY <1>2, <1>4, <1>5
  <2>2. b[j + 1 - at] = seq[at + (j + 1 - at) - 1] /\ at + (j + 1 - at) - 1 = j
    BY <2>1, <1>2
  <2> QED BY <2>1, <2>2
<1> QED BY <1>2, <1>3, <1>4, <1>5, <1>6, <1>7

(* The row there is that is nearest to another.                              *)
Nearest(seq, to) == IF to < 1 THEN 1 ELSE IF to > Len(seq) THEN Len(seq) ELSE to

(* A row that is moved: the rows between its places move by one.             *)
MovedRow(m, seq, from, at) ==
  \A j \in 1..Len(seq) :
    m[j] = IF j = at THEN seq[from]
           ELSE LET i == IF j < at THEN j ELSE j - 1
                IN  seq[IF i < from THEN i ELSE i + 1]

(* Taken from its row and inserted at the nearest row there is.              *)
LEMMA MoveRowFacts ==
  ASSUME NEW X, NEW seq \in Seq(X), NEW from \in 1..Len(seq), NEW to \in Int,
         NEW at \in 1..Len(seq), at = Nearest(seq, to)
  PROVE  /\ MoveRow(seq, from, to) \in Seq(X)
         /\ Len(MoveRow(seq, from, to)) = Len(seq)
         /\ MovedRow(MoveRow(seq, from, to), seq, from, at)
<1> DEFINE rest == RemoveAt(seq, from)
<1>1. /\ rest \in Seq(X) /\ Len(rest) = Len(seq) - 1
      /\ \A j \in 1..(Len(seq) - 1) : rest[j] = seq[IF j < from THEN j ELSE j + 1]
  BY Removed
<1> DEFINE x == seq[from]
<1>2. MoveRow(seq, from, to) = InsertAt(rest, at, x)
  BY DEF MoveRow, Nearest
<1>3. at \in 1..Len(seq) /\ Len(seq) \in Nat /\ x \in X
  OBVIOUS
<1> HIDE DEF rest, x
<1>4. rest \in Seq(X) /\ at \in 1..(Len(rest) + 1) /\ x \in X
  BY <1>1, <1>3
<1>5. InsertAt(rest, at, x) \in Seq(X) /\ Len(InsertAt(rest, at, x)) = Len(rest) + 1
  BY <1>4, Inserted
<1>6. /\ InsertAt(rest, at, x)[at] = x
      /\ \A j \in 1..(at - 1) : InsertAt(rest, at, x)[j] = rest[j]
  BY <1>4, Inserted
<1>7. \A j \in at..Len(rest) : InsertAt(rest, at, x)[j + 1] = rest[j]
  BY <1>4, Inserted
<1>8. ASSUME NEW j \in 1..Len(seq)
      PROVE  InsertAt(rest, at, x)[j] =
               IF j = at THEN x
               ELSE LET i == IF j < at THEN j ELSE j - 1
                    IN  seq[IF i < from THEN i ELSE i + 1]
  <2>1. CASE j < at
    <3>1. j \in 1..(Len(seq) - 1)
      BY <2>1, <1>3
    <3> QED BY <2>1, <3>1, <1>1, <1>6
  <2>2. CASE j = at
    BY <2>2, <1>6
  <2>3. CASE j > at
    <3>1. j - 1 \in at..Len(rest) /\ (j - 1) + 1 = j /\ j - 1 \in 1..(Len(seq) - 1)
      BY <2>3, <1>1, <1>3
    <3>2. InsertAt(rest, at, x)[j] = rest[j - 1]
      BY <3>1, <1>7
    <3>3. rest[j - 1] = seq[IF j - 1 < from THEN j - 1 ELSE (j - 1) + 1]
      BY <3>1, <1>1
    <3> QED BY <2>3, <3>2, <3>3, <1>3
  <2> QED BY <2>1, <2>2, <2>3, <1>3
<1> QED BY <1>1, <1>2, <1>3, <1>5, <1>8 DEF x, MovedRow

(* A move loses and doubles nothing.                                         *)
LEMMA MoveRowKeeps ==
  ASSUME NEW X, NEW seq \in Seq(X), NEW from \in 1..Len(seq), NEW to \in Int
  PROVE  /\ MoveRow(seq, from, to) \in Seq(X)
         /\ Len(MoveRow(seq, from, to)) = Len(seq)
         /\ Range(MoveRow(seq, from, to)) = Range(seq)
         /\ IsInjective(seq) => IsInjective(MoveRow(seq, from, to))
<1> DEFINE at == Nearest(seq, to)
           m == MoveRow(seq, from, to)
           Old(j) == IF j = at THEN from
                     ELSE LET i == IF j < at THEN j ELSE j - 1
                          IN  IF i < from THEN i ELSE i + 1
           New(k) == IF k = from THEN at
                     ELSE LET i == IF k < from THEN k ELSE k - 1
                          IN  IF i < at THEN i ELSE i + 1
<1>1. at \in 1..Len(seq)
  BY DEF Nearest
<1> HIDE DEF at
<1>2. m \in Seq(X) /\ Len(m) = Len(seq)
  BY <1>1, MoveRowFacts DEF at
<1>3. \A j \in 1..Len(seq) : m[j] = seq[Old(j)]
  BY <1>1, MoveRowFacts DEF at, MovedRow
<1> HIDE DEF m
<1>4. \A j \in 1..Len(seq) : Old(j) \in 1..Len(seq) /\ New(Old(j)) = j
  BY <1>1
<1>5. \A k \in 1..Len(seq) : New(k) \in 1..Len(seq) /\ Old(New(k)) = k
  BY <1>1
<1> HIDE DEF Old, New
<1>6. DOMAIN seq = 1..Len(seq) /\ DOMAIN m = 1..Len(seq)
  BY <1>2
<1>7. Range(m) = Range(seq)
  <2>1. ASSUME NEW y \in Range(m) PROVE y \in Range(seq)
    <3>1. PICK j \in 1..Len(seq) : y = m[j]
      BY <1>6 DEF Range
    <3>2. y = seq[Old(j)] /\ Old(j) \in 1..Len(seq)
      BY <1>3, <1>4, <3>1
    <3> QED BY <1>6, <3>2, Zenon DEF Range
  <2>2. ASSUME NEW y \in Range(seq) PROVE y \in Range(m)
    <3>1. PICK k \in 1..Len(seq) : y = seq[k]
      BY <1>6 DEF Range
    <3>2. New(k) \in 1..Len(seq) /\ m[New(k)] = seq[Old(New(k))] /\ Old(New(k)) = k
      BY <1>3, <1>5
    <3>3. New(k) \in DOMAIN m /\ y = m[New(k)]
      BY <1>6, <3>1, <3>2
    <3> QED BY <3>3, Zenon DEF Range
  <2> QED BY <2>1, <2>2
<1>8. ASSUME IsInjective(seq), NEW i \in 1..Len(seq), NEW j \in 1..Len(seq), m[i] = m[j]
      PROVE  i = j
  <2>1. seq[Old(i)] = seq[Old(j)] /\ Old(i) \in 1..Len(seq) /\ Old(j) \in 1..Len(seq)
    BY <1>3, <1>4, <1>8
  <2>2. Old(i) = Old(j)
    BY <1>6, <1>8, <2>1 DEF IsInjective
  <2> QED BY <1>4, <2>2
<1>9. IsInjective(seq) => IsInjective(m)
  BY <1>6, <1>8 DEF IsInjective
<1> QED BY <1>2, <1>7, <1>9 DEF m

(* A list without an element: its first row goes.                            *)
LEMMA WithoutFacts ==
  ASSUME NEW X, NEW seq \in Seq(X), NEW x
  PROVE  /\ Without(seq, x) \in Seq(X)
         /\ Range(Without(seq, x)) \subseteq Range(seq)
         /\ Range(seq) \ {x} \subseteq Range(Without(seq, x))
         /\ IsInjective(seq) => /\ IsInjective(Without(seq, x))
                                /\ x \notin Range(Without(seq, x))
<1> DEFINE w == Without(seq, x)
           i == Row(seq, x)
           Old(j) == IF j < i THEN j ELSE j + 1
<1>1. CASE x \notin Range(seq)
  <2>1. w = seq
    BY <1>1, RowFacts DEF Without
  <2> QED BY <1>1, <2>1
<1>2. CASE x \in Range(seq)
  <2>1. i \in 1..Len(seq) /\ seq[i] = x
    BY <1>2, RowFacts
  <2>2. w = RemoveAt(seq, i)
    BY <2>1 DEF Without
  <2> HIDE DEF i, w
  <2>3. w \in Seq(X) /\ Len(w) = Len(seq) - 1
    BY <2>1, <2>2, Removed
  <2>4. \A j \in 1..(Len(seq) - 1) : w[j] = seq[Old(j)]
    BY <2>1, <2>2, Removed
  <2>5. \A j \in 1..(Len(seq) - 1) : Old(j) \in 1..Len(seq) /\ Old(j) # i
    BY <2>1
  <2>6. \A k \in 1..Len(seq) : k # i => \E j \in 1..(Len(seq) - 1) : Old(j) = k
    <3>1. ASSUME NEW k \in 1..Len(seq), k < i PROVE k \in 1..(Len(seq) - 1) /\ Old(k) = k
      BY <2>1, <3>1
    <3>2. ASSUME NEW k \in 1..Len(seq), k > i
          PROVE  k - 1 \in 1..(Len(seq) - 1) /\ Old(k - 1) = k
      BY <2>1, <3>2
    <3> HIDE DEF Old
    <3> QED BY <2>1, <3>1, <3>2
  <2>7. \A j, k \in 1..(Len(seq) - 1) : Old(j) = Old(k) => j = k
    BY <2>1
  <2> HIDE DEF Old
  <2>8. DOMAIN seq = 1..Len(seq) /\ DOMAIN w = 1..(Len(seq) - 1)
    BY <2>3
  <2>9. ASSUME NEW y \in Range(w) PROVE \E k \in DOMAIN seq : k # i /\ y = seq[k]
    <3>1. PICK j \in 1..(Len(seq) - 1) : y = w[j]
      BY <2>8 DEF Range
    <3> QED BY <2>4, <2>5, <2>8, <3>1
  <2>10. Range(w) \subseteq Range(seq)
    BY <2>9, Zenon DEF Range
  <2>11. ASSUME NEW y \in Range(seq) \ {x} PROVE y \in Range(w)
    <3>1. PICK k \in 1..Len(seq) : y = seq[k]
      BY <2>8 DEF Range
    <3>2. k # i
      BY <2>1, <3>1
    <3>3. PICK j \in 1..(Len(seq) - 1) : Old(j) = k
      BY <2>6, <3>2
    <3>4. j \in DOMAIN w /\ y = w[j]
      BY <2>4, <2>8, <3>1, <3>3
    <3> QED BY <3>4, Zenon DEF Range
  <2>12. ASSUME IsInjective(seq) PROVE IsInjective(w) /\ x \notin Range(w)
    <3>1. x \notin Range(w)
      BY <2>1, <2>8, <2>9, <2>12 DEF IsInjective
    <3>2. ASSUME NEW j \in 1..(Len(seq) - 1), NEW k \in 1..(Len(seq) - 1), w[j] = w[k]
          PROVE  j = k
      <4>1. Old(j) \in DOMAIN seq /\ Old(k) \in DOMAIN seq /\ seq[Old(j)] = seq[Old(k)]
        BY <2>4, <2>5, <2>8, <3>2
      <4>2. Old(j) = Old(k)
        BY <2>12, <4>1 DEF IsInjective
      <4> QED BY <2>7, <4>2
    <3>3. IsInjective(w)
      BY <2>8, <3>2 DEF IsInjective
    <3> QED BY <3>1, <3>3
  <2> QED BY <2>3, <2>10, <2>11, <2>12 DEF w
<1> QED BY <1>1, <1>2

(* The same elements in some order.                                          *)
Shuffles(X, seq) ==
  {r \in Seq(X) : /\ Len(r) = Len(seq) /\ Range(r) = Range(seq)
                  /\ IsInjective(seq) => IsInjective(r)}

(* Placing elements one by one goes through shuffled lists.                  *)
Placing(f, seq, xs, to) ==
  /\ f[0] = seq
  /\ \A k \in 1..Len(xs) :
       f[k] = IF Row(f[k - 1], xs[k]) = 0 THEN f[k - 1]
              ELSE MoveRow(f[k - 1], Row(f[k - 1], xs[k]), to[k])
  /\ Placed(seq, xs, to) = f[Len(xs)]

(* The lists on the way exist: each move keeps the elements.                 *)
LEMMA PlacedSteps ==
  ASSUME NEW X, NEW seq \in Seq(X), NEW Y, NEW xs \in Seq(Y), NEW to \in [1..Len(xs) -> Int]
  PROVE  \E f \in [0..Len(xs) -> Shuffles(X, seq)] : Placing(f, seq, xs, to)
<1> DEFINE S == Shuffles(X, seq)
           n == Len(xs)
           Place(l, k) == LET from == Row(l, xs[k])
                          IN  IF from = 0 THEN l ELSE MoveRow(l, from, to[k])
           G == [k \in 1..n |-> [l \in S |-> Place(l, k)]]
           placed == CHOOSE p : p = [k \in 0..n |-> IF k = 0 THEN seq ELSE Place(p[k - 1], k)]
<1>1. Placed(seq, xs, to) = placed[n]
  BY DEF Placed
<1>2. seq \in S /\ n \in Nat
  BY DEF Shuffles
<1>3. ASSUME NEW l \in S, NEW k \in 1..n PROVE Place(l, k) \in S
  <2>1. l \in Seq(X) /\ Len(l) = Len(seq) /\ Range(l) = Range(seq)
        /\ (IsInjective(seq) => IsInjective(l))
    BY DEF Shuffles
  <2>2. CASE xs[k] \notin Range(l)
    BY <2>1, <2>2, RowFacts
  <2>3. CASE xs[k] \in Range(l)
    <3> DEFINE from == Row(l, xs[k])
    <3>1. from \in 1..Len(l) /\ from # 0
      BY <2>1, <2>3, RowFacts
    <3>2. Place(l, k) = MoveRow(l, from, to[k])
      BY <3>1
    <3> HIDE DEF from, Place
    <3>3. MoveRow(l, from, to[k]) \in S
      BY <2>1, <3>1, MoveRowKeeps DEF Shuffles
    <3> QED BY <3>2, <3>3
  <2> QED BY <2>2, <2>3
<1> HIDE DEF S, n, Place
<1>4. G \in [1..n -> [S -> S]]
  BY <1>3
<1> HIDE DEF G
<1>5. PICK f : Iteration(f, S, seq, n, G)
  BY <1>2, <1>4, Iterated, Zenon
<1>6. f \in [0..n -> S] /\ f[0] = seq /\ \A k \in 1..n : f[k] = G[k][f[k - 1]]
  BY <1>5 DEF Iteration
<1>7. f = [k \in 0..n |-> IF k = 0 THEN seq ELSE Place(f[k - 1], k)]
  <2>1. ASSUME NEW k \in 1..n PROVE f[k] = Place(f[k - 1], k)
    <3>1. k - 1 \in 0..n
      BY <1>2
    <3>2. f[k - 1] \in S
      BY <1>6, <3>1
    <3>3. G[k][f[k - 1]] = Place(f[k - 1], k)
      BY <3>2 DEF G
    <3> QED BY <1>6, <3>3
  <2> HIDE DEF Place
  <2>2. \A k \in 0..n : f[k] = IF k = 0 THEN seq ELSE Place(f[k - 1], k)
    BY <1>2, <1>6, <2>1
  <2> QED BY <1>6, <2>2
<1> HIDE DEF Place
<1>8. placed = [k \in 0..n |-> IF k = 0 THEN seq ELSE Place(placed[k - 1], k)]
  BY <1>7
<1> HIDE DEF placed
<1>9. placed[0] = seq /\ \A k \in 1..n : placed[k] = Place(placed[k - 1], k)
  BY <1>2, <1>8
<1> DEFINE T == {k \in Nat : k <= n => placed[k] \in S}
<1>10. 0 \in T
  BY <1>2, <1>9
<1>11. ASSUME NEW k \in 0..(n - 1), k \in T PROVE k + 1 \in T
  <2>1. placed[k] \in S /\ k + 1 \in 1..n /\ (k + 1) - 1 = k
    BY <1>2, <1>11
  <2>2. placed[k + 1] = Place(placed[k], k + 1)
    BY <1>9, <2>1
  <2> QED BY <1>3, <2>1, <2>2
<1>12. T \in SUBSET Nat
  OBVIOUS
<1> HIDE DEF T
<1>13. \A k \in 0..n : k \in T
  BY <1>2, <1>10, <1>11, <1>12, UpTo
<1>14. placed \in [0..n -> S]
  BY <1>8, <1>13 DEF T
<1> QED BY <1>1, <1>9, <1>14 DEF S, n, Place, Placing

(* The order of the file puts the scenes in another order, whatever names it *)
(* holds.                                                                    *)
LEMMA LoadShuffles ==
  ASSUME NEW X, NEW seq \in Seq(X), NEW Y, NEW order \in Seq(Y)
  PROVE  LoadSceneListOrder(seq, order) \in Shuffles(X, seq)
<1> DEFINE to == [k \in DOMAIN order |-> k]
<1>1. to \in [1..Len(order) -> Int] /\ LoadSceneListOrder(seq, order) = Placed(seq, order, to)
  BY DEF LoadSceneListOrder
<1> HIDE DEF to
<1>2. PICK f \in [0..Len(order) -> Shuffles(X, seq)] : Placing(f, seq, order, to)
  BY <1>1, PlacedSteps, Zenon
<1> QED BY <1>1, <1>2 DEF Placing

(* So does the order of the items of a scene with the rows that show them.   *)
LEMMA ReorderShuffles ==
  ASSUME NEW X, NEW seq \in Seq(X), NEW its \in Seq(X)
  PROVE  ReorderSources(seq, its) \in Shuffles(X, seq)
<1> DEFINE to == [k \in DOMAIN its |-> Len(seq) - k + 1]
<1>1. to \in [1..Len(its) -> Int] /\ ReorderSources(seq, its) = Placed(seq, its, to)
  BY DEF ReorderSources
<1> HIDE DEF to
<1>2. PICK f \in [0..Len(its) -> Shuffles(X, seq)] : Placing(f, seq, its, to)
  BY <1>1, PlacedSteps, Zenon
<1> QED BY <1>1, <1>2 DEF Placing

(* If the rows hold the items of the scene, each once, they come to stand in *)
(* its order: after k moves the last k rows are right, and the item that     *)
(* moves next is above them.                                                 *)
LEMMA ReorderExact ==
  ASSUME NEW X, NEW seq \in Seq(X), NEW its \in Seq(X), Len(seq) = Len(its),
         Range(seq) = Range(its), IsInjective(its)
  PROVE  ReorderSources(seq, its) = Reverse(its)
<1> DEFINE n == Len(its)
           to == [k \in DOMAIN its |-> Len(seq) - k + 1]
<1>1. /\ to \in [1..n -> Int] /\ \A k \in 1..n : to[k] = n - k + 1
      /\ ReorderSources(seq, its) = Placed(seq, its, to)
  BY DEF ReorderSources
<1>2. n \in Nat /\ DOMAIN its = 1..n
  OBVIOUS
<1> HIDE DEF to
<1>3a. PICK f \in [0..n -> Shuffles(X, seq)] : Placing(f, seq, its, to)
  BY <1>1, PlacedSteps, Zenon
<1>3. /\ f \in [0..n -> Shuffles(X, seq)] /\ f[0] = seq /\ Placed(seq, its, to) = f[n]
      /\ \A k \in 1..n :
           f[k] = IF Row(f[k - 1], its[k]) = 0 THEN f[k - 1]
                  ELSE MoveRow(f[k - 1], Row(f[k - 1], its[k]), to[k])
  BY <1>3a, Zenon DEF Placing
<1> HIDE DEF n
<1> DEFINE T == {k \in Nat : k <= n => \A j \in 1..k : f[k][n - j + 1] = its[j]}
<1>4. 0 \in T
  OBVIOUS
<1>5. ASSUME NEW k \in 0..(n - 1), k \in T PROVE k + 1 \in T
  <2> DEFINE r == f[k]
             from == Row(r, its[k + 1])
  <2>1. k + 1 \in 1..n /\ (k + 1) - 1 = k /\ k \in 0..n
    BY <1>2, <1>5
  <2>2. r \in Shuffles(X, seq)
    BY <1>3, <2>1
  <2>3. r \in Seq(X) /\ Len(r) = n /\ Range(r) = Range(its)
    BY <2>2 DEF Shuffles, n
  <2>4. \A j \in 1..k : r[n - j + 1] = its[j]
    BY <1>5, <2>1
  <2>5. f[k + 1] = IF Row(r, its[k + 1]) = 0 THEN r ELSE MoveRow(r, Row(r, its[k + 1]), to[k + 1])
    BY <1>3, <2>1
  <2>6. its[k + 1] \in Range(r)
    BY <1>2, <2>1, <2>3 DEF Range
  <2>7. from \in 1..n /\ r[from] = its[k + 1]
    BY <2>3, <2>6, RowFacts
  <2>8. f[k + 1] = MoveRow(r, from, n - k) /\ n - k \in 1..n
    BY <1>1, <1>2, <2>1, <2>5, <2>7
  <2> HIDE DEF r, from
  <2>9. from <= n - k
    <3>1. SUFFICES ASSUME from > n - k PROVE FALSE
      BY <2>7, <2>8
    <3> DEFINE i == n - from + 1
    <3>2. i \in 1..k /\ n - i + 1 = from
      BY <1>2, <2>1, <2>7, <3>1
    <3> HIDE DEF i
    <3>3. r[n - i + 1] = its[i]
      BY <2>4, <3>2
    <3>4. its[i] = its[k + 1]
      BY <2>7, <3>2, <3>3
    <3>5. i \in DOMAIN its /\ k + 1 \in DOMAIN its
      BY <1>2, <2>1, <3>2
    <3>6. i = k + 1
      BY <3>4, <3>5 DEF IsInjective
    <3> QED BY <2>1, <3>2, <3>6
  <2>10. Nearest(r, n - k) = n - k
    BY <2>3, <2>8 DEF Nearest
  <2> DEFINE m == MoveRow(r, from, n - k)
  <2>11. MovedRow(m, r, from, n - k)
    BY <2>3, <2>7, <2>8, <2>10, MoveRowFacts
  <2> HIDE DEF m
  <2>12. ASSUME NEW j \in 1..(k + 1) PROVE m[n - j + 1] = its[j]
    <3>1. CASE j = k + 1
      <4>1. n - j + 1 = n - k
        BY <3>1, <1>2, <2>1
      <4>2. m[n - k] = r[from]
        BY <2>3, <2>8, <2>11 DEF MovedRow
      <4> QED BY <3>1, <4>1, <4>2, <2>7
    <3>2. CASE j \in 1..k
      <4> DEFINE p == n - j + 1
      <4>1. p \in 1..n /\ p > n - k /\ ~(p < n - k) /\ p # n - k /\ ~(p - 1 < from) /\ (p - 1) + 1 = p
        BY <3>2, <1>2, <2>1, <2>7, <2>8, <2>9
      <4> HIDE DEF p
      <4>2. m[p] = r[p]
        BY <2>3, <2>11, <4>1 DEF MovedRow
      <4> QED BY <3>2, <4>2, <2>4 DEF p
    <3> QED BY <3>1, <3>2, <2>1
  <2>13. \A j \in 1..(k + 1) : f[k + 1][n - j + 1] = its[j]
    BY <2>8, <2>12 DEF m
  <2> QED BY <2>1, <2>13
<1>6. T \in SUBSET Nat
  OBVIOUS
<1> HIDE DEF T
<1>7. \A k \in 0..n : k \in T
  BY <1>2, <1>4, <1>5, <1>6, UpTo
<1>8. f[n] \in Seq(X) /\ Len(f[n]) = n /\ \A j \in 1..n : f[n][n - j + 1] = its[j]
  <2>1. n \in 0..n
    BY <1>2
  <2>2. f[n] \in Shuffles(X, seq)
    BY <1>3, <2>1
  <2>3. n \in T
    BY <1>7, <2>1
  <2> QED BY <1>2, <2>2, <2>3 DEF T, Shuffles, n
<1>9. \A i \in 1..n : f[n][i] = its[n - i + 1]
  <2>1. ASSUME NEW i \in 1..n PROVE f[n][i] = its[n - i + 1]
    <3>1. n - i + 1 \in 1..n /\ n - (n - i + 1) + 1 = i
      BY <1>2
    <3> QED BY <1>8, <3>1
  <2> QED BY <2>1
<1>10. Reverse(its) \in Seq(X) /\ Len(Reverse(its)) = n
       /\ \A i \in 1..n : Reverse(its)[i] = its[n - i + 1]
  BY <1>2 DEF Reverse, n
<1>11. f[n] = Reverse(its)
  BY <1>8, <1>9, <1>10, SeqEqual
<1> QED BY <1>1, <1>3, <1>11

(* A list of the names that the file holds, each once, comes to stand in the  *)
(* order of the file: after k moves the first k rows are right, and the name *)
(* that moves next is below them.                                            *)
LEMMA LoadExact ==
  ASSUME NEW X, NEW seq \in Seq(X), NEW order \in Seq(X), Len(seq) = Len(order),
         Range(seq) = Range(order), IsInjective(order)
  PROVE  LoadSceneListOrder(seq, order) = order
<1> DEFINE n == Len(order)
           to == [k \in DOMAIN order |-> k]
<1>1. /\ to \in [1..n -> Int] /\ \A k \in 1..n : to[k] = k
      /\ LoadSceneListOrder(seq, order) = Placed(seq, order, to)
  BY DEF LoadSceneListOrder
<1>2. n \in Nat /\ DOMAIN order = 1..n
  OBVIOUS
<1> HIDE DEF to
<1>3a. PICK f \in [0..n -> Shuffles(X, seq)] : Placing(f, seq, order, to)
  BY <1>1, PlacedSteps, Zenon
<1>3. /\ f \in [0..n -> Shuffles(X, seq)] /\ f[0] = seq /\ Placed(seq, order, to) = f[n]
      /\ \A k \in 1..n :
           f[k] = IF Row(f[k - 1], order[k]) = 0 THEN f[k - 1]
                  ELSE MoveRow(f[k - 1], Row(f[k - 1], order[k]), to[k])
  BY <1>3a, Zenon DEF Placing
<1> HIDE DEF n
<1> DEFINE T == {k \in Nat : k <= n => \A j \in 1..k : f[k][j] = order[j]}
<1>4. 0 \in T
  OBVIOUS
<1>5. ASSUME NEW k \in 0..(n - 1), k \in T PROVE k + 1 \in T
  <2> DEFINE r == f[k]
             from == Row(r, order[k + 1])
  <2>1. k + 1 \in 1..n /\ (k + 1) - 1 = k /\ k \in 0..n
    BY <1>2, <1>5
  <2>2. r \in Shuffles(X, seq)
    BY <1>3, <2>1
  <2>3. r \in Seq(X) /\ Len(r) = n /\ Range(r) = Range(order)
    BY <2>2 DEF Shuffles, n
  <2>4. \A j \in 1..k : r[j] = order[j]
    BY <1>5, <2>1
  <2>5. f[k + 1] = IF Row(r, order[k + 1]) = 0 THEN r
                   ELSE MoveRow(r, Row(r, order[k + 1]), to[k + 1])
    BY <1>3, <2>1
  <2>6. order[k + 1] \in Range(r)
    BY <1>2, <2>1, <2>3 DEF Range
  <2>7. from \in 1..n /\ r[from] = order[k + 1]
    BY <2>3, <2>6, RowFacts
  <2>8. f[k + 1] = MoveRow(r, from, k + 1)
    BY <1>1, <2>1, <2>5, <2>7
  <2> HIDE DEF r, from
  <2>9. from >= k + 1
    <3>1. SUFFICES ASSUME from \in 1..k PROVE FALSE
      BY <2>1, <2>7
    <3>2. order[from] = order[k + 1]
      BY <2>4, <2>7, <3>1
    <3>3. from \in DOMAIN order /\ k + 1 \in DOMAIN order
      BY <1>2, <2>1, <2>7
    <3>4. from = k + 1
      BY <3>2, <3>3 DEF IsInjective
    <3> QED BY <2>1, <3>1, <3>4
  <2>10. Nearest(r, k + 1) = k + 1
    BY <1>2, <2>1, <2>3 DEF Nearest
  <2> DEFINE m == MoveRow(r, from, k + 1)
  <2>11. MovedRow(m, r, from, k + 1)
    BY <2>1, <2>3, <2>7, <2>10, MoveRowFacts
  <2> HIDE DEF m
  <2>12. ASSUME NEW j \in 1..(k + 1) PROVE m[j] = order[j]
    <3>1. CASE j = k + 1
      BY <2>1, <2>3, <2>7, <2>11, <3>1 DEF MovedRow
    <3>2. CASE j \in 1..k
      <4>1. j \in 1..n /\ j < k + 1 /\ j # k + 1 /\ j < from
        BY <1>2, <2>1, <2>7, <2>9, <3>2
      <4>2. m[j] = r[j]
        BY <2>3, <2>11, <4>1 DEF MovedRow
      <4> QED BY <2>4, <3>2, <4>2
    <3> QED BY <2>1, <3>1, <3>2
  <2>13. \A j \in 1..(k + 1) : f[k + 1][j] = order[j]
    BY <2>8, <2>12 DEF m
  <2> QED BY <2>1, <2>13
<1>6. T \in SUBSET Nat
  OBVIOUS
<1> HIDE DEF T
<1>7. \A k \in 0..n : k \in T
  BY <1>2, <1>4, <1>5, <1>6, UpTo
<1>8. f[n] \in Seq(X) /\ Len(f[n]) = n /\ \A j \in 1..n : f[n][j] = order[j]
  <2>1. n \in 0..n
    BY <1>2
  <2>2. f[n] \in Shuffles(X, seq)
    BY <1>3, <2>1
  <2>3. n \in T
    BY <1>7, <2>1
  <2> QED BY <1>2, <2>2, <2>3 DEF T, Shuffles, n
<1>9. f[n] = order
  BY <1>8, SeqEqual DEF n
<1> QED BY <1>1, <1>3, <1>9

(* The rows of the items: the lowest item is in the last row.                *)
LEMMA ReverseFacts ==
  ASSUME NEW X, NEW seq \in Seq(X)
  PROVE  /\ Reverse(seq) \in Seq(X) /\ Len(Reverse(seq)) = Len(seq)
         /\ \A i \in 1..Len(seq) : Reverse(seq)[i] = seq[Len(seq) - i + 1]
         /\ Range(Reverse(seq)) = Range(seq)
         /\ IsInjective(seq) => IsInjective(Reverse(seq))
<1> DEFINE n == Len(seq)
           r == Reverse(seq)
<1>1. r \in Seq(X) /\ Len(r) = n /\ \A i \in 1..n : r[i] = seq[n - i + 1]
  BY DEF Reverse
<1>2. DOMAIN r = 1..n /\ DOMAIN seq = 1..n /\ n \in Nat
  BY <1>1
<1> HIDE DEF n, r
<1>3. \A i \in 1..n : n - i + 1 \in 1..n /\ n - (n - i + 1) + 1 = i
  BY <1>2
<1>4. \A i \in 1..n : r[n - i + 1] = seq[i]
  BY <1>1, <1>3
<1>5. Range(r) \subseteq Range(seq)
  BY <1>1, <1>2, <1>3 DEF Range
<1>6. Range(seq) \subseteq Range(r)
  BY <1>2, <1>3, <1>4 DEF Range
<1>7. ASSUME IsInjective(seq), NEW i \in 1..n, NEW j \in 1..n, r[i] = r[j]
      PROVE  i = j
  <2>1. seq[n - i + 1] = seq[n - j + 1]
    BY <1>1, <1>7
  <2>2. n - i + 1 = n - j + 1
    BY <1>2, <1>3, <1>7, <2>1 DEF IsInjective
  <2> QED BY <1>2, <2>2
<1>8. IsInjective(seq) => IsInjective(r)
  BY <1>2, <1>7 DEF IsInjective
<1> QED BY <1>1, <1>5, <1>6, <1>8 DEF n, r

(* A new item comes into the first row.                                      *)
LEMMA ReverseAppend ==
  ASSUME NEW X, NEW seq \in Seq(X), NEW x \in X
  PROVE  Reverse(Append(seq, x)) = <<x>> \o Reverse(seq)
<1> DEFINE n == Len(seq)
           a == Append(seq, x)
           r == Reverse(seq)
           b == <<x>> \o r
<1>1. /\ a \in Seq(X) /\ Len(a) = n + 1 /\ a[n + 1] = x
      /\ \A i \in 1..n : a[i] = seq[i]
  OBVIOUS
<1>2. n \in Nat
  OBVIOUS
<1>3. r \in Seq(X) /\ Len(r) = n /\ \A i \in 1..n : r[i] = seq[n - i + 1]
  BY ReverseFacts
<1> HIDE DEF r
<1>4. /\ b \in Seq(X) /\ Len(b) = n + 1 /\ b[1] = x
      /\ \A i \in 1..n : b[i + 1] = r[i]
  BY <1>3
<1> HIDE DEF a, b, n
<1>5. /\ Reverse(a) \in Seq(X) /\ Len(Reverse(a)) = n + 1
      /\ \A i \in 1..(n + 1) : Reverse(a)[i] = a[(n + 1) - i + 1]
  BY <1>1, ReverseFacts
<1>6. ASSUME NEW i \in 1..(n + 1) PROVE Reverse(a)[i] = b[i]
  <2>1. CASE i = 1
    <3>1. (n + 1) - i + 1 = n + 1
      BY <2>1, <1>2
    <3> QED BY <2>1, <3>1, <1>1, <1>4, <1>5
  <2>2. CASE i # 1
    <3>1. i - 1 \in 1..n /\ (i - 1) + 1 = i /\ n - (i - 1) + 1 = (n + 1) - i + 1
          /\ (n + 1) - i + 1 \in 1..n
      BY <2>2, <1>2
    <3>2. b[i] = r[i - 1] /\ r[i - 1] = seq[n - (i - 1) + 1]
      BY <1>3, <1>4, <3>1
    <3>3. a[(n + 1) - i + 1] = seq[(n + 1) - i + 1]
      BY <1>1, <3>1
    <3> QED BY <1>5, <3>1, <3>2, <3>3
  <2> QED BY <2>1, <2>2
<1>7. Reverse(a) = b
  BY <1>4, <1>5, <1>6, SeqEqual
<1> QED BY <1>7 DEF a, b, r

(* An item that goes leaves both lists.                                      *)
LEMMA ReverseWithout ==
  ASSUME NEW X, NEW seq \in Seq(X), IsInjective(seq), NEW x
  PROVE  Without(Reverse(seq), x) = Reverse(Without(seq, x))
<1> DEFINE n == Len(seq)
           r == Reverse(seq)
           w == Without(seq, x)
           i == Row(seq, x)
           j == Row(r, x)
<1>1. /\ r \in Seq(X) /\ Len(r) = n /\ \A k \in 1..n : r[k] = seq[n - k + 1]
      /\ Range(r) = Range(seq) /\ IsInjective(r)
  BY ReverseFacts
<1> HIDE DEF r
<1>2. CASE x \notin Range(seq)
  <2>1. w = seq
    BY <1>2, RowFacts DEF Without
  <2>2. Without(r, x) = r
    BY <1>1, <1>2, RowFacts DEF Without
  <2> QED BY <2>1, <2>2 DEF r
<1>3. CASE x \in Range(seq)
  <2>1. i \in 1..n /\ seq[i] = x /\ w = RemoveAt(seq, i)
    <3>1. i \in 1..n /\ seq[i] = x
      BY <1>3, RowFacts
    <3> QED BY <3>1 DEF Without
  <2>2. j \in 1..n /\ r[j] = x /\ Without(r, x) = RemoveAt(r, j)
    <3>1. j \in 1..n /\ r[j] = x
      BY <1>1, <1>3, RowFacts
    <3> QED BY <3>1 DEF Without
  <2> HIDE DEF i, j, w
  <2>3. n \in Nat /\ DOMAIN seq = 1..n
    OBVIOUS
  <2>4. i = n - j + 1
    <3>1. n - j + 1 \in 1..n /\ seq[n - j + 1] = x
      BY <1>1, <2>2, <2>3
    <3> QED BY <2>1, <2>3, <3>1 DEF IsInjective
  <2>5. /\ w \in Seq(X) /\ Len(w) = n - 1
        /\ \A k \in 1..(n - 1) : w[k] = seq[IF k < i THEN k ELSE k + 1]
    BY <2>1, Removed
  <2> DEFINE rw == RemoveAt(r, j)
  <2>6. /\ rw \in Seq(X) /\ Len(rw) = n - 1
        /\ \A k \in 1..(n - 1) : rw[k] = r[IF k < j THEN k ELSE k + 1]
    <3>1. r \in Seq(X) /\ j \in 1..Len(r)
      BY <1>1, <2>2
    <3>2. /\ rw \in Seq(X) /\ Len(rw) = Len(r) - 1
          /\ \A k \in 1..(Len(r) - 1) : rw[k] = r[IF k < j THEN k ELSE k + 1]
      BY <3>1, Removed
    <3> QED BY <1>1, <3>2
  <2>7. /\ Reverse(w) \in Seq(X) /\ Len(Reverse(w)) = n - 1
        /\ \A k \in 1..(n - 1) : Reverse(w)[k] = w[(n - 1) - k + 1]
    BY <2>5, ReverseFacts
  <2> HIDE DEF n, rw
  <2>8. ASSUME NEW k \in 1..(n - 1) PROVE rw[k] = Reverse(w)[k]
    <3> DEFINE h == (n - 1) - k + 1
    <3>1. h \in 1..(n - 1) /\ h = n - k /\ (h < i <=> ~(k < j))
      BY <2>1, <2>2, <2>3, <2>4
    <3>2. Reverse(w)[k] = seq[IF h < i THEN h ELSE h + 1]
      BY <2>5, <2>7, <3>1
    <3>3. CASE k < j
      <4>1. rw[k] = r[k] /\ r[k] = seq[n - k + 1]
        BY <1>1, <2>3, <2>6, <3>3
      <4>2. Reverse(w)[k] = seq[h + 1]
        BY <3>1, <3>2, <3>3
      <4> QED BY <3>1, <4>1, <4>2
    <3>4. CASE ~(k < j)
      <4>1. k + 1 \in 1..n /\ n - (k + 1) + 1 = n - k
        BY <2>3
      <4>2. rw[k] = r[k + 1] /\ r[k + 1] = seq[n - (k + 1) + 1]
        BY <1>1, <2>6, <3>4, <4>1
      <4>3. Reverse(w)[k] = seq[h]
        BY <3>1, <3>2, <3>4
      <4> QED BY <3>1, <4>1, <4>2, <4>3
    <3> QED BY <3>3, <3>4
  <2>9. rw = Reverse(w)
    BY <2>6, <2>7, <2>8, SeqEqual
  <2> QED BY <2>2, <2>9 DEF r, w, rw
<1> QED BY <1>2, <1>3

(* The list that SetToSeq makes of a set.                                    *)
LEMMA SetToSeqFacts ==
  ASSUME NEW S, IsFiniteSet(S)
  PROVE  SetToSeq(S) \in Seq(S) /\ IsInjective(SetToSeq(S)) /\ Range(SetToSeq(S)) = S
<1> DEFINE n == Cardinality(S)
<1>1. n \in Nat /\ ExistsBijection(1..n, S)
  BY FS_CardinalityType
<1>2. PICK b : b \in Bijection(1..n, S)
  BY <1>1 DEF ExistsBijection
<1>3. b \in [1..n -> S] /\ IsInjective(b)
  BY <1>2 DEF Bijection, Injection
<1>4. SetToSeq(S) \in [1..n -> S] /\ IsInjective(SetToSeq(S))
  BY <1>3 DEF SetToSeq
<1> DEFINE q == SetToSeq(S)
<1> HIDE DEF n, q
<1>5. q \in Seq(S)
  BY <1>1, <1>4 DEF q
<1>6. q \in Injection(1..n, S)
  BY <1>4 DEF Injection, q
<1>7. IsFiniteSet(1..n) /\ Cardinality(1..n) = n
  BY <1>1, FS_Interval
<1>8. q \in Surjection(1..n, S)
  BY <1>6, <1>7, FS_Injection DEF n
<1>9. Range(q) = S
  BY <1>4, <1>8 DEF Surjection, Range, q
<1> QED BY <1>4, <1>5, <1>9 DEF q

(* A list that holds nothing twice is as long as the set of what it holds.   *)
LEMMA InjectiveLength ==
  ASSUME NEW X, NEW seq \in Seq(X), IsInjective(seq)
  PROVE  IsFiniteSet(Range(seq)) /\ Cardinality(Range(seq)) = Len(seq)
<1>1. Len(seq) \in Nat /\ DOMAIN seq = 1..Len(seq)
  OBVIOUS
<1>2. IsFiniteSet(1..Len(seq)) /\ Cardinality(1..Len(seq)) = Len(seq)
  <2>1. \A n \in Nat : IsFiniteSet(1..n) /\ Cardinality(1..n) = n
    BY FS_Interval
  <2> QED BY <1>1, <2>1
<1>3. seq \in Surjection(1..Len(seq), Range(seq))
  BY <1>1 DEF Surjection, Range
<1>4. seq \in Injection(1..Len(seq), Range(seq))
  BY <1>1 DEF Injection, Range
<1> QED BY <1>2, <1>3, <1>4, FS_Surjection

-----------------------------------------------------------------------------
(* The parts of steps.                                                       *)

(* The invariant implies the two properties.                                 *)
LEMMA InvMirrors == ListInv => TypeOK /\ ListsMirror /\ FilesAreTheirOwn
<1> SUFFICES ASSUME ListInv PROVE TypeOK /\ ListsMirror
  BY DEF ListInv
<1> USE DEF ListInv
<1>1. TypeOK
  BY DEF TypeOK, DataTypes, Phases, ListedOnce, Orders
<1>2. ASSUME phase = "running", slots = <<>>
      PROVE  /\ Range(list) = scenes /\ Len(list) = Cardinality(scenes)
             /\ current # None => Range(items[current]) \subseteq Range(rows)
             /\ current # None /\ ~env.threads => rows = Reverse(items[current])
             /\ current = None => rows = <<>>
  <2>1. Waiting = {}
    BY <1>2 DEF Waiting, Range
  <2>2. Range(list) = scenes
    BY <2>1 DEF ListedOnce
  <2>3. Len(list) = Cardinality(scenes)
    BY <2>2, InjectiveLength DEF ListedOnce
  <2>4. current # None => Range(items[current]) \subseteq Range(rows)
    BY <2>1 DEF ItemsListed
  <2> QED BY <2>2, <2>3, <2>4 DEF ItemsListed, Alone
<1> QED BY <1>1, <1>2 DEF ListsMirror

(* The queue when it grows and when it is taken from.                        *)
LEMMA QueueFacts ==
  ASSUME NEW q \in Seq(Slot)
  PROVE  /\ Range(q) \subseteq Slot
         /\ \A m \in Slot : Append(q, m) \in Seq(Slot) /\ Range(Append(q, m)) = Range(q) \cup {m}
         /\ q # <<>> => /\ Head(q) \in Slot /\ Tail(q) \in Seq(Slot)
                        /\ Range(q) = {Head(q)} \cup Range(Tail(q))
<1>1. Range(q) \subseteq Slot
  BY RangeOfSeq
<1>2. ASSUME NEW m \in Slot
      PROVE  Append(q, m) \in Seq(Slot) /\ Range(Append(q, m)) = Range(q) \cup {m}
  <2>1. DOMAIN Append(q, m) = 1..(Len(q) + 1) /\ DOMAIN q = 1..Len(q)
    OBVIOUS
  <2> QED BY <2>1 DEF Range
<1>3. ASSUME q # <<>>
      PROVE  /\ Head(q) \in Slot /\ Tail(q) \in Seq(Slot)
             /\ Range(q) = {Head(q)} \cup Range(Tail(q))
  <2>1. Head(q) \in Slot /\ Tail(q) \in Seq(Slot)
    BY <1>3
  <2>2. Head(q) = q[1] /\ Len(q) \in Nat /\ Len(q) >= 1 /\ DOMAIN q = 1..Len(q)
        /\ Len(Tail(q)) = Len(q) - 1 /\ DOMAIN Tail(q) = 1..(Len(q) - 1)
        /\ \A i \in 1..(Len(q) - 1) : Tail(q)[i] = q[i + 1]
    BY <1>3
  <2>3. \A i \in 2..Len(q) : i - 1 \in 1..(Len(q) - 1) /\ (i - 1) + 1 = i
    BY <2>2
  <2>4. ASSUME NEW x \in Range(q) PROVE x \in {Head(q)} \cup Range(Tail(q))
    <3>1. PICK i \in 1..Len(q) : x = q[i]
      BY <2>2 DEF Range
    <3>2. CASE i = 1
      BY <2>2, <3>1, <3>2
    <3>3. CASE i # 1
      <4>1. i \in 2..Len(q)
        BY <2>2, <3>3
      <4>2. i - 1 \in DOMAIN Tail(q) /\ x = Tail(q)[i - 1]
        BY <2>2, <2>3, <3>1, <4>1
      <4> QED BY <4>2, Zenon DEF Range
    <3> QED BY <3>2, <3>3
  <2>5. Range(Tail(q)) \subseteq Range(q)
    BY <2>2 DEF Range
  <2>6. Head(q) \in Range(q)
    BY <2>2 DEF Range
  <2> QED BY <2>1, <2>4, <2>5, <2>6
<1> QED BY <1>1, <1>2, <1>3

(* A new slot in the queue, when saving is enabled.                          *)
LEMMA SaveProjectFacts ==
  ASSUME NEW q \in Seq(Slot), SaveProject(q), projectChanged \in BOOLEAN
  PROVE  /\ slots' \in Seq(Slot) /\ projectChanged' \in BOOLEAN
         /\ Range(q) \subseteq Waiting'
         /\ Waiting' \subseteq Range(q) \cup {[slot |-> "save"]}
<1>1. [slot |-> "save"] \in Slot
  BY DEF Slot
<1>2. CASE disableSaving > 0
  BY <1>2 DEF SaveProject, Waiting
<1>3. CASE ~(disableSaving > 0)
  <2> DEFINE m == [slot |-> "save"]
  <2>1. slots' = Append(q, m) /\ projectChanged' = TRUE
    BY <1>3 DEF SaveProject
  <2>2. Waiting' = Range(slots')
    BY DEF Waiting
  <2> HIDE DEF m
  <2>3. Append(q, m) \in Seq(Slot) /\ Range(Append(q, m)) = Range(q) \cup {m}
    BY <1>1, QueueFacts DEF m
  <2> QED BY <2>1, <2>2, <2>3 DEF m
<1> QED BY <1>2, <1>3

(* What is left of the queue when the scenes are cleared.                    *)
LEMMA ClearedQueue ==
  ASSUME NEW q \in Seq(Slot)
  PROVE  /\ ClearSceneData(q) \in Seq(Slot)
         /\ \A m \in Range(ClearSceneData(q)) : m.slot \in {"save", "stale", "gone"}
         /\ (\A m \in Range(q) : m.slot = "save")
              => \A m \in Range(ClearSceneData(q)) : m.slot = "save"
<1> DEFINE c == ClearSceneData(q)
<1>1. DOMAIN q = 1..Len(q) /\ Len(q) \in Nat
  OBVIOUS
<1>2. DOMAIN c = 1..Len(q) /\ \A k \in 1..Len(q) : c[k] = Cleared(q[k])
  BY <1>1 DEF ClearSceneData
<1>3. c = [k \in 1..Len(q) |-> c[k]]
  BY <1>1 DEF ClearSceneData
<1>4. ASSUME NEW m
      PROVE  /\ Cleared(m) \in Slot /\ Cleared(m).slot \in {"save", "stale", "gone"}
             /\ m.slot = "save" => Cleared(m).slot = "save"
  BY DEF Cleared, Slot
<1> HIDE DEF c
<1>5. c \in Seq(Slot)
  BY <1>1, <1>2, <1>3, <1>4
<1>6. ASSUME NEW m \in Range(c) PROVE \E k \in 1..Len(q) : m = Cleared(q[k]) /\ q[k] \in Range(q)
  BY <1>1, <1>2 DEF Range
<1> QED BY <1>4, <1>5, <1>6 DEF c

(* What the window shows of a scene.                                         *)
LEMMA ShowFacts ==
  ASSUME NEW s \in Scenes \cup {None}, NEW its \in [Scenes -> Orders], Show(s, its)
  PROVE  /\ current' = s /\ rows' \in Seq(Items)
         /\ s # None => rows' = Reverse(its[s]) /\ Range(rows') = Range(its[s])
         /\ s = None => rows' = <<>>
<1>1. CASE s = None
  BY <1>1 DEF Show
<1>2. CASE s # None
  <2>1. its[s] \in Seq(Items)
    BY <1>2 DEF Orders
  <2> QED BY <1>2, <2>1, ReverseFacts DEF Show, UpdateSources
<1> QED BY <1>1, <1>2

(* What is written goes into the file of the collection whose scenes there   *)
(* are.                                                                      *)
LEMMA FilesStep ==
  ASSUME ListInv, UNCHANGED env,
         UNCHANGED file \/ (phase = "running" /\ file' = [file EXCEPT ![collection] = Snapshot])
  PROVE  /\ DOMAIN file' = Collections /\ \A c \in Collections : IsFile(file'[c])
         /\ FilesAreTheirOwn'
<1> USE DEF ListInv
<1>1. CASE UNCHANGED file
  BY <1>1 DEF DataTypes, FilesAreTheirOwn
<1>2. CASE phase = "running" /\ file' = [file EXCEPT ![collection] = Snapshot]
  <2> DEFINE f == Snapshot
  <2>1. f.order = list /\ f.current = current /\ DOMAIN f.items = scenes
        /\ \A s \in scenes : f.items[s] = items[s]
    BY DEF Snapshot
  <2> HIDE DEF f
  <2>2. IsFile(f)
    <3>1. list \in Seq(Scenes) /\ current \in Scenes \cup {None}
      BY RangeOfSeq DEF ListedOnce
    <3> QED BY <2>1, <3>1 DEF IsFile, DataTypes
  <2>3. DOMAIN file' = Collections
        /\ \A c \in Collections : file'[c] = IF c = collection THEN f ELSE file[c]
    BY <1>2 DEF DataTypes, f
  <2>4. \A c \in Collections : IsFile(file'[c])
    BY <2>2, <2>3 DEF DataTypes
  <2>5. ASSUME ~env.missing, NEW c \in Collections
        PROVE  /\ \A s \in DOMAIN file'[c].items : Home[s] = c
               /\ ~env.threads => DOMAIN file'[c].items # {}
    BY <1>2, <2>1, <2>3, <2>5 DEF Belong, FilesAreTheirOwn
  <2> QED BY <2>3, <2>4, <2>5 DEF FilesAreTheirOwn
<1> QED BY <1>1, <1>2

-----------------------------------------------------------------------------
(* The steps.                                                                *)

(* A scene without items.                                                    *)
LEMMA NoOrder == <<>> \in Orders /\ NoItems \in [Scenes -> Orders]
  BY DEF Orders, IsInjective, NoItems

(* What is loaded: a file of the collection, or one scene where the file is  *)
(* gone.                                                                     *)
LEMMA LoadStep ==
  ASSUME ListInv, NEW c \in Collections, Load(c, file[c]),
         phase' = "running", disableSaving' = 0, UNCHANGED env, changes' \in 0..MaxChanges,
         UNCHANGED file \/ (phase = "running" /\ file' = [file EXCEPT ![collection] = Snapshot])
  PROVE  ListInv'
<1> USE DEF ListInv
<1>1. /\ DOMAIN file' = Collections /\ \A d \in Collections : IsFile(file'[d])
      /\ FilesAreTheirOwn'
  BY FilesStep
<1> DEFINE q == ClearSceneData(slots)
<1>2. /\ q \in Seq(Slot)
      /\ \A m \in Range(q) : m.slot \in {"save", "stale", "gone"}
      /\ ~env.threads => \A m \in Range(q) : m.slot = "save"
  <2>1. slots \in Seq(Slot) /\ (~env.threads => \A m \in Range(slots) : m.slot = "save")
    BY DEF DataTypes, Alone, Waiting
  <2> QED BY <2>1, ClearedQueue
<1> HIDE DEF q
<1>3. CASE LoadFile(c, file[c]) /\ projectChanged' = FALSE
  <2> DEFINE f == file[c]
             D == DOMAIN f.items
             its == [s \in Scenes |-> IF s \in D THEN f.items[s] ELSE <<>>]
  <2>1. IsFile(f)
    BY DEF DataTypes
  <2>2. D \subseteq Scenes /\ IsFiniteSet(D)
    BY <2>1 DEF IsFile
  <2>3. its \in [Scenes -> Orders]
    BY <2>1, NoOrder DEF IsFile
  <2>4. scenes' = D /\ items' = its /\ collection' = c /\ slots' = q
    BY <1>3 DEF LoadFile, q
  <2>5. list' = LoadSceneListOrder(SetToSeq(D), f.order)
    BY <1>3 DEF LoadFile
  <2>6. Show(IF f.current \in D THEN f.current ELSE None, its)
    BY <1>3 DEF LoadFile
  <2> HIDE DEF its
  <2>7. list' \in Seq(Scenes) /\ IsInjective(list') /\ Range(list') = D
    <3>1. SetToSeq(D) \in Seq(D) /\ IsInjective(SetToSeq(D)) /\ Range(SetToSeq(D)) = D
      BY <2>2, SetToSeqFacts
    <3>2. LoadSceneListOrder(SetToSeq(D), f.order) \in Shuffles(D, SetToSeq(D))
      BY <2>1, <3>1, LoadShuffles DEF IsFile
    <3>3. list' \in Seq(D) /\ Range(list') = D /\ IsInjective(list')
      BY <2>5, <3>1, <3>2 DEF Shuffles
    <3>4. Seq(D) \subseteq Seq(Scenes)
      BY <2>2, SeqMonotonic
    <3> QED BY <3>3, <3>4
  <2>8. /\ current' \in D \cup {None} /\ rows' \in Seq(Items)
        /\ current' # None => rows' = Reverse(its[current']) /\ Range(rows') = Range(its[current'])
        /\ current' = None => rows' = <<>>
    BY <2>2, <2>3, <2>6, ShowFacts
  <2>9. Waiting' = Range(q)
    BY <2>4 DEF Waiting
  <2>10. DataTypes'
    BY <1>1, <1>2, <1>3, <2>2, <2>3, <2>4, <2>8 DEF DataTypes
  <2>11. Phases'
    BY DEF Phases
  <2>12. ListedOnce'
    BY <1>2, <2>4, <2>7, <2>8, <2>9 DEF ListedOnce
  <2>13. ItemsListed'
    BY <1>2, <2>4, <2>8, <2>9 DEF ItemsListed
  <2>14. Alone'
    BY <1>2, <2>4, <2>8, <2>9 DEF Alone
  <2>15. Belong'
    BY <2>4 DEF Belong, FilesAreTheirOwn
  <2> QED BY <1>1, <2>10, <2>11, <2>12, <2>13, <2>14, <2>15
<1>4. CASE /\ env.missing
           /\ CreateDefaultScene(c)
           /\ slots' = Append(q, [slot |-> "save"])
           /\ projectChanged' = TRUE
  <2> DEFINE d == Default[c]
             m0 == [slot |-> "save"]
  <2>1. d \in Scenes
    BY SceneCollectionAssumption
  <2>2. scenes' = {d} /\ items' = NoItems /\ list' = <<d>> /\ Show(d, NoItems)
        /\ collection' = collection
    BY <1>4 DEF CreateDefaultScene
  <2>3. m0 \in Slot /\ m0.slot = "save"
    BY DEF Slot
  <2> HIDE DEF d, m0
  <2>4. slots' \in Seq(Slot) /\ Waiting' = Range(q) \cup {m0}
    <3>1. slots' = Append(q, m0)
      BY <1>4 DEF m0
    <3>2. Append(q, m0) \in Seq(Slot) /\ Range(Append(q, m0)) = Range(q) \cup {m0}
      BY <1>2, <2>3, QueueFacts
    <3> QED BY <3>1, <3>2 DEF Waiting
  <2>5. /\ \A m \in Waiting' : m.slot \in {"save", "stale", "gone"}
        /\ ~env.threads => \A m \in Waiting' : m.slot = "save"
    BY <1>2, <2>3, <2>4
  <2>6. list' \in Seq(Scenes) /\ IsInjective(list') /\ Range(list') = {d}
    BY <2>1, <2>2 DEF IsInjective, Range
  <2>7. current' = d /\ rows' \in Seq(Items)
        /\ rows' = Reverse(NoItems[d]) /\ Range(rows') = Range(NoItems[d]) /\ d # None
    BY <2>1, <2>2, NoOrder, ShowFacts, SceneCollectionAssumption
  <2>8. DataTypes'
    <3>1. IsFiniteSet({d})
      BY FS_Singleton
    <3> QED BY <1>1, <1>4, <2>1, <2>2, <2>4, <2>7, <3>1, NoOrder DEF DataTypes
  <2>9. Phases'
    BY DEF Phases
  <2>10. ListedOnce'
    BY <2>2, <2>5, <2>6, <2>7 DEF ListedOnce
  <2>11. ItemsListed'
    BY <2>2, <2>5, <2>7 DEF ItemsListed
  <2>12. Alone'
    BY <2>2, <2>5, <2>7 DEF Alone
  <2>13. Belong'
    BY <1>4 DEF Belong
  <2> QED BY <1>1, <2>8, <2>9, <2>10, <2>11, <2>12, <2>13
<1> QED BY <1>3, <1>4 DEF Load, q

(* The scene that is shown after one has left the list.                      *)
LEMMA RemoveSceneFacts ==
  ASSUME DataTypes, ListedOnce, NEW s \in Scenes, RemoveScene(s)
  PROVE  /\ list' \in Seq(Scenes) /\ IsInjective(list') /\ Range(list') = Range(list) \ {s}
         /\ current' \in Range(list') \cup {None}
         /\ rows' \in Seq(Items)
         /\ s # current => UNCHANGED <<current, rows>>
         /\ s = current => /\ current' # None => /\ rows' = Reverse(items[current'])
                                                 /\ Range(rows') = Range(items[current'])
                           /\ current' = None => rows' = <<>>
<1> DEFINE left == Without(list, s)
           i == Row(list, s)
           next == IF left = <<>> THEN None
                   ELSE left[IF i <= Len(left) THEN i ELSE Len(left)]
<1>1. list \in Seq(Scenes) /\ IsInjective(list) /\ current \in Range(list) \cup {None}
      /\ items \in [Scenes -> Orders] /\ rows \in Seq(Items) /\ None \notin Scenes
  BY SceneCollectionAssumption DEF DataTypes, ListedOnce
<1>2. /\ list' = left
      /\ IF i = 0 \/ s # current THEN UNCHANGED <<current, rows>> ELSE Show(next, items)
  BY DEF RemoveScene
<1>3. left \in Seq(Scenes) /\ IsInjective(left) /\ Range(left) = Range(list) \ {s}
  BY <1>1, WithoutFacts
<1>4. CASE s # current
  BY <1>1, <1>2, <1>3, <1>4
<1>5. CASE s = current
  <2>1. i \in 1..Len(list)
    BY <1>1, <1>5, RowFacts
  <2>2. next \in Range(left) \cup {None} /\ next \in Scenes \cup {None}
    <3>1. CASE left = <<>>
      BY <3>1
    <3>2. CASE left # <<>>
      <4> DEFINE j == IF i <= Len(left) THEN i ELSE Len(left)
      <4>1. j \in 1..Len(left) /\ next = left[j]
        BY <1>3, <2>1, <3>2
      <4>2. left[j] \in Range(left) /\ left[j] \in Scenes
        BY <1>3, <4>1 DEF Range
      <4> QED BY <4>1, <4>2
    <3> QED BY <3>1, <3>2
  <2>3. Show(next, items)
    BY <1>2, <1>5, <2>1
  <2> HIDE DEF next, left
  <2> QED BY <1>1, <1>2, <1>3, <1>5, <2>2, <2>3, ShowFacts
<1> QED BY <1>4, <1>5

(* A queued slot runs.                                                       *)
LEMMA RunSlotStep ==
  ASSUME ListInv, RunSlot
  PROVE  ListInv'
<1> USE DEF ListInv
<1> DEFINE m == Head(slots)
           q == Tail(slots)
<1>1. m \in Slot /\ q \in Seq(Slot) /\ Waiting = {m} \cup Range(q)
  BY QueueFacts DEF RunSlot, Waiting, DataTypes
<1>2. UNCHANGED <<env, phase, collection, scenes, items, disableSaving, changes>>
  BY DEF RunSlot, lib
<1> HIDE DEF m, q
(* What the step does, whatever the slot.                                    *)
<1>3. ASSUME slots' \in Seq(Slot), projectChanged' \in BOOLEAN,
             Range(q) \subseteq Waiting', Waiting' \subseteq Range(q) \cup {[slot |-> "save"]},
             UNCHANGED file \/ (phase = "running" /\ file' = [file EXCEPT ![collection] = Snapshot]),
             rows' \in Seq(Items),
             phase # "running" => UNCHANGED <<list, current>>,
             ListedOnce',
             current' # None =>
               \A i \in Range(items[current']) \ Range(rows') :
                 [slot |-> "addItem", scene |-> current', item |-> i] \in Range(q),
             current' = None => rows' = <<>>,
             ~env.threads => UNCHANGED <<current, rows>>
      PROVE  ListInv'
  <2>1. /\ DOMAIN file' = Collections /\ \A c \in Collections : IsFile(file'[c])
        /\ FilesAreTheirOwn'
    BY <1>2, <1>3, FilesStep
  <2>2. DataTypes'
    BY <1>2, <1>3, <2>1 DEF DataTypes
  <2>3. Phases'
    BY <1>1, <1>2, <1>3 DEF Phases
  <2>4. ItemsListed'
    <3>1. \A x \in Waiting' : x.slot = "removeItem" => x.item \notin Range(items'[x.scene])
      BY <1>1, <1>2, <1>3 DEF ItemsListed
    <3> QED BY <1>2, <1>3, <3>1 DEF ItemsListed
  <2>5. Alone'
    BY <1>1, <1>2, <1>3 DEF Alone
  <2>6. Belong'
    BY <1>2 DEF Belong
  <2> QED BY <1>3, <2>1, <2>2, <2>3, <2>4, <2>5, <2>6
<1>4. ASSUME Range(q) \subseteq Waiting', Waiting' \subseteq Range(q) \cup {[slot |-> "save"]},
             UNCHANGED <<list, current>>, m.slot # "removeScene"
      PROVE  ListedOnce'
  <2>1. ASSUME NEW s \in Range(list) \ scenes
        PROVE  [slot |-> "removeScene", scene |-> s] \in Range(q)
    <3>1. [slot |-> "removeScene", scene |-> s] \in Waiting
      BY DEF ListedOnce
    <3>2. [slot |-> "removeScene", scene |-> s] # m
      BY <1>4
    <3> QED BY <1>1, <3>1, <3>2
  <2>2. \A x \in Waiting' : x.slot = "removeScene" => x.scene \notin scenes
    BY <1>1, <1>4 DEF ListedOnce
  <2> QED BY <1>2, <1>4, <2>1, <2>2 DEF ListedOnce
<1>5. ASSUME UNCHANGED current, Range(rows) \subseteq Range(rows'), m.slot # "addItem"
      PROVE  current' # None =>
               \A i \in Range(items[current']) \ Range(rows') :
                 [slot |-> "addItem", scene |-> current', item |-> i] \in Range(q)
  BY <1>1, <1>5 DEF ItemsListed
<1>6. /\ Range(q) \subseteq Waiting \* without the first
      /\ slots' = q => slots' \in Seq(Slot) /\ Waiting' = Range(q)
  BY <1>1 DEF Waiting
<1>7. ASSUME SaveProject(q)
      PROVE  /\ slots' \in Seq(Slot) /\ projectChanged' \in BOOLEAN
             /\ Range(q) \subseteq Waiting' /\ Waiting' \subseteq Range(q) \cup {[slot |-> "save"]}
  BY <1>1, <1>7, SaveProjectFacts DEF DataTypes
<1>8. rows \in Seq(Items) /\ projectChanged \in BOOLEAN /\ None \notin Scenes
      /\ (current = None => rows = <<>>)
  BY SceneCollectionAssumption DEF DataTypes, ItemsListed
<1>9. CASE m.slot = "save" /\ SaveProjectDeferred /\ slots' = q /\ UNCHANGED <<list, current, rows>>
  <2>1. /\ projectChanged' \in BOOLEAN
        /\ UNCHANGED file \/ (phase = "running" /\ file' = [file EXCEPT ![collection] = Snapshot])
    <3>1. CASE disableSaving > 0 \/ ~projectChanged
      BY <1>8, <1>9, <3>1 DEF SaveProjectDeferred
    <3>2. CASE ~(disableSaving > 0 \/ ~projectChanged)
      <4>1. phase = "running"
        BY <3>2 DEF Phases
      <4>2. file' = [file EXCEPT ![collection] = Snapshot] /\ projectChanged' = FALSE
        BY <1>9, <3>2, Zenon DEF SaveProjectDeferred
      <4> QED BY <4>1, <4>2
    <3> QED BY <3>1, <3>2
  <2>2. m.slot # "removeScene" /\ m.slot # "addItem"
    BY <1>9
  <2> QED BY <1>3, <1>4, <1>5, <1>6, <1>8, <1>9, <2>1, <2>2
<1>10. CASE m.slot = "addItem" /\ AddSceneItem(m.scene, m.item) /\ SaveProject(q) /\ UNCHANGED file
  <2>1. m \in [slot : {"addItem", "removeItem"}, scene : Scenes, item : Items]
    BY <1>1, <1>10 DEF Slot
  <2> DEFINE s == m.scene
             i0 == m.item
  <2>2. s \in Scenes /\ i0 \in Items /\ m = [slot |-> "addItem", scene |-> s, item |-> i0]
    BY <1>10, <2>1
  <2> HIDE DEF s, i0
  <2>3. rows' = (IF current = s THEN <<i0>> \o rows ELSE rows) /\ UNCHANGED <<list, current>>
    BY <1>10 DEF AddSceneItem, s, i0
  <2>4. rows' \in Seq(Items) /\ Range(rows) \subseteq Range(rows')
        /\ (current = s => i0 \in Range(rows'))
    <3>1. CASE current = s
      <4> DEFINE h == <<i0>>
      <4>1. h \in Seq(Items) /\ Range(h) = {i0}
        BY <2>2 DEF Range
      <4>2. rows' = h \o rows
        BY <2>3, <3>1
      <4> HIDE DEF h
      <4>3. Range(h \o rows) = Range(h) \cup Range(rows)
        BY <1>8, <4>1, RangeConcatenation
      <4> QED BY <1>8, <4>1, <4>2, <4>3
    <3>2. CASE current # s
      BY <1>8, <2>3, <3>2
    <3> QED BY <3>1, <3>2
  <2>5. current' # None =>
          \A i \in Range(items[current']) \ Range(rows') :
            [slot |-> "addItem", scene |-> current', item |-> i] \in Range(q)
    <3>1. SUFFICES ASSUME current # None, NEW i \in Range(items[current]) \ Range(rows')
                   PROVE  [slot |-> "addItem", scene |-> current, item |-> i] \in Range(q)
      BY <2>3
    <3>2. [slot |-> "addItem", scene |-> current, item |-> i] \in Waiting
      BY <2>4, <3>1 DEF ItemsListed
    <3>3. [slot |-> "addItem", scene |-> current, item |-> i] # m
      BY <2>2, <2>4, <3>1
    <3> QED BY <1>1, <3>2, <3>3
  <2>6. current' = None => rows' = <<>>
    BY <1>8, <2>2, <2>3
  <2>7. ~env.threads => FALSE
    BY <1>1, <1>10 DEF Alone
  <2>8. m.slot # "removeScene"
    BY <1>10
  <2>9. phase = "running"
    BY <1>1, <1>10 DEF Phases
  <2> QED BY <1>3, <1>4, <1>7, <1>10, <2>3, <2>4, <2>5, <2>6, <2>7, <2>8, <2>9
<1>11. CASE m.slot = "removeItem" /\ RemoveSceneItem(m.scene, m.item) /\ SaveProject(q) /\ UNCHANGED file
  <2>1. m \in [slot : {"addItem", "removeItem"}, scene : Scenes, item : Items]
    BY <1>1, <1>11 DEF Slot
  <2> DEFINE s == m.scene
             i0 == m.item
  <2>2. s \in Scenes /\ i0 \in Items /\ i0 \notin Range(items[s])
    BY <1>1, <1>11, <2>1 DEF ItemsListed
  <2>3. rows' = (IF current = s THEN Without(rows, i0) ELSE rows) /\ UNCHANGED <<list, current>>
    BY <1>11 DEF RemoveSceneItem
  <2> HIDE DEF s, i0
  <2>4. rows' \in Seq(Items) /\ (current # s => rows' = rows)
        /\ (current = s => Range(rows) \ {i0} \subseteq Range(rows'))
    BY <1>8, <2>3, WithoutFacts
  <2>5. current' # None =>
          \A i \in Range(items[current']) \ Range(rows') :
            [slot |-> "addItem", scene |-> current', item |-> i] \in Range(q)
    <3>1. SUFFICES ASSUME current # None, NEW i \in Range(items[current]) \ Range(rows')
                   PROVE  [slot |-> "addItem", scene |-> current, item |-> i] \in Range(q)
      BY <2>3
    <3>2. [slot |-> "addItem", scene |-> current, item |-> i] \in Waiting
      BY <2>2, <2>4, <3>1 DEF ItemsListed
    <3>3. [slot |-> "addItem", scene |-> current, item |-> i] # m
      BY <1>11
    <3> QED BY <1>1, <3>2, <3>3
  <2>6. current' = None => rows' = <<>>
    BY <1>8, <2>2, <2>3
  <2>7. ~env.threads => FALSE
    BY <1>1, <1>11 DEF Alone
  <2>8. m.slot # "removeScene"
    BY <1>11
  <2>9. phase = "running"
    BY <1>1, <1>11 DEF Phases
  <2> QED BY <1>3, <1>4, <1>7, <1>11, <2>3, <2>4, <2>5, <2>6, <2>7, <2>8, <2>9
<1>12. CASE m.slot = "removeScene" /\ RemoveScene(m.scene) /\ SaveProject(q) /\ UNCHANGED file
  <2>1. m \in [slot : {"reorder", "removeScene"}, scene : Scenes]
    BY <1>1, <1>12 DEF Slot
  <2> DEFINE s == m.scene
  <2>2. s \in Scenes /\ s \notin scenes /\ m = [slot |-> "removeScene", scene |-> s]
    BY <1>1, <1>12, <2>1 DEF ListedOnce
  <2> HIDE DEF s
  <2>3. /\ list' \in Seq(Scenes) /\ IsInjective(list') /\ Range(list') = Range(list) \ {s}
        /\ current' \in Range(list') \cup {None}
        /\ rows' \in Seq(Items)
        /\ s # current => UNCHANGED <<current, rows>>
        /\ s = current => /\ current' # None => /\ rows' = Reverse(items[current'])
                                                /\ Range(rows') = Range(items[current'])
                          /\ current' = None => rows' = <<>>
    BY <1>12, <2>2, RemoveSceneFacts DEF s
  <2>4. ListedOnce'
    <3>1. ASSUME NEW x \in Range(list') \ scenes
          PROVE  [slot |-> "removeScene", scene |-> x] \in Range(q)
      <4>1. [slot |-> "removeScene", scene |-> x] \in Waiting
        BY <2>3 DEF ListedOnce
      <4>2. [slot |-> "removeScene", scene |-> x] # m
        BY <2>2, <2>3
      <4> QED BY <1>1, <4>1, <4>2
    <3>2. \A x \in Waiting' : x.slot = "removeScene" => x.scene \notin scenes
      BY <1>1, <1>7, <1>12 DEF ListedOnce
    <3> QED BY <1>2, <1>7, <1>12, <2>2, <2>3, <3>1, <3>2 DEF ListedOnce
  <2>5. current' # None =>
          \A i \in Range(items[current']) \ Range(rows') :
            [slot |-> "addItem", scene |-> current', item |-> i] \in Range(q)
    <3>1. CASE s = current
      BY <2>3, <3>1
    <3>2. CASE s # current
      <4>1. UNCHANGED current /\ Range(rows) \subseteq Range(rows')
        BY <2>3, <3>2
      <4>2. m.slot # "addItem"
        BY <1>12
      <4> HIDE DEF ListInv
      <4> QED BY <1>5, <4>1, <4>2
    <3> QED BY <3>1, <3>2, Zenon
  <2>6. current' = None => rows' = <<>>
    BY <1>8, <2>3
  <2>7. ~env.threads => FALSE
    BY <1>1, <1>12 DEF Alone
  <2>8. phase = "running"
    BY <1>1, <1>12 DEF Phases
  <2> QED BY <1>3, <1>7, <1>12, <2>3, <2>4, <2>5, <2>6, <2>7, <2>8
<1>13. CASE /\ m.slot = "reorder" /\ m.scene = current
            /\ rows' = ReorderSources(rows, items[current])
            /\ SaveProject(q) /\ UNCHANGED <<list, current, file>>
  <2>1. m \in [slot : {"reorder", "removeScene"}, scene : Scenes]
    BY <1>1, <1>13 DEF Slot
  <2>2. current \in Scenes /\ current # None
    BY <1>8, <1>13, <2>1
  <2>3. rows' \in Shuffles(Items, rows)
    <3>1. items[current] \in Seq(Items)
      BY <2>2 DEF DataTypes, Orders
    <3> QED BY <1>8, <1>13, <3>1, ReorderShuffles
  <2>4. rows' \in Seq(Items) /\ Range(rows') = Range(rows)
    BY <2>3 DEF Shuffles
  <2>5. ~env.threads => FALSE
    BY <1>1, <1>13 DEF Alone
  <2>6. m.slot # "removeScene" /\ m.slot # "addItem"
    BY <1>13
  <2>7. phase = "running"
    BY <1>1, <1>13 DEF Phases
  <2> QED BY <1>3, <1>4, <1>5, <1>7, <1>13, <2>2, <2>4, <2>5, <2>6, <2>7
<1>14. CASE /\ m.slot \in {"gone", "reorder"}
            /\ slots' = q /\ UNCHANGED <<list, current, rows, projectChanged, file>>
  <2>1. m.slot # "removeScene" /\ m.slot # "addItem"
    BY <1>14
  <2> QED BY <1>3, <1>4, <1>5, <1>6, <1>8, <1>14, <2>1
<1>15. CASE m.slot = "stale" /\ SaveProject(q) /\ UNCHANGED <<list, current, rows, file>>
  <2>1. m.slot # "removeScene" /\ m.slot # "addItem"
    BY <1>15
  <2> QED BY <1>3, <1>4, <1>5, <1>7, <1>8, <1>15, <2>1
<1>16. m.slot \in {"save", "stale", "gone", "addItem", "removeItem", "reorder", "removeScene"}
  BY <1>1 DEF Slot
<1> QED
  <2>1. CASE m.slot = "save"
    BY <1>9, <2>1 DEF RunSlot, m, q, widgets
  <2>2. CASE m.slot = "addItem"
    BY <1>10, <2>2 DEF RunSlot, m, q, widgets
  <2>3. CASE m.slot = "removeItem"
    BY <1>11, <2>3 DEF RunSlot, m, q, widgets
  <2>4. CASE m.slot = "removeScene"
    BY <1>12, <2>4 DEF RunSlot, m, q, widgets
  <2>5. CASE m.slot = "reorder" /\ m.scene = current
    BY <1>13, <2>5 DEF RunSlot, m, q, widgets
  <2>6. CASE m.slot = "gone" \/ (m.slot = "reorder" /\ m.scene # current)
    BY <1>14, <2>6 DEF RunSlot, m, q, widgets
  <2>7. CASE m.slot = "stale"
    BY <1>15, <2>7 DEF RunSlot, m, q, widgets
  <2> QED BY <1>16, <2>1, <2>2, <2>3, <2>4, <2>5, <2>6, <2>7

(* The program starts.                                                       *)
LEMMA OBSInitStep ==
  ASSUME ListInv, OBSInit
  PROVE  ListInv'
<1>1. collection \in Collections /\ changes \in 0..MaxChanges
  BY DEF ListInv, DataTypes
<1> QED BY <1>1, LoadStep DEF OBSInit

(* The old collection is saved, and then the other one loaded.               *)
LEMMA ChangeCollectionStep ==
  ASSUME ListInv, NEW c \in Collections, ChangeCollection(c)
  PROVE  ListInv'
<1>1. phase = "running" /\ disableSaving = 0 /\ changes' \in 0..MaxChanges
  BY SceneCollectionAssumption DEF ChangeCollection, Change, ListInv, Phases, DataTypes
<1>2. file' = [file EXCEPT ![collection] = Snapshot]
  BY <1>1 DEF ChangeCollection, SaveProjectNow
<1>3. Load(c, file[c]) /\ phase' = "running" /\ disableSaving' = 0 /\ UNCHANGED env
  BY <1>1 DEF ChangeCollection
<1> QED BY <1>1, <1>2, <1>3, LoadStep

(* The program ends.                                                         *)
LEMMA CloseEventStep ==
  ASSUME ListInv, CloseEvent
  PROVE  ListInv'
<1> USE DEF ListInv
<1>1. phase = "running" /\ disableSaving = 0 /\ phase' = "closing" /\ disableSaving' = 1
  BY DEF CloseEvent, Phases
<1>2. UNCHANGED <<env, collection, changes>> /\ projectChanged' = FALSE
  BY DEF CloseEvent
<1>3. file' = [file EXCEPT ![collection] = Snapshot]
  BY <1>1 DEF CloseEvent, SaveProjectNow
<1>4. /\ DOMAIN file' = Collections /\ \A d \in Collections : IsFile(file'[d])
      /\ FilesAreTheirOwn'
  BY <1>1, <1>2, <1>3, FilesStep
<1>5. scenes' = {} /\ items' = NoItems /\ list' = <<>> /\ Show(None, NoItems)
  BY DEF CloseEvent
<1>6. current' = None /\ rows' = <<>>
  BY <1>5 DEF Show
<1>7. /\ slots' \in Seq(Slot)
      /\ \A m \in Waiting' : m.slot \in {"save", "stale", "gone"}
      /\ ~env.threads => \A m \in Waiting' : m.slot = "save"
  <2>1. slots' = ClearSceneData(slots)
    BY DEF CloseEvent
  <2>2. slots \in Seq(Slot) /\ (~env.threads => \A m \in Range(slots) : m.slot = "save")
    BY DEF DataTypes, Alone, Waiting
  <2> QED BY <2>1, <2>2, ClearedQueue DEF Waiting
<1>8. DataTypes'
  <2>1. scenes' \subseteq Scenes /\ IsFiniteSet(scenes')
    BY <1>5, FS_EmptySet
  <2>2. items' \in [Scenes -> Orders] /\ rows' \in Seq(Items)
    BY <1>5, <1>6, NoOrder
  <2> QED BY <1>1, <1>2, <1>4, <1>7, <2>1, <2>2 DEF DataTypes
<1>9. Phases'
  BY <1>1, <1>5, <1>6, <1>7 DEF Phases
<1>10. ListedOnce'
  <2>1. list' \in Seq(Scenes) /\ IsInjective(list') /\ Range(list') = {}
    BY <1>5 DEF IsInjective, Range
  <2> QED BY <1>5, <1>6, <1>7, <2>1 DEF ListedOnce
<1>11. ItemsListed'
  BY <1>6, <1>7 DEF ItemsListed
<1>12. Alone'
  BY <1>2, <1>6, <1>7 DEF Alone
<1>13. Belong'
  BY <1>1, <1>5 DEF Belong
<1> QED BY <1>4, <1>8, <1>9, <1>10, <1>11, <1>12, <1>13

(* A scene comes: one that nothing knows yet.                                *)
LEMMA AddSceneStep ==
  ASSUME ListInv, AddScene
  PROVE  ListInv'
<1> USE DEF ListInv
<1>1. /\ phase = "running" /\ changes' \in 0..MaxChanges /\ SaveProject(slots)
      /\ UNCHANGED <<env, phase, collection, disableSaving, file>>
  BY SceneCollectionAssumption DEF AddScene, Change, DataTypes
<1>2. PICK new \in NewScene(<<>>) \cup DuplicateSelectedScene :
        LET s == new[1]
            its == [items EXCEPT ![s] = new[2]]
        IN  /\ scenes' = scenes \cup {s} /\ items' = its
            /\ list' = Append(list, s)
            /\ Show(s, its)
  BY DEF AddScene
<1>3. \E o \in Orders : new \in NewScene(o)
  <2>1. CASE new \in NewScene(<<>>)
    BY <2>1, NoOrder
  <2>2. CASE new \in DuplicateSelectedScene
    <3>1. current # None /\ new \in NewScene(items[current])
      BY <2>2 DEF DuplicateSelectedScene
    <3>2. current \in Scenes
      BY <3>1, RangeOfSeq DEF ListedOnce
    <3> QED BY <3>1, <3>2 DEF DataTypes
  <2> QED BY <1>2, <2>1, <2>2
<1>4. PICK o \in Orders : new \in NewScene(o)
  BY <1>3
<1> DEFINE s == new[1]
<1>5. /\ s \in Scenes \ (scenes \cup Range(list)) /\ Home[s] = collection /\ new[2] = o
      /\ \A k \in DOMAIN slots : "scene" \in DOMAIN slots[k] => slots[k].scene # s
  BY <1>4 DEF NewScene
<1>6. \A m \in Waiting : m.slot \in {"addItem", "removeItem", "reorder", "removeScene"} => m.scene # s
  <2>1. ASSUME NEW m \in Waiting, m.slot \in {"addItem", "removeItem", "reorder", "removeScene"}
        PROVE  m.scene # s
    <3>1. PICK k \in DOMAIN slots : m = slots[k]
      BY DEF Waiting, Range
    <3>2. m \in Slot
      BY QueueFacts DEF Waiting, DataTypes
    <3>3. "scene" \in DOMAIN m
      BY <2>1, <3>2 DEF Slot
    <3> QED BY <1>5, <3>1, <3>3
  <2> QED BY <2>1
<1>7. /\ scenes' = scenes \cup {s} /\ items' = [items EXCEPT ![s] = o]
      /\ list' = Append(list, s) /\ Show(s, [items EXCEPT ![s] = o])
  BY <1>2, <1>5
<1> HIDE DEF s
<1>8. s \in Scenes /\ s \notin scenes /\ s \notin Range(list) /\ Home[s] = collection
      /\ s # None
  BY <1>5, SceneCollectionAssumption
<1>9. items' \in [Scenes -> Orders] /\ items'[s] = o
      /\ \A x \in Scenes : x # s => items'[x] = items[x]
  BY <1>7, <1>8 DEF DataTypes
<1>10. current' = s /\ rows' \in Seq(Items) /\ rows' = Reverse(items'[s]) /\ Range(rows') = Range(items'[s])
  <2>1. Show(s, items')
    BY <1>7
  <2>2. Show(s, items') => /\ current' = s /\ rows' \in Seq(Items)
                           /\ rows' = Reverse(items'[s]) /\ Range(rows') = Range(items'[s])
    BY <1>8, <1>9, ShowFacts
  <2> QED BY <2>1, <2>2
<1>11. /\ slots' \in Seq(Slot) /\ projectChanged' \in BOOLEAN
       /\ Waiting \subseteq Waiting' /\ Waiting' \subseteq Waiting \cup {[slot |-> "save"]}
  BY <1>1, SaveProjectFacts DEF DataTypes, Waiting
<1>12. /\ DOMAIN file' = Collections /\ \A d \in Collections : IsFile(file'[d])
       /\ FilesAreTheirOwn'
  BY <1>1, FilesStep
<1>13. list' \in Seq(Scenes) /\ IsInjective(list') /\ Range(list') = Range(list) \cup {s}
  <2>1. /\ list \in Seq(Scenes) /\ IsInjective(list)
        /\ DOMAIN list = 1..Len(list) /\ Len(list) \in Nat
    BY DEF ListedOnce
  <2>2. /\ list' \in Seq(Scenes) /\ DOMAIN list' = 1..(Len(list) + 1)
        /\ list'[Len(list) + 1] = s /\ \A k \in 1..Len(list) : list'[k] = list[k]
    BY <1>7, <1>8, <2>1
  <2>3. \A k \in 1..Len(list) : list[k] # s
    BY <1>8, <2>1 DEF Range
  <2>4. IsInjective(list')
    BY <2>1, <2>2, <2>3 DEF IsInjective
  <2>5. Range(list') = Range(list) \cup {s}
    BY <2>1, <2>2 DEF Range
  <2> QED BY <2>2, <2>4, <2>5
<1>14. DataTypes'
  <2>1. IsFiniteSet(scenes')
    BY <1>7, FS_AddElement DEF DataTypes
  <2> QED BY <1>1, <1>7, <1>8, <1>9, <1>10, <1>11, <1>12, <2>1 DEF DataTypes
<1>15. Phases'
  BY <1>1 DEF Phases
<1>16. ListedOnce'
  <2>1. ASSUME NEW x \in Range(list') \ scenes'
        PROVE  [slot |-> "removeScene", scene |-> x] \in Waiting'
    <3>1. x \in Range(list) \ scenes
      BY <1>7, <1>13
    <3>2. [slot |-> "removeScene", scene |-> x] \in Waiting
      BY <3>1 DEF ListedOnce
    <3> QED BY <1>11, <3>2
  <2>2. \A m \in Waiting' : m.slot = "removeScene" => m.scene \notin scenes'
    BY <1>6, <1>7, <1>11 DEF ListedOnce
  <2> QED BY <1>7, <1>10, <1>13, <2>1, <2>2 DEF ListedOnce
<1>17. ItemsListed'
  <2>1. \A m \in Waiting' : m.slot = "removeItem" => m.item \notin Range(items'[m.scene])
    <3>1. SUFFICES ASSUME NEW m \in Waiting, m.slot = "removeItem"
                   PROVE  m.item \notin Range(items'[m.scene])
      BY <1>11
    <3>2. m.scene \in Scenes
      BY <3>1, QueueFacts DEF Slot, Waiting, DataTypes
    <3>3. items'[m.scene] = items[m.scene]
      BY <1>6, <1>9, <3>1, <3>2
    <3> QED BY <3>1, <3>3 DEF ItemsListed
  <2> QED BY <1>8, <1>10, <2>1 DEF ItemsListed
<1>18. Alone'
  BY <1>1, <1>10, <1>11 DEF Alone
<1>19. Belong'
  BY <1>1, <1>7, <1>8 DEF Belong
<1> QED BY <1>12, <1>14, <1>15, <1>16, <1>17, <1>18, <1>19

(* The scene that is current goes; the last one cannot.                      *)
LEMMA RemoveSelectedSceneStep ==
  ASSUME ListInv, RemoveSelectedScene
  PROVE  ListInv'
<1> USE DEF ListInv
<1>1. /\ phase = "running" /\ changes' \in 0..MaxChanges /\ SaveProject(slots)
      /\ UNCHANGED <<env, phase, collection, disableSaving, file, items>>
      /\ current # None /\ Len(list) # 1 /\ scenes' = scenes \ {current}
      /\ RemoveScene(current)
  BY SceneCollectionAssumption
     DEF RemoveSelectedScene, QueryRemoveSource, Change, DataTypes
<1>2. current \in Scenes /\ current \in Range(list) /\ DataTypes /\ ListedOnce
  BY <1>1, RangeOfSeq DEF ListedOnce
<1>3. /\ list' \in Seq(Scenes) /\ IsInjective(list') /\ Range(list') = Range(list) \ {current}
      /\ current' \in Range(list') \cup {None}
      /\ rows' \in Seq(Items)
      /\ current' # None => rows' = Reverse(items[current']) /\ Range(rows') = Range(items[current'])
      /\ current' = None => rows' = <<>>
  BY <1>1, <1>2, RemoveSceneFacts
<1>4. /\ slots' \in Seq(Slot) /\ projectChanged' \in BOOLEAN
      /\ Waiting \subseteq Waiting' /\ Waiting' \subseteq Waiting \cup {[slot |-> "save"]}
  BY <1>1, SaveProjectFacts DEF DataTypes, Waiting
<1>5. /\ DOMAIN file' = Collections /\ \A d \in Collections : IsFile(file'[d])
      /\ FilesAreTheirOwn'
  BY <1>1, FilesStep
<1>6. DataTypes'
  <2>1. scenes' \subseteq Scenes /\ IsFiniteSet(scenes')
    BY <1>1, FS_RemoveElement DEF DataTypes
  <2> QED BY <1>1, <1>3, <1>4, <1>5, <2>1 DEF DataTypes
<1>7. Phases'
  BY <1>1 DEF Phases
<1>8. ListedOnce'
  <2>1. ASSUME NEW x \in Range(list') \ scenes'
        PROVE  [slot |-> "removeScene", scene |-> x] \in Waiting'
    <3>1. x \in Range(list) \ scenes
      BY <1>1, <1>3
    <3>2. [slot |-> "removeScene", scene |-> x] \in Waiting
      BY <3>1 DEF ListedOnce
    <3> QED BY <1>4, <3>2
  <2>2. \A m \in Waiting' : m.slot = "removeScene" => m.scene \notin scenes'
    BY <1>1, <1>4 DEF ListedOnce
  <2> QED BY <1>1, <1>3, <2>1, <2>2 DEF ListedOnce
<1>9. ItemsListed'
  <2>1. \A m \in Waiting' : m.slot = "removeItem" => m.item \notin Range(items'[m.scene])
    BY <1>1, <1>4 DEF ItemsListed
  <2> QED BY <1>1, <1>3, <2>1 DEF ItemsListed
<1>10. Alone'
  BY <1>1, <1>3, <1>4 DEF Alone
<1>11. Belong'
  <2>1. ASSUME ~env.threads PROVE scenes' # {}
    <3>1. Range(list) = scenes
      <4>1. ASSUME NEW x \in Range(list) \ scenes PROVE FALSE
        <5>1. [slot |-> "removeScene", scene |-> x] \in Waiting
          BY DEF ListedOnce
        <5> QED BY <2>1, <5>1 DEF Alone
      <4> QED BY <4>1 DEF ListedOnce
    <3>2. /\ DOMAIN list = 1..Len(list) /\ Len(list) \in Nat
          /\ \A j, k \in 1..Len(list) : list[j] = list[k] => j = k
      BY DEF ListedOnce, IsInjective
    <3>3. PICK k \in 1..Len(list) : current = list[k]
      BY <1>2, <3>2 DEF Range
    <3>4. PICK j \in 1..Len(list) : j # k
      <4>1. Len(list) >= 2
        BY <1>1, <3>2, <3>3
      <4>2. 1 \in 1..Len(list) /\ 2 \in 1..Len(list)
        BY <3>2, <4>1
      <4> QED BY <4>2
    <3>5. list[j] # current /\ list[j] \in Range(list)
      BY <3>2, <3>3, <3>4 DEF Range
    <3> QED BY <1>1, <3>1, <3>5
  <2> QED BY <1>1, <2>1 DEF Belong
<1> QED BY <1>5, <1>6, <1>7, <1>8, <1>9, <1>10, <1>11

(* Another scene is shown.                                                   *)
LEMMA SelectSceneStep ==
  ASSUME ListInv, NEW s \in Scenes, SelectScene(s)
  PROVE  ListInv'
<1> USE DEF ListInv
<1>1. /\ phase = "running" /\ changes' \in 0..MaxChanges
      /\ UNCHANGED <<env, phase, collection, scenes, items, list, projectChanged, slots,
                     disableSaving, file>>
      /\ s \in Range(list) /\ Show(s, items)
  BY SceneCollectionAssumption DEF SelectScene, Change, lib, saving, DataTypes
<1>2. current' = s /\ rows' \in Seq(Items) /\ rows' = Reverse(items[s])
      /\ Range(rows') = Range(items[s]) /\ s # None
  BY <1>1, ShowFacts, SceneCollectionAssumption DEF DataTypes
<1>3. Waiting' = Waiting
  BY <1>1 DEF Waiting
<1>4. DataTypes'
  BY <1>1, <1>2 DEF DataTypes
<1>5. ListedOnce'
  BY <1>1, <1>2, <1>3 DEF ListedOnce
<1>6. ItemsListed'
  BY <1>1, <1>2, <1>3 DEF ItemsListed
<1> QED BY <1>1, <1>2, <1>3, <1>4, <1>5, <1>6 DEF Phases, Alone, Belong, FilesAreTheirOwn

(* The current scene moves in the list.                                      *)
LEMMA ChangeSceneIndexStep ==
  ASSUME ListInv, NEW to \in 1..Len(list), ChangeSceneIndex(to)
  PROVE  ListInv'
<1> USE DEF ListInv
<1>1. /\ phase = "running" /\ changes' \in 0..MaxChanges
      /\ UNCHANGED <<env, phase, collection, scenes, items, current, rows, projectChanged,
                     slots, disableSaving, file>>
      /\ current # None /\ list' = MoveRow(list, Row(list, current), to)
  BY SceneCollectionAssumption DEF ChangeSceneIndex, Change, lib, saving, DataTypes
<1>2. list' \in Seq(Scenes) /\ IsInjective(list') /\ Range(list') = Range(list)
  <2>1. list \in Seq(Scenes) /\ IsInjective(list) /\ current \in Range(list)
    BY <1>1 DEF ListedOnce
  <2>2. Row(list, current) \in 1..Len(list) /\ to \in Int
    BY <2>1, RowFacts
  <2> QED BY <1>1, <2>1, <2>2, MoveRowKeeps
<1>3. Waiting' = Waiting
  BY <1>1 DEF Waiting
<1>4. DataTypes'
  BY <1>1 DEF DataTypes
<1>5. ListedOnce'
  BY <1>1, <1>2, <1>3 DEF ListedOnce
<1>6. ItemsListed'
  BY <1>1, <1>3 DEF ItemsListed
<1> QED BY <1>1, <1>3, <1>4, <1>5, <1>6 DEF Phases, Alone, Belong, FilesAreTheirOwn

(* Another thread removes a scene.                                           *)
LEMMA ThreadRemoveSceneStep ==
  ASSUME ListInv, NEW s \in scenes, Thread_RemoveScene(s)
  PROVE  ListInv'
<1> USE DEF ListInv
<1> DEFINE m == [slot |-> "removeScene", scene |-> s]
<1>1. /\ phase = "running" /\ changes' \in 0..MaxChanges /\ env.threads
      /\ slots' = Append(slots, m) /\ scenes' = scenes \ {s}
      /\ UNCHANGED <<env, phase, collection, items, list, current, rows, projectChanged,
                     disableSaving, file>>
  BY SceneCollectionAssumption DEF Thread_RemoveScene, Thread, Change, widgets, DataTypes
<1>2. m \in Slot /\ m.slot = "removeScene" /\ m.scene = s
  BY DEF Slot, DataTypes
<1> HIDE DEF m
<1>3. slots' \in Seq(Slot) /\ Waiting' = Waiting \cup {m}
  BY <1>1, <1>2, QueueFacts DEF Waiting, DataTypes
<1>4. DataTypes'
  <2>1. scenes' \subseteq Scenes /\ IsFiniteSet(scenes')
    BY <1>1, FS_RemoveElement DEF DataTypes
  <2> QED BY <1>1, <1>3, <2>1 DEF DataTypes
<1>5. ListedOnce'
  <2>1. ASSUME NEW x \in Range(list) \ scenes'
        PROVE  [slot |-> "removeScene", scene |-> x] \in Waiting'
    <3>1. CASE x = s
      BY <1>3, <3>1 DEF m
    <3>2. CASE x # s
      <4>1. x \in Range(list) \ scenes
        BY <1>1, <3>2
      <4>2. [slot |-> "removeScene", scene |-> x] \in Waiting
        BY <4>1 DEF ListedOnce
      <4> QED BY <1>3, <4>2
    <3> QED BY <3>1, <3>2
  <2>2. \A x \in Waiting' : x.slot = "removeScene" => x.scene \notin scenes'
    BY <1>1, <1>2, <1>3 DEF ListedOnce
  <2> QED BY <1>1, <2>1, <2>2 DEF ListedOnce
<1>6. ItemsListed'
  <2>1. \A x \in Waiting' : x.slot = "removeItem" => x.item \notin Range(items'[x.scene])
    BY <1>1, <1>2, <1>3 DEF ItemsListed
  <2> QED BY <1>1, <1>3, <2>1 DEF ItemsListed
<1> QED BY <1>1, <1>4, <1>5, <1>6 DEF Phases, Alone, Belong, FilesAreTheirOwn

-----------------------------------------------------------------------------
(* The items.                                                                *)

(* A step that changes items only.                                           *)
LEMMA ItemStep ==
  ASSUME ListInv, phase = "running",
         UNCHANGED <<env, phase, collection, scenes, disableSaving, file, list, current>>,
         changes' \in 0..MaxChanges, items' \in [Scenes -> Orders], rows' \in Seq(Items),
         slots' \in Seq(Slot), projectChanged' \in BOOLEAN, Waiting \subseteq Waiting',
         \A m \in Waiting' \ Waiting : m.slot # "removeScene",
         ItemsListed', Alone'
  PROVE  ListInv'
<1> USE DEF ListInv
<1>1. DataTypes'
  BY DEF DataTypes
<1>2. Phases'
  BY DEF Phases
<1>3. ListedOnce'
  BY DEF ListedOnce
<1> QED BY <1>1, <1>2, <1>3 DEF Belong, FilesAreTheirOwn

(* The items of one scene change.                                            *)
LEMMA OneScene ==
  ASSUME ListInv, NEW s \in scenes, NEW v \in Orders, items' = [items EXCEPT ![s] = v]
  PROVE  /\ s \in Scenes /\ s # None /\ items' \in [Scenes -> Orders] /\ items'[s] = v
         /\ \A x \in Scenes : x # s => items'[x] = items[x]
  BY SceneCollectionAssumption DEF ListInv, DataTypes

(* A new item is one that neither the scene nor a waiting slot knows.        *)
LEMMA ItemAddedFacts ==
  ASSUME ListInv, NEW s \in scenes, NEW i \in Items, IsNew(s, i), items' = ItemAdded(s, i)
  PROVE  /\ s \in Scenes /\ s # None /\ items' \in [Scenes -> Orders]
         /\ items'[s] = Append(items[s], i) /\ Range(items'[s]) = Range(items[s]) \cup {i}
         /\ \A x \in Scenes : x # s => items'[x] = items[x]
         /\ \A m \in Waiting : m.slot = "removeItem" => m.item \notin Range(items'[m.scene])
<1> DEFINE v == Append(items[s], i)
<1>1. s \in Scenes /\ items[s] \in Seq(Items) /\ IsInjective(items[s])
  BY DEF ListInv, DataTypes, Orders
<1>2. i \notin Range(items[s])
  BY DEF IsNew
<1>3. v \in Orders /\ Range(v) = Range(items[s]) \cup {i}
  <2> DEFINE o == items[s]
  <2>1. /\ v \in Seq(Items) /\ DOMAIN v = 1..(Len(o) + 1) /\ v[Len(o) + 1] = i
        /\ \A k \in 1..Len(o) : v[k] = o[k]
        /\ DOMAIN o = 1..Len(o) /\ Len(o) \in Nat
    BY <1>1
  <2>2. \A k \in 1..Len(o) : o[k] # i
    BY <1>2, <2>1 DEF Range
  <2> HIDE DEF v
  <2>3. IsInjective(v)
    BY <1>1, <2>1, <2>2 DEF IsInjective
  <2>4. Range(v) = Range(o) \cup {i}
    BY <2>1 DEF Range
  <2> QED BY <2>1, <2>3, <2>4 DEF Orders
<1> HIDE DEF v
<1>4. items' = [items EXCEPT ![s] = v]
  BY DEF ItemAdded, v
<1>5. /\ s # None /\ items' \in [Scenes -> Orders] /\ items'[s] = v
      /\ \A x \in Scenes : x # s => items'[x] = items[x]
  BY <1>3, <1>4, OneScene
<1>6. ASSUME NEW m \in Waiting, m.slot = "removeItem"
      PROVE  m.item \notin Range(items'[m.scene])
  <2>1. m.item # i
    BY <1>6 DEF IsNew, Waiting, Range
  <2>2. m.scene \in Scenes /\ m.item \notin Range(items[m.scene])
    BY <1>6, QueueFacts DEF ListInv, ItemsListed, Waiting, DataTypes, Slot
  <2> QED BY <1>3, <1>5, <2>1, <2>2
<1> QED BY <1>1, <1>3, <1>5, <1>6 DEF v

(* An item that is removed is gone from its scene.                           *)
LEMMA ItemRemovedFacts ==
  ASSUME ListInv, NEW s \in scenes, NEW i \in Items, items' = ItemRemoved(s, i)
  PROVE  /\ s \in Scenes /\ s # None /\ items' \in [Scenes -> Orders]
         /\ items'[s] = Without(items[s], i) /\ Range(items'[s]) = Range(items[s]) \ {i}
         /\ \A x \in Scenes : x # s => items'[x] = items[x]
         /\ \A m \in Waiting : m.slot = "removeItem" => m.item \notin Range(items'[m.scene])
<1> DEFINE v == Without(items[s], i)
<1>1. s \in Scenes /\ items[s] \in Seq(Items) /\ IsInjective(items[s])
  BY DEF ListInv, DataTypes, Orders
<1>2. v \in Orders /\ Range(v) = Range(items[s]) \ {i}
  BY <1>1, WithoutFacts DEF Orders
<1> HIDE DEF v
<1>3. items' = [items EXCEPT ![s] = v]
  BY DEF ItemRemoved, v
<1>4. /\ s # None /\ items' \in [Scenes -> Orders] /\ items'[s] = v
      /\ \A x \in Scenes : x # s => items'[x] = items[x]
  BY <1>2, <1>3, OneScene
<1>5. ASSUME NEW m \in Waiting, m.slot = "removeItem"
      PROVE  m.item \notin Range(items'[m.scene])
  <2>1. m.scene \in Scenes /\ m.item \notin Range(items[m.scene])
    BY <1>5, QueueFacts DEF ListInv, ItemsListed, Waiting, DataTypes, Slot
  <2> QED BY <1>2, <1>4, <2>1
<1> QED BY <1>1, <1>2, <1>4, <1>5 DEF v

(* An item that moves stays in its scene.                                    *)
LEMMA MovedFacts ==
  ASSUME ListInv, NEW s \in scenes, NEW i \in Range(items[s]), NEW to \in DOMAIN items[s],
         items' = Moved(s, i, to)
  PROVE  /\ s \in Scenes /\ s # None /\ items' \in [Scenes -> Orders]
         /\ Len(items'[s]) = Len(items[s]) /\ Range(items'[s]) = Range(items[s])
         /\ \A x \in Scenes : x # s => items'[x] = items[x]
         /\ \A m \in Waiting : m.slot = "removeItem" => m.item \notin Range(items'[m.scene])
<1> DEFINE v == MoveRow(items[s], Row(items[s], i), to)
<1>1. s \in Scenes /\ items[s] \in Seq(Items) /\ IsInjective(items[s])
  BY DEF ListInv, DataTypes, Orders
<1>2. Row(items[s], i) \in 1..Len(items[s]) /\ to \in Int
  BY <1>1, RowFacts
<1>3. v \in Orders /\ Len(v) = Len(items[s]) /\ Range(v) = Range(items[s])
  BY <1>1, <1>2, MoveRowKeeps DEF Orders
<1> HIDE DEF v
<1>4. items' = [items EXCEPT ![s] = v]
  BY DEF Moved, v
<1>5. /\ s # None /\ items' \in [Scenes -> Orders] /\ items'[s] = v
      /\ \A x \in Scenes : x # s => items'[x] = items[x]
  BY <1>3, <1>4, OneScene
<1>6. ASSUME NEW m \in Waiting, m.slot = "removeItem"
      PROVE  m.item \notin Range(items'[m.scene])
  <2>1. m.scene \in Scenes /\ m.item \notin Range(items[m.scene])
    BY <1>6, QueueFacts DEF ListInv, ItemsListed, Waiting, DataTypes, Slot
  <2> QED BY <1>3, <1>5, <2>1
<1> QED BY <1>1, <1>3, <1>5, <1>6 DEF v

(* Saving after a step of items.                                             *)
LEMMA ItemSaved ==
  ASSUME ListInv, NEW s \in scenes, Item(s)
  PROVE  /\ phase = "running"
         /\ UNCHANGED <<env, phase, collection, scenes, disableSaving, file>>
         /\ changes' \in 0..MaxChanges /\ slots' \in Seq(Slot) /\ projectChanged' \in BOOLEAN
         /\ Waiting \subseteq Waiting' /\ Waiting' \subseteq Waiting \cup {[slot |-> "save"]}
         /\ ~env.threads => \A m \in Waiting' : m.slot = "save"
<1>1. /\ phase = "running" /\ SaveProject(slots)
      /\ UNCHANGED <<env, phase, collection, scenes, disableSaving, file>>
      /\ changes' \in 0..MaxChanges
  BY SceneCollectionAssumption DEF Item, Change, ListInv, DataTypes
<1>2. slots \in Seq(Slot) /\ projectChanged \in BOOLEAN
  BY DEF ListInv, DataTypes
<1>3. /\ slots' \in Seq(Slot) /\ projectChanged' \in BOOLEAN
      /\ Range(slots) \subseteq Waiting'
      /\ Waiting' \subseteq Range(slots) \cup {[slot |-> "save"]}
  BY <1>1, <1>2, SaveProjectFacts
<1>4. Waiting \subseteq Waiting' /\ Waiting' \subseteq Waiting \cup {[slot |-> "save"]}
  BY <1>3 DEF Waiting
<1>5. ~env.threads => \A m \in Waiting' : m.slot = "save"
  BY <1>4 DEF ListInv, Alone
<1> QED BY <1>1, <1>3, <1>4, <1>5

(* The user adds an item: it comes into the first row, and into the order.   *)
LEMMA AddItemStep ==
  ASSUME ListInv, NEW s \in scenes, NEW i \in Items, AddItem(s, i)
  PROVE  ListInv'
<1>1. IsNew(s, i) /\ items' = ItemAdded(s, i) /\ AddSceneItem(s, i) /\ Item(s)
  BY DEF AddItem
<1>2. /\ phase = "running"
      /\ UNCHANGED <<env, phase, collection, scenes, disableSaving, file>>
      /\ changes' \in 0..MaxChanges /\ slots' \in Seq(Slot) /\ projectChanged' \in BOOLEAN
      /\ Waiting \subseteq Waiting' /\ Waiting' \subseteq Waiting \cup {[slot |-> "save"]}
      /\ ~env.threads => \A m \in Waiting' : m.slot = "save"
  BY <1>1, ItemSaved
<1>3. /\ s \in Scenes /\ s # None /\ items' \in [Scenes -> Orders]
      /\ items'[s] = Append(items[s], i) /\ Range(items'[s]) = Range(items[s]) \cup {i}
      /\ \A x \in Scenes : x # s => items'[x] = items[x]
      /\ \A m \in Waiting : m.slot = "removeItem" => m.item \notin Range(items'[m.scene])
  BY <1>1, ItemAddedFacts
<1>4. /\ UNCHANGED <<list, current>> /\ rows \in Seq(Items)
      /\ current = s => rows' = <<i>> \o rows
      /\ current # s => rows' = rows
  BY <1>1 DEF AddSceneItem, ListInv, DataTypes
<1>5. rows' \in Seq(Items) /\ (current = s => Range(rows') = {i} \cup Range(rows))
      /\ (current = None => rows' = rows)
  <2>1. <<i>> \o rows \in Seq(Items) /\ Range(<<i>> \o rows) = {i} \cup Range(rows)
    <3> DEFINE b == <<i>> \o rows
    <3>1. /\ b \in Seq(Items) /\ Len(b) = Len(rows) + 1 /\ b[1] = i
          /\ \A k \in 1..Len(rows) : b[k + 1] = rows[k]
          /\ DOMAIN b = 1..(Len(rows) + 1) /\ DOMAIN rows = 1..Len(rows) /\ Len(rows) \in Nat
      BY <1>4
    <3>2. \A k \in 1..(Len(rows) + 1) : k = 1 \/ (k - 1 \in 1..Len(rows) /\ k = (k - 1) + 1)
      BY <3>1
    <3> HIDE DEF b
    <3>3. ASSUME NEW k \in 1..(Len(rows) + 1) PROVE b[k] \in {i} \cup Range(rows)
      <4>1. CASE k = 1
        BY <3>1, <4>1
      <4>2. CASE k - 1 \in 1..Len(rows) /\ k = (k - 1) + 1
        <5>1. b[k] = rows[k - 1] /\ k - 1 \in DOMAIN rows
          BY <3>1, <4>2
        <5> QED BY <5>1, Zenon DEF Range
      <4> QED BY <3>2, <4>1, <4>2
    <3>4. Range(b) \subseteq {i} \cup Range(rows) /\ {i} \cup Range(rows) \subseteq Range(b)
      BY <3>1, <3>3 DEF Range
    <3> QED BY <3>1, <3>4 DEF b
  <2> QED BY <1>3, <1>4, <2>1
<1>6. current \in Scenes \cup {None}
  BY RangeOfSeq DEF ListInv, ListedOnce
<1>7. ItemsListed'
  <2>1. ASSUME current # None, NEW x \in Range(items'[current]) \ Range(rows')
        PROVE  [slot |-> "addItem", scene |-> current, item |-> x] \in Waiting'
    <3>1. x \in Range(items[current]) \ Range(rows)
      BY <1>3, <1>4, <1>5, <1>6, <2>1
    <3> QED BY <1>2, <2>1, <3>1 DEF ListInv, ItemsListed
  <2>2. \A m \in Waiting' : m.slot = "removeItem" => m.item \notin Range(items'[m.scene])
    BY <1>2, <1>3
  <2>3. current = None => rows' = <<>>
    BY <1>5 DEF ListInv, ItemsListed
  <2> QED BY <1>4, <2>1, <2>2, <2>3 DEF ItemsListed
<1>8. Alone'
  <2>1. ASSUME ~env.threads, current # None
        PROVE  rows' = Reverse(items'[current])
    <3>1. rows = Reverse(items[current])
      BY <2>1 DEF ListInv, Alone
    <3>2. CASE current = s
      <4>1. items[s] \in Seq(Items)
        BY <1>3 DEF ListInv, DataTypes, Orders
      <4>2. Reverse(Append(items[s], i)) = <<i>> \o Reverse(items[s])
        BY <4>1, ReverseAppend
      <4> QED BY <1>3, <1>4, <3>1, <3>2, <4>2
    <3>3. CASE current # s
      BY <1>3, <1>4, <1>6, <2>1, <3>1, <3>3
    <3> QED BY <3>2, <3>3
  <2> QED BY <1>2, <1>4, <2>1 DEF Alone
<1>9. \A m \in Waiting' \ Waiting : m.slot # "removeScene"
  BY <1>2
<1> QED BY <1>2, <1>3, <1>4, <1>5, <1>7, <1>8, <1>9, ItemStep

(* The user removes an item.                                                 *)
LEMMA RemoveItemStep ==
  ASSUME ListInv, NEW s \in scenes, NEW i \in Items, RemoveItem(s, i)
  PROVE  ListInv'
<1>1. items' = ItemRemoved(s, i) /\ RemoveSceneItem(s, i) /\ Item(s)
  BY DEF RemoveItem
<1>2. /\ phase = "running"
      /\ UNCHANGED <<env, phase, collection, scenes, disableSaving, file>>
      /\ changes' \in 0..MaxChanges /\ slots' \in Seq(Slot) /\ projectChanged' \in BOOLEAN
      /\ Waiting \subseteq Waiting' /\ Waiting' \subseteq Waiting \cup {[slot |-> "save"]}
      /\ ~env.threads => \A m \in Waiting' : m.slot = "save"
  BY <1>1, ItemSaved
<1>3. /\ s \in Scenes /\ s # None /\ items' \in [Scenes -> Orders]
      /\ items'[s] = Without(items[s], i) /\ Range(items'[s]) = Range(items[s]) \ {i}
      /\ \A x \in Scenes : x # s => items'[x] = items[x]
      /\ \A m \in Waiting : m.slot = "removeItem" => m.item \notin Range(items'[m.scene])
  BY <1>1, ItemRemovedFacts
<1>4. /\ UNCHANGED <<list, current>> /\ rows \in Seq(Items)
      /\ current = s => rows' = Without(rows, i)
      /\ current # s => rows' = rows
  BY <1>1 DEF RemoveSceneItem, ListInv, DataTypes
<1>5. rows' \in Seq(Items) /\ Range(rows) \ {i} \subseteq Range(rows')
      /\ (current = None => rows' = rows)
  <2>1. Without(rows, i) \in Seq(Items) /\ Range(rows) \ {i} \subseteq Range(Without(rows, i))
    BY <1>4, WithoutFacts
  <2> QED BY <1>3, <1>4, <2>1
<1>6. current \in Scenes \cup {None}
  BY RangeOfSeq DEF ListInv, ListedOnce
<1>7. ItemsListed'
  <2>1. ASSUME current # None, NEW x \in Range(items'[current]) \ Range(rows')
        PROVE  [slot |-> "addItem", scene |-> current, item |-> x] \in Waiting'
    <3>1. x \in Range(items[current]) \ Range(rows)
      BY <1>3, <1>4, <1>5, <1>6, <2>1
    <3> QED BY <1>2, <2>1, <3>1 DEF ListInv, ItemsListed
  <2>2. \A m \in Waiting' : m.slot = "removeItem" => m.item \notin Range(items'[m.scene])
    BY <1>2, <1>3
  <2>3. current = None => rows' = <<>>
    BY <1>5 DEF ListInv, ItemsListed
  <2> QED BY <1>4, <2>1, <2>2, <2>3 DEF ItemsListed
<1>8. Alone'
  <2>1. ASSUME ~env.threads, current # None
        PROVE  rows' = Reverse(items'[current])
    <3>1. rows = Reverse(items[current])
      BY <2>1 DEF ListInv, Alone
    <3>2. CASE current = s
      <4>1. items[s] \in Seq(Items) /\ IsInjective(items[s])
        BY <1>3 DEF ListInv, DataTypes, Orders
      <4>2. Without(Reverse(items[s]), i) = Reverse(Without(items[s], i))
        BY <4>1, ReverseWithout
      <4> QED BY <1>3, <1>4, <3>1, <3>2, <4>2
    <3>3. CASE current # s
      BY <1>3, <1>4, <1>6, <2>1, <3>1, <3>3
    <3> QED BY <3>2, <3>3
  <2> QED BY <1>2, <1>4, <2>1 DEF Alone
<1>9. \A m \in Waiting' \ Waiting : m.slot # "removeScene"
  BY <1>2
<1> QED BY <1>2, <1>3, <1>4, <1>5, <1>7, <1>8, <1>9, ItemStep

(* The user moves an item: the rows come to stand in the new order.          *)
LEMMA MoveItemStep ==
  ASSUME ListInv, NEW s \in scenes, NEW i \in Items, NEW to \in DOMAIN items[s],
         MoveItem(s, i, to)
  PROVE  ListInv'
<1>1. /\ i \in Range(items[s]) /\ items' = Moved(s, i, to) /\ s = current
      /\ rows' = ReorderSources(rows, items'[s]) /\ UNCHANGED <<list, current>> /\ Item(s)
  BY DEF MoveItem
<1>2. /\ phase = "running"
      /\ UNCHANGED <<env, phase, collection, scenes, disableSaving, file>>
      /\ changes' \in 0..MaxChanges /\ slots' \in Seq(Slot) /\ projectChanged' \in BOOLEAN
      /\ Waiting \subseteq Waiting' /\ Waiting' \subseteq Waiting \cup {[slot |-> "save"]}
      /\ ~env.threads => \A m \in Waiting' : m.slot = "save"
  BY <1>1, ItemSaved
<1>3. /\ s \in Scenes /\ s # None /\ items' \in [Scenes -> Orders]
      /\ Len(items'[s]) = Len(items[s]) /\ Range(items'[s]) = Range(items[s])
      /\ \A x \in Scenes : x # s => items'[x] = items[x]
      /\ \A m \in Waiting : m.slot = "removeItem" => m.item \notin Range(items'[m.scene])
  BY <1>1, MovedFacts
<1>4. /\ rows \in Seq(Items) /\ items[s] \in Seq(Items) /\ IsInjective(items[s])
      /\ items'[s] \in Seq(Items) /\ IsInjective(items'[s])
  BY <1>3 DEF ListInv, DataTypes, Orders
<1>5. rows' \in Seq(Items) /\ Range(rows') = Range(rows)
  <2>1. rows' \in Shuffles(Items, rows)
    BY <1>1, <1>4, ReorderShuffles
  <2> QED BY <2>1 DEF Shuffles
<1>6. ItemsListed'
  <2>1. ASSUME NEW x \in Range(items'[current]) \ Range(rows')
        PROVE  [slot |-> "addItem", scene |-> current, item |-> x] \in Waiting'
    <3>1. x \in Range(items[current]) \ Range(rows)
      BY <1>1, <1>3, <1>5
    <3> QED BY <1>1, <1>2, <1>3, <3>1 DEF ListInv, ItemsListed
  <2>2. \A m \in Waiting' : m.slot = "removeItem" => m.item \notin Range(items'[m.scene])
    BY <1>2, <1>3
  <2> QED BY <1>1, <1>3, <2>1, <2>2 DEF ItemsListed
<1>7. Alone'
  <2>1. ASSUME ~env.threads
        PROVE  rows' = Reverse(items'[current])
    <3>1. rows = Reverse(items[s])
      BY <1>1, <1>3, <2>1 DEF ListInv, Alone
    <3>2. Len(rows) = Len(items[s]) /\ Range(rows) = Range(items[s])
      BY <1>4, <3>1, ReverseFacts
    <3>3. Len(rows) = Len(items'[s]) /\ Range(rows) = Range(items'[s])
      BY <1>3, <3>2
    <3>4. ReorderSources(rows, items'[s]) = Reverse(items'[s])
      BY <1>4, <3>3, ReorderExact
    <3> QED BY <1>1, <3>4
  <2> QED BY <1>1, <1>2, <2>1 DEF Alone
<1>8. \A m \in Waiting' \ Waiting : m.slot # "removeScene"
  BY <1>2
<1> QED BY <1>1, <1>2, <1>3, <1>5, <1>6, <1>7, <1>8, ItemStep

(* A change of items by another thread leaves the lists and queues a slot.   *)
LEMMA ThreadStep ==
  ASSUME ListInv, NEW s \in scenes, NEW m \in Slot, m.slot # "removeScene", Thread(m),
         UNCHANGED scenes, items' \in [Scenes -> Orders],
         \A x \in Waiting : x.slot = "removeItem" => x.item \notin Range(items'[x.scene]),
         m.slot = "removeItem" => m.item \notin Range(items'[m.scene]),
         current # None =>
           \A x \in Range(items'[current]) \ Range(items[current]) :
             m = [slot |-> "addItem", scene |-> current, item |-> x]
  PROVE  ListInv'
<1>1. /\ phase = "running" /\ changes' \in 0..MaxChanges /\ env.threads
      /\ slots' = Append(slots, m)
      /\ UNCHANGED <<env, phase, collection, list, current, rows, projectChanged,
                     disableSaving, file>>
  BY SceneCollectionAssumption DEF Thread, Change, widgets, ListInv, DataTypes
<1>2. slots' \in Seq(Slot) /\ Waiting' = Waiting \cup {m}
  BY <1>1, QueueFacts DEF Waiting, ListInv, DataTypes
<1>3. ItemsListed'
  <2>1. ASSUME current # None, NEW x \in Range(items'[current]) \ Range(rows)
        PROVE  [slot |-> "addItem", scene |-> current, item |-> x] \in Waiting'
    <3>1. CASE x \in Range(items[current])
      BY <1>2, <2>1, <3>1 DEF ListInv, ItemsListed
    <3>2. CASE x \notin Range(items[current])
      BY <1>2, <2>1, <3>2
    <3> QED BY <3>1, <3>2
  <2>2. \A x \in Waiting' : x.slot = "removeItem" => x.item \notin Range(items'[x.scene])
    BY <1>2
  <2> QED BY <1>1, <2>1, <2>2 DEF ListInv, ItemsListed
<1>4. Alone'
  BY <1>1 DEF Alone
<1>5. rows' \in Seq(Items) /\ projectChanged' \in BOOLEAN
  BY <1>1 DEF ListInv, DataTypes
<1>6. Waiting \subseteq Waiting' /\ \A x \in Waiting' \ Waiting : x.slot # "removeScene"
  BY <1>2
<1> QED BY <1>1, <1>2, <1>3, <1>4, <1>5, <1>6, ItemStep

(* Another thread adds an item.                                              *)
LEMMA ThreadAddItemStep ==
  ASSUME ListInv, NEW s \in scenes, NEW i \in Items, Thread_AddItem(s, i)
  PROVE  ListInv'
<1> DEFINE m == [slot |-> "addItem", scene |-> s, item |-> i]
<1>1. IsNew(s, i) /\ items' = ItemAdded(s, i) /\ UNCHANGED scenes /\ Thread(m)
  BY DEF Thread_AddItem
<1>2. /\ s \in Scenes /\ s # None /\ items' \in [Scenes -> Orders]
      /\ Range(items'[s]) = Range(items[s]) \cup {i}
      /\ \A x \in Scenes : x # s => items'[x] = items[x]
      /\ \A x \in Waiting : x.slot = "removeItem" => x.item \notin Range(items'[x.scene])
  BY <1>1, ItemAddedFacts
<1>3. m \in Slot /\ m.slot # "removeScene" /\ m.slot # "removeItem"
  BY <1>2 DEF Slot
<1>4. current \in Scenes \cup {None}
  BY RangeOfSeq DEF ListInv, ListedOnce
<1>5. ASSUME current # None, NEW x \in Range(items'[current]) \ Range(items[current])
      PROVE  m = [slot |-> "addItem", scene |-> current, item |-> x]
  <2>1. current = s
    BY <1>2, <1>4, <1>5
  <2>2. x = i
    BY <1>2, <1>5, <2>1
  <2> QED BY <2>1, <2>2
<1> HIDE DEF m
<1> QED BY <1>1, <1>2, <1>3, <1>5, ThreadStep

(* Another thread removes an item.                                           *)
LEMMA ThreadRemoveItemStep ==
  ASSUME ListInv, NEW s \in scenes, NEW i \in Items, Thread_RemoveItem(s, i)
  PROVE  ListInv'
<1> DEFINE m == [slot |-> "removeItem", scene |-> s, item |-> i]
<1>1. items' = ItemRemoved(s, i) /\ UNCHANGED scenes /\ Thread(m)
  BY DEF Thread_RemoveItem
<1>2. /\ s \in Scenes /\ s # None /\ items' \in [Scenes -> Orders]
      /\ Range(items'[s]) = Range(items[s]) \ {i}
      /\ \A x \in Scenes : x # s => items'[x] = items[x]
      /\ \A x \in Waiting : x.slot = "removeItem" => x.item \notin Range(items'[x.scene])
  BY <1>1, ItemRemovedFacts
<1>3. m \in Slot /\ m.slot # "removeScene" /\ m.item \notin Range(items'[m.scene])
  BY <1>2 DEF Slot
<1>4. current \in Scenes \cup {None}
  BY RangeOfSeq DEF ListInv, ListedOnce
<1>5. ASSUME current # None, NEW x \in Range(items'[current]) \ Range(items[current])
      PROVE  FALSE
  BY <1>2, <1>4, <1>5
<1> HIDE DEF m
<1> QED BY <1>1, <1>2, <1>3, <1>5, ThreadStep

(* Another thread moves an item.                                             *)
LEMMA ThreadMoveItemStep ==
  ASSUME ListInv, NEW s \in scenes, NEW i \in Items, NEW to \in DOMAIN items[s],
         Thread_MoveItem(s, i, to)
  PROVE  ListInv'
<1> DEFINE m == [slot |-> "reorder", scene |-> s]
<1>1. i \in Range(items[s]) /\ items' = Moved(s, i, to) /\ UNCHANGED scenes /\ Thread(m)
  BY DEF Thread_MoveItem
<1>2. /\ s \in Scenes /\ s # None /\ items' \in [Scenes -> Orders]
      /\ Range(items'[s]) = Range(items[s])
      /\ \A x \in Scenes : x # s => items'[x] = items[x]
      /\ \A x \in Waiting : x.slot = "removeItem" => x.item \notin Range(items'[x.scene])
  BY <1>1, MovedFacts
<1>3. m \in Slot /\ m.slot # "removeScene" /\ m.slot # "removeItem"
  BY <1>2 DEF Slot
<1>4. current \in Scenes \cup {None}
  BY RangeOfSeq DEF ListInv, ListedOnce
<1>5. ASSUME current # None, NEW x \in Range(items'[current]) \ Range(items[current])
      PROVE  FALSE
  BY <1>2, <1>4, <1>5
<1> HIDE DEF m
<1> QED BY <1>1, <1>2, <1>3, <1>5, ThreadStep

-----------------------------------------------------------------------------
(* The results.                                                              *)

(* At the start nothing is loaded.                                           *)
LEMMA InitInv == Init => ListInv
<1> SUFFICES ASSUME Init PROVE ListInv
  OBVIOUS
<1> USE DEF Init
<1>1. \A c \in Collections : /\ DOMAIN file[c].items = {Default[c]}
                             /\ file[c].items[Default[c]] = <<>>
                             /\ file[c].order = <<Default[c]>>
                             /\ file[c].current = Default[c]
  BY DEF Fresh
<1>2. \A c \in Collections : Default[c] \in Scenes /\ Home[Default[c]] = c
  BY SceneCollectionAssumption
<1>3. ASSUME NEW c \in Collections PROVE IsFile(file[c])
  <2> DEFINE d == Default[c]
             f == file[c]
  <2>1. d \in Scenes /\ IsFiniteSet({d})
    BY <1>2, FS_Singleton
  <2>2. DOMAIN f.items = {d} /\ f.items[d] = <<>> /\ f.order = <<d>> /\ f.current = d
    BY <1>1
  <2> HIDE DEF d, f
  <2>3. <<d>> \in Seq(Scenes)
    BY <2>1
  <2>4. IsFile(f)
    BY <2>1, <2>2, <2>3, NoOrder DEF IsFile
  <2> QED BY <2>4 DEF f
<1>4. Waiting = {}
  BY DEF Waiting, Range
<1>5. DataTypes
  <2>1. IsFiniteSet(scenes)
    BY FS_EmptySet
  <2>2. 0 \in 0..MaxChanges
    BY SceneCollectionAssumption
  <2>3. DOMAIN file = Collections
    OBVIOUS
  <2>4. rows \in Seq(Items) /\ slots \in Seq(Slot)
    OBVIOUS
  <2>5. items \in [Scenes -> Orders] /\ scenes \subseteq Scenes
    BY NoOrder
  <2>6. /\ env \in Environments /\ phase \in {"init", "running", "closing"}
        /\ collection \in Collections /\ projectChanged \in BOOLEAN /\ changes = 0
    OBVIOUS
  <2> HIDE DEF Init
  <2> QED BY <1>3, <2>1, <2>2, <2>3, <2>4, <2>5, <2>6 DEF DataTypes
<1>6. Phases
  BY <1>4 DEF Phases
<1>7. ListedOnce
  BY <1>4 DEF ListedOnce, Range, IsInjective
<1>8. ItemsListed /\ Alone
  BY <1>4 DEF ItemsListed, Alone
<1>9. Belong /\ FilesAreTheirOwn
  BY <1>1, <1>2 DEF Belong, FilesAreTheirOwn
<1> QED BY <1>5, <1>6, <1>7, <1>8, <1>9 DEF ListInv

(* Every step keeps the invariant.                                           *)
LEMMA NextInv == ListInv /\ [Next]_vars => ListInv'
<1> SUFFICES ASSUME ListInv, [Next]_vars PROVE ListInv'
  OBVIOUS
<1>1. CASE OBSInit
  BY <1>1, OBSInitStep
<1>2. CASE RunSlot
  BY <1>2, RunSlotStep
<1>3. CASE CloseEvent
  BY <1>3, CloseEventStep
<1>4. CASE \E c \in Collections : ChangeCollection(c)
  BY <1>4, ChangeCollectionStep
<1>5. CASE AddScene
  BY <1>5, AddSceneStep
<1>6. CASE RemoveSelectedScene
  BY <1>6, RemoveSelectedSceneStep
<1>7. CASE \E s \in Scenes : SelectScene(s)
  BY <1>7, SelectSceneStep
<1>8. CASE \E to \in 1..Len(list) : ChangeSceneIndex(to)
  BY <1>8, ChangeSceneIndexStep
<1>9. ASSUME NEW s \in scenes, NEW i \in Items,
             \/ AddItem(s, i) \/ RemoveItem(s, i)
             \/ \E to \in DOMAIN items[s] : MoveItem(s, i, to) \/ Thread_MoveItem(s, i, to)
             \/ Thread_AddItem(s, i) \/ Thread_RemoveItem(s, i)
      PROVE  ListInv'
  BY <1>9, AddItemStep, RemoveItemStep, MoveItemStep, ThreadMoveItemStep,
     ThreadAddItemStep, ThreadRemoveItemStep
<1>10. CASE \E s \in scenes : Thread_RemoveScene(s)
  BY <1>10, ThreadRemoveSceneStep
<1>11. CASE UNCHANGED vars
  <2>1. UNCHANGED <<env, phase, collection, scenes, items, list, current, rows,
                    projectChanged, slots, disableSaving, file, changes>>
    BY <1>11 DEF vars, lib, widgets, saving
  <2> QED BY <2>1 DEF ListInv, DataTypes, Phases, ListedOnce, ItemsListed, Alone, Belong,
                      FilesAreTheirOwn, Waiting
<1> QED BY <1>1, <1>2, <1>3, <1>4, <1>5, <1>6, <1>7, <1>8, <1>9, <1>10, <1>11 DEF Next

(* The invariant holds in every state.                                       *)
LEMMA InvHolds == Spec => []ListInv
<1> QED BY InitInv, NextInv, PTL DEF Spec

(* Whatever the user and other threads do, the variables keep their types:   *)
(* the current scene is always in the list, or there is none.                *)
THEOREM TypeCorrect == Spec => []TypeOK
<1> QED BY InvHolds, InvMirrors, PTL

(* Whenever the queue has run, the two lists say what libobs has: each scene *)
(* once and no other, and the items of the scene that is shown; without      *)
(* other threads these stand in the order of the scene.                      *)
THEOREM MirrorCorrect == Spec => []ListsMirror
<1> QED BY InvHolds, InvMirrors, PTL

(* No operation writes one collection into the file of another or leaves a   *)
(* file without a scene.                                                     *)
THEOREM FilesCorrect == Spec => []FilesAreTheirOwn
<1> QED BY InvHolds, InvMirrors, PTL
-----------------------------------------------------------------------------
(* What is in the files is found again.                                      *)

(* A file is what Snapshot makes; without other threads its order names its  *)
(* scenes, each once, and its current scene is one of them.                  *)
Whole(f) ==
  /\ f = [order |-> f.order, items |-> f.items, current |-> f.current]
  /\ f.items = [s \in DOMAIN f.items |-> f.items[s]]
  /\ ~env.threads => /\ IsInjective(f.order) /\ Range(f.order) = DOMAIN f.items
                      /\ f.current \in DOMAIN f.items \cup {None}

FilesWhole == \A c \in Collections : Whole(file[c])

(* Only the file of the collection that is open is ever written, with what   *)
(* there is.                                                                 *)
Written ==
  \/ UNCHANGED file
  \/ phase = "running" /\ file' = [file EXCEPT ![collection] = Snapshot]

(* A slot writes what was deferred, if saving is not disabled.               *)
LEMMA RunSlotWrites ==
  ASSUME ListInv, RunSlot
  PROVE  Written /\ UNCHANGED <<env, phase, collection>>
<1> DEFINE m == Head(slots)
<1>1. m \in Slot
  BY QueueFacts DEF RunSlot, ListInv, DataTypes
<1>2. \/ m.slot = "save" /\ SaveProjectDeferred
      \/ m.slot # "save" /\ UNCHANGED file
  <2> HIDE DEF m
  <2>1. m.slot \in {"save", "stale", "gone", "addItem", "removeItem", "reorder", "removeScene"}
    BY <1>1 DEF Slot
  <2>2. CASE m.slot = "save"
    BY <2>2 DEF RunSlot, m
  <2>3. CASE m.slot \in {"addItem", "removeItem", "removeScene", "stale"}
    BY <2>3 DEF RunSlot, m
  <2>4. CASE m.slot = "gone"
    BY <2>4 DEF RunSlot, m
  <2>5. CASE m.slot = "reorder" /\ m.scene = current
    BY <2>5 DEF RunSlot, m
  <2>6. CASE m.slot = "reorder" /\ m.scene # current
    BY <2>6 DEF RunSlot, m
  <2> QED BY <2>1, <2>2, <2>3, <2>4, <2>5, <2>6
<1>3. disableSaving = IF phase = "running" THEN 0 ELSE 1
  BY DEF ListInv, Phases
<1>4. Written
  BY <1>2, <1>3 DEF SaveProjectDeferred, Written
<1> QED BY <1>4 DEF RunSlot

(* So does every step.                                                       *)
LEMMA StepWrites ==
  ASSUME ListInv, [Next]_vars
  PROVE  UNCHANGED env /\ Written
<1>1. disableSaving = IF phase = "running" THEN 0 ELSE 1
  BY DEF ListInv, Phases
<1>2. CASE OBSInit \/ AddScene \/ RemoveSelectedScene
  BY <1>2 DEF OBSInit, AddScene, RemoveSelectedScene, Written
<1>3. CASE RunSlot
  BY <1>3, RunSlotWrites
<1>4. CASE CloseEvent
  BY <1>1, <1>4 DEF CloseEvent, SaveProjectNow, Written
<1>5. ASSUME NEW c \in Collections, ChangeCollection(c) PROVE UNCHANGED env /\ Written
  BY <1>1, <1>5 DEF ChangeCollection, Change, SaveProjectNow, Written
<1>6. ASSUME NEW s \in Scenes, SelectScene(s) PROVE UNCHANGED env /\ Written
  BY <1>6 DEF SelectScene, Written
<1>7. ASSUME NEW to \in 1..Len(list), ChangeSceneIndex(to) PROVE UNCHANGED env /\ Written
  BY <1>7 DEF ChangeSceneIndex, Written
<1>8. ASSUME NEW s \in scenes, NEW i \in Items,
             \/ AddItem(s, i) \/ RemoveItem(s, i)
             \/ \E to \in DOMAIN items[s] : MoveItem(s, i, to) \/ Thread_MoveItem(s, i, to)
             \/ Thread_AddItem(s, i) \/ Thread_RemoveItem(s, i)
      PROVE  UNCHANGED env /\ Written
  BY <1>8 DEF AddItem, RemoveItem, MoveItem, Item, Thread_MoveItem, Thread_AddItem,
     Thread_RemoveItem, Thread, Written
<1>9. ASSUME NEW s \in scenes, Thread_RemoveScene(s) PROVE UNCHANGED env /\ Written
  BY <1>9 DEF Thread_RemoveScene, Thread, Written
<1>10. CASE UNCHANGED vars
  BY <1>10 DEF vars, Written
<1> QED BY <1>2, <1>3, <1>4, <1>5, <1>6, <1>7, <1>8, <1>9, <1>10 DEF Next

(* What there is makes a whole file.                                         *)
LEMMA WholeStep ==
  ASSUME ListInv, FilesWhole, UNCHANGED env, Written
  PROVE  FilesWhole'
<1>1. CASE UNCHANGED file
  BY <1>1 DEF FilesWhole, Whole
<1>2. CASE phase = "running" /\ file' = [file EXCEPT ![collection] = Snapshot]
  <2> DEFINE f == Snapshot
  <2>1. /\ f = [order |-> list, items |-> [s \in scenes |-> items[s]], current |-> current]
        /\ f.order = list /\ f.current = current /\ f.items = [s \in scenes |-> items[s]]
        /\ DOMAIN f.items = scenes
    BY DEF Snapshot
  <2> HIDE DEF f
  <2>2. ~env.threads => /\ IsInjective(list) /\ Range(list) = scenes
                        /\ current \in scenes \cup {None}
    <3> SUFFICES ASSUME ~env.threads PROVE /\ IsInjective(list) /\ Range(list) = scenes
                                           /\ current \in scenes \cup {None}
      OBVIOUS
    <3>1. ASSUME NEW s \in Range(list) \ scenes PROVE FALSE
      <4>1. [slot |-> "removeScene", scene |-> s] \in Waiting
        BY DEF ListInv, ListedOnce
      <4> QED BY <4>1 DEF ListInv, Alone
    <3>2. IsInjective(list) /\ scenes \subseteq Range(list) /\ current \in Range(list) \cup {None}
      BY DEF ListInv, ListedOnce
    <3> QED BY <3>1, <3>2
  <2>3. f.items = [s \in DOMAIN f.items |-> f.items[s]]
    BY <2>1
  <2>4. Whole(f)
    BY <2>1, <2>2, <2>3 DEF Whole
  <2>5. \A c \in Collections : file'[c] = IF c = collection THEN f ELSE file[c]
    BY <1>2 DEF ListInv, DataTypes, f
  <2> QED BY <2>4, <2>5 DEF FilesWhole, Whole
<1> QED BY <1>1, <1>2 DEF Written

(* What is loaded is what the file holds.                                    *)
LEMMA Loaded ==
  ASSUME ListInv, FilesWhole, UNCHANGED env, NEW c \in Collections, LoadFile(c, file[c])
  PROVE  Document(Snapshot)' = Document(file[c]) /\ collection' = c
<1> DEFINE f == file[c]
           D == DOMAIN f.items
<1>1. IsFile(f) /\ Whole(f)
  BY DEF ListInv, DataTypes, FilesWhole
<1>2. /\ scenes' = D /\ items' = [s \in Scenes |-> IF s \in D THEN f.items[s] ELSE <<>>]
      /\ list' = LoadSceneListOrder(SetToSeq(D), f.order)
      /\ current' = IF f.current \in D THEN f.current ELSE None
      /\ collection' = c
  BY DEF LoadFile, Show
<1> HIDE DEF f
<1>3. D \subseteq Scenes /\ IsFiniteSet(D) /\ f.order \in Seq(Scenes)
  BY <1>1 DEF IsFile
<1>4. [s \in scenes' |-> items'[s]] = f.items
  <2>1. \A s \in D : items'[s] = f.items[s]
    BY <1>2, <1>3
  <2>2. [s \in scenes' |-> items'[s]] = [s \in D |-> f.items[s]]
    BY <1>2, <2>1
  <2> QED BY <1>1, <2>2 DEF Whole
<1>5. CASE env.threads
  BY <1>2, <1>4, <1>5 DEF Document, Snapshot, f
<1>6. CASE ~env.threads
  <2>1. IsInjective(f.order) /\ Range(f.order) = D /\ f.current \in D \cup {None}
    BY <1>1, <1>6 DEF Whole
  <2>2. list' = f.order
    <3> DEFINE q == SetToSeq(D)
    <3> HIDE DEF D
    <3>1. q \in Seq(D) /\ IsInjective(q) /\ Range(q) = D
      BY <1>3, SetToSeqFacts
    <3>2. q \in Seq(Scenes)
      BY <1>3, <3>1, SeqMonotonic
    <3> HIDE DEF q
    <3>3. Len(q) = Len(f.order)
      BY <1>3, <2>1, <3>1, <3>2, InjectiveLength
    <3>4. LoadSceneListOrder(q, f.order) = f.order
      BY <1>3, <2>1, <3>1, <3>2, <3>3, LoadExact
    <3> QED BY <1>2, <3>4 DEF q
  <2>3. current' = f.current
    BY <1>2, <2>1
  <2>4. Snapshot' = f
    BY <1>1, <1>4, <2>2, <2>3 DEF Snapshot, Whole
  <2> QED BY <1>2, <1>6, <2>4 DEF Document, f
<1> QED BY <1>5, <1>6

(* A step that neither opens nor closes a collection changes no other.       *)
LEMMA EditMaps ==
  ASSUME ListInv, Written, UNCHANGED <<env, phase, collection>>
  PROVE  Store!Edit
<1>1. Open' = Open
  BY DEF Open
<1>2. \A c \in Collections \ Open : Contents'[c] = Contents[c]
  BY <1>1 DEF Contents, Document, Written, Open, ListInv, DataTypes
<1>3. DOMAIN Contents = Collections /\ DOMAIN Contents' = Collections
  BY DEF Contents
<1> QED BY <1>1, <1>2, <1>3 DEF Store!Edit

(* The program starts with what the file of its collection holds.            *)
LEMMA OBSInitMaps ==
  ASSUME ListInv, FilesWhole, OBSInit
  PROVE  Store!OpenOrClose \/ Store!Disturb
<1>1. CASE env.missing
  BY <1>1 DEF Store!Disturb
<1>2. CASE ~env.missing
  <2>1. collection \in Collections /\ LoadFile(collection, file[collection])
        /\ UNCHANGED <<env, file>> /\ phase = "init" /\ phase' = "running"
    BY <1>2 DEF OBSInit, Load, ListInv, DataTypes
  <2>2. Document(Snapshot)' = Document(file[collection]) /\ collection' = collection
    BY <2>1, Loaded
  <2>3. Open = {} /\ Open' = {collection}
    BY <2>1, <2>2 DEF Open
  <2>4. \A c \in Collections : Contents'[c] = Contents[c]
    BY <2>1, <2>2, <2>3 DEF Contents, Document
  <2>5. Contents' = Contents
    BY <2>4 DEF Contents
  <2> QED BY <2>5 DEF Store!OpenOrClose
<1> QED BY <1>1, <1>2

(* Another collection is opened: the old one is in its file then.            *)
LEMMA ChangeCollectionMaps ==
  ASSUME ListInv, FilesWhole, NEW c \in Collections, ChangeCollection(c)
  PROVE  Store!OpenOrClose \/ Store!Disturb
<1>1. CASE env.missing
  BY <1>1 DEF Store!Disturb
<1>2. CASE ~env.missing
  <2>1. /\ phase = "running" /\ phase' = "running" /\ UNCHANGED env
        /\ c # collection /\ LoadFile(c, file[c])
        /\ file' = [file EXCEPT ![collection] = Snapshot]
    BY <1>2 DEF ChangeCollection, Change, Load, SaveProjectNow, ListInv, Phases
  <2>2. Document(Snapshot)' = Document(file[c]) /\ collection' = c
    BY <2>1, Loaded
  <2>3. Open = {collection} /\ Open' = {c}
    BY <2>1, <2>2 DEF Open
  <2>4. /\ file'[collection] = Snapshot
        /\ \A d \in Collections : d # collection => file'[d] = file[d]
    BY <2>1 DEF ListInv, DataTypes
  <2>5. ASSUME NEW d \in Collections PROVE Contents'[d] = Contents[d]
    <3>1. CASE d = c
      <4>1. Contents'[d] = Document(Snapshot)'
        BY <2>3, <3>1 DEF Contents
      <4>2. Contents[d] = Document(file[c])
        BY <2>1, <2>3, <3>1 DEF Contents
      <4> QED BY <2>2, <4>1, <4>2
    <3>2. CASE d # c
      <4>1. Contents'[d] = Document(file[d])'
        BY <2>3, <3>2 DEF Contents
      <4>2. Contents[d] = Document(IF d = collection THEN Snapshot ELSE file[d])
        BY <2>3 DEF Contents
      <4> QED BY <2>1, <2>4, <4>1, <4>2 DEF Document
    <3> QED BY <3>1, <3>2
  <2>6. Contents' = Contents
    BY <2>5 DEF Contents
  <2> QED BY <2>6 DEF Store!OpenOrClose
<1> QED BY <1>1, <1>2

(* The program ends with everything in its file.                             *)
LEMMA CloseEventMaps ==
  ASSUME ListInv, CloseEvent
  PROVE  Store!OpenOrClose
<1>1. /\ phase = "running" /\ phase' = "closing" /\ UNCHANGED <<env, collection>>
      /\ file' = [file EXCEPT ![collection] = Snapshot]
  BY DEF CloseEvent, SaveProjectNow, ListInv, Phases
<1>2. Open = {collection} /\ Open' = {}
  BY <1>1 DEF Open
<1>3. /\ file'[collection] = Snapshot
      /\ \A d \in Collections : d # collection => file'[d] = file[d]
  BY <1>1 DEF ListInv, DataTypes
<1>4. ASSUME NEW d \in Collections PROVE Contents'[d] = Contents[d]
  <2>1. Contents'[d] = Document(file[d])'
    BY <1>2 DEF Contents
  <2>2. Contents[d] = Document(IF d = collection THEN Snapshot ELSE file[d])
    BY <1>2 DEF Contents
  <2> QED BY <1>1, <1>3, <2>1, <2>2 DEF Document
<1>5. Contents' = Contents
  BY <1>4 DEF Contents
<1> QED BY <1>5 DEF Store!OpenOrClose

(* Nothing is lost when the collection changes or the program ends: every    *)
(* collection is found again as it was left, unless files are taken away.    *)
THEOREM StoreCorrect == Spec => NothingLost
<1>1. Init => Store!Init /\ FilesWhole
  <2> SUFFICES ASSUME Init PROVE Store!Init /\ FilesWhole
    OBVIOUS
  <2>1. Store!Init
    BY DEF Init, Store!Init, Open
  <2>2. ASSUME NEW c \in Collections PROVE Whole(file[c])
    <3> DEFINE d == Default[c]
               f == file[c]
    <3>1. f = [order |-> <<d>>, items |-> [s \in {d} |-> <<>>], current |-> d]
      BY DEF Init, Fresh
    <3> HIDE DEF d, f
    <3>2. f.order = <<d>> /\ f.items = [s \in {d} |-> <<>>] /\ f.current = d
          /\ DOMAIN f.items = {d}
      BY <3>1
    <3>3. IsInjective(<<d>>) /\ Range(<<d>>) = {d}
      BY DEF IsInjective, Range
    <3>4. f = [order |-> f.order, items |-> f.items, current |-> f.current]
      BY <3>1, <3>2
    <3>5. f.items = [s \in DOMAIN f.items |-> f.items[s]]
      BY <3>2
    <3>6. Whole(f)
      BY <3>2, <3>3, <3>4, <3>5 DEF Whole
    <3> QED BY <3>6 DEF f
  <2> QED BY <2>1, <2>2 DEF FilesWhole
<1>2. ListInv /\ FilesWhole /\ [Next]_vars => FilesWhole'
  BY StepWrites, WholeStep
<1>3. ListInv /\ FilesWhole /\ [Next]_vars
        => [Store!Edit \/ Store!OpenOrClose \/ Store!Disturb]_(Store!vars)
  <2> SUFFICES ASSUME ListInv, FilesWhole, [Next]_vars
               PROVE  Store!Edit \/ Store!OpenOrClose \/ Store!Disturb
    OBVIOUS
  <2>1. UNCHANGED env /\ Written
    BY StepWrites
  <2>2. ASSUME UNCHANGED <<env, phase, collection>> PROVE Store!Edit
    BY <2>1, <2>2, EditMaps
  <2>3. CASE RunSlot \/ AddScene \/ RemoveSelectedScene
    BY <2>2, <2>3 DEF RunSlot, AddScene, RemoveSelectedScene
  <2>4. ASSUME NEW s \in Scenes, SelectScene(s) PROVE Store!Edit
    BY <2>2, <2>4 DEF SelectScene
  <2>5. ASSUME NEW to \in 1..Len(list), ChangeSceneIndex(to) PROVE Store!Edit
    BY <2>2, <2>5 DEF ChangeSceneIndex
  <2>6. ASSUME NEW s \in scenes, NEW i \in Items,
               \/ AddItem(s, i) \/ RemoveItem(s, i)
               \/ \E to \in DOMAIN items[s] : MoveItem(s, i, to) \/ Thread_MoveItem(s, i, to)
               \/ Thread_AddItem(s, i) \/ Thread_RemoveItem(s, i)
        PROVE  Store!Edit
    BY <2>2, <2>6 DEF AddItem, RemoveItem, MoveItem, Item, Thread_MoveItem, Thread_AddItem,
       Thread_RemoveItem, Thread
  <2>7. ASSUME NEW s \in scenes, Thread_RemoveScene(s) PROVE Store!Edit
    BY <2>2, <2>7 DEF Thread_RemoveScene, Thread
  <2>8. CASE UNCHANGED vars
    BY <2>2, <2>8 DEF vars
  <2> QED BY <2>3, <2>4, <2>5, <2>6, <2>7, <2>8, OBSInitMaps, ChangeCollectionMaps,
             CloseEventMaps DEF Next
<1> QED BY <1>1, <1>2, <1>3, InvHolds, PTL DEF Spec, NothingLost, Store!Spec
=============================================================================
