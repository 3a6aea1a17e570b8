---------------------------- MODULE SizesProofs ----------------------------
(***************************************************************************)
(* The proof that the sizes of the folders are right.  While requests keep *)
(* the discipline of HandlersProps, the size of a folder is the sum of the *)
(* sizes of the files below it whenever no request is being handled, for   *)
(* any finite set of ids, any forest and any depth of it.                  *)
(*                                                                         *)
(* The sum is over descendants, the code climbs from child to parent: the  *)
(* first part turns the one into the other.  The second says what a write  *)
(* to one row does to the sum below every item, and the third that the     *)
(* calls of ChangeSize still to come make up for just that.                *)
(***************************************************************************)
EXTENDS HandlersPropsProofs, FiniteSums
-----------------------------------------------------------------------------
(* The parent of an item is among its ancestors, and brings its own.       *)
LEMMA ParentAbove ==
  ASSUME NEW tbl \in ItemTable, NEW x \in Ids, ItemExists(tbl, x), tbl[x].parent # Null
  PROVE  /\ tbl[x].parent \in Ids
         /\ tbl[x].parent \in Ancestors(tbl, x)
         /\ Ancestors(tbl, tbl[x].parent) \subseteq Ancestors(tbl, x)
<1>1. /\ Ancestors(tbl, x) \subseteq Ids
      /\ x \in Ancestors(tbl, x)
      /\ ClosedAbove(tbl, Ancestors(tbl, x))
  BY AncestorsFacts
<1>2. tbl[x].parent \in Ancestors(tbl, x)
  BY <1>1 DEF ClosedAbove
<1>3. Ancestors(tbl, x) \in SUBSET Ids
  BY <1>1
<1>4. Ancestors(tbl, tbl[x].parent) \subseteq Ancestors(tbl, x)
  BY <1>1, <1>2, <1>3, AncestorsLeast
<1> QED
  BY <1>1, <1>2, <1>4

(* Above an item are itself and what is above its parent.                  *)
LEMMA AncestorsUnfold ==
  ASSUME NEW tbl \in ItemTable, NEW x \in Ids
  PROVE  \A y \in Ids : y \in Ancestors(tbl, x) <=>
           \/ y = x
           \/ /\ ItemExists(tbl, x) /\ tbl[x].parent # Null
              /\ y \in Ancestors(tbl, tbl[x].parent)
<1>1. x \in Ancestors(tbl, x)
  BY AncestorsFacts
<1>2. CASE ItemExists(tbl, x) /\ tbl[x].parent # Null
  <2>1. PICK S : S = {x} \cup Ancestors(tbl, tbl[x].parent)
    OBVIOUS
  <2>2. /\ tbl[x].parent \in Ids
        /\ Ancestors(tbl, tbl[x].parent) \subseteq Ancestors(tbl, x)
    BY <1>2, ParentAbove
  <2>3. /\ Ancestors(tbl, tbl[x].parent) \subseteq Ids
        /\ tbl[x].parent \in Ancestors(tbl, tbl[x].parent)
        /\ ClosedAbove(tbl, Ancestors(tbl, tbl[x].parent))
    BY <2>2, AncestorsFacts
  <2>4. S \in SUBSET Ids /\ x \in S
    BY <2>1, <2>3
  <2>5. ClosedAbove(tbl, S)
    BY <2>1, <2>3 DEF ClosedAbove
  <2>6. Ancestors(tbl, x) \subseteq S
    BY <2>4, <2>5, AncestorsLeast
  <2> QED
    BY <1>1, <1>2, <2>1, <2>2, <2>6
<1>3. CASE ~(ItemExists(tbl, x) /\ tbl[x].parent # Null)
  <2>1. {x} \in SUBSET Ids /\ x \in {x}
    OBVIOUS
  <2>2. ClosedAbove(tbl, {x})
    BY <1>3 DEF ClosedAbove
  <2>3. Ancestors(tbl, x) \subseteq {x}
    BY <2>1, <2>2, AncestorsLeast
  <2> QED
    BY <1>1, <1>3, <2>3
<1> QED
  BY <1>2, <1>3

(* An item is below another when the other is above it.                    *)
LEMMA BelowIsAbove ==
  ASSUME NEW tbl \in ItemTable, NEW top \in Ids, NEW y \in Ids
  PROVE  y \in Descendants(tbl, top) <=> top \in Ancestors(tbl, y)
<1>1. ASSUME y \in Descendants(tbl, top)
      PROVE  top \in Ancestors(tbl, y)
  <2>1. PICK S : S = {z \in Ids : top \in Ancestors(tbl, z)}
    OBVIOUS
  <2>2. S \in SUBSET Ids /\ top \in S
    BY <2>1, AncestorsFacts
  <2>3. ASSUME NEW z \in Ids, ItemExists(tbl, z), tbl[z].parent \in S
        PROVE  z \in S
    <3>1. tbl[z].parent # Null
      BY <2>1, <2>3, TablesAssumption
    <3> QED
      BY <2>1, <2>3, <3>1, ParentAbove
  <2>4. ClosedBelow(tbl, S)
    BY <2>3 DEF ClosedBelow
  <2>5. Descendants(tbl, top) \subseteq S
    BY <2>2, <2>4, DescendantsLeast
  <2> QED
    BY <1>1, <2>1, <2>5
<1>2. ASSUME top \in Ancestors(tbl, y)
      PROVE  y \in Descendants(tbl, top)
  <2>1. PICK S : S = {z \in Ids : y \in Descendants(tbl, z)}
    OBVIOUS
  <2>2. S \in SUBSET Ids /\ y \in S
    BY <2>1, DescendantsFacts
  <2>3. ASSUME NEW z \in S, ItemExists(tbl, z), tbl[z].parent # Null
        PROVE  tbl[z].parent \in S
    <3>1. z \in Ids /\ tbl[z].parent \in Ids
      BY <2>1, <2>3, ParentAbove
    <3>2. PICK D : D = Descendants(tbl, tbl[z].parent)
      OBVIOUS
    <3>3. D \in SUBSET Ids /\ tbl[z].parent \in D /\ ClosedBelow(tbl, D)
      BY <3>1, <3>2, DescendantsFacts
    <3>4. z \in D
      BY <2>3, <3>1, <3>3 DEF ClosedBelow
    <3>5. Descendants(tbl, z) \subseteq D
      BY <3>3, <3>4, DescendantsLeast
    <3> QED
      BY <2>1, <3>1, <3>2, <3>5
  <2>4. ClosedAbove(tbl, S)
    BY <2>3 DEF ClosedAbove
  <2>5. Ancestors(tbl, y) \subseteq S
    BY <2>2, <2>4, AncestorsLeast
  <2> QED
    BY <1>2, <2>1, <2>5
<1> QED
  BY <1>1, <1>2

(* Of two items above a third one, one is above the other.                 *)
LEMMA AncestorsComparable ==
  ASSUME NEW tbl \in ItemTable, NEW x \in Ids,
         NEW y \in Ancestors(tbl, x), NEW z \in Ancestors(tbl, x)
  PROVE  y \in Ancestors(tbl, z) \/ z \in Ancestors(tbl, y)
<1>1. y \in Ids /\ z \in Ids
  BY AncestorsFacts
<1>2. PICK S : S = Ancestors(tbl, z) \cup {v \in Ids : z \in Ancestors(tbl, v)}
  OBVIOUS
<1>3. Ancestors(tbl, z) \subseteq Ids /\ ClosedAbove(tbl, Ancestors(tbl, z))
  BY <1>1, AncestorsFacts
<1>4. S \in SUBSET Ids /\ x \in S
  BY <1>2, <1>3
<1>5. ASSUME NEW v \in S, ItemExists(tbl, v), tbl[v].parent # Null
      PROVE  tbl[v].parent \in S
  <2>1. v \in Ids
    BY <1>4
  <2>2. tbl[v].parent \in Ids
    BY <1>5, <2>1, ParentAbove
  <2>3. CASE v \in Ancestors(tbl, z)
    BY <1>2, <1>3, <1>5, <2>3 DEF ClosedAbove
  <2>4. CASE v \notin Ancestors(tbl, z)
    <3>1. z \in Ancestors(tbl, v)
      BY <1>2, <2>4
    <3>2. v # z
      BY <2>4, <1>1, AncestorsFacts
    <3>3. z \in Ancestors(tbl, tbl[v].parent)
      BY <1>1, <1>5, <2>1, <3>1, <3>2, AncestorsUnfold
    <3> QED
      BY <1>2, <2>2, <3>3
  <2> QED
    BY <2>3, <2>4
<1>6. ClosedAbove(tbl, S)
  BY <1>5 DEF ClosedAbove
<1>7. Ancestors(tbl, x) \subseteq S
  BY <1>4, <1>6, AncestorsLeast
<1> QED
  BY <1>2, <1>7

(* Two tables that differ in the row of one item only.                     *)
OneRowApart(t1, t2, c) == \A y \in Ids \ {c} : t2[y] = t1[y]

(* What is not below the item has the same ancestors in both.              *)
LEMMA AncestorsElsewhere ==
  ASSUME NEW t1 \in ItemTable, NEW t2 \in ItemTable, NEW c \in Ids,
         OneRowApart(t1, t2, c), NEW x \in Ids, c \notin Ancestors(t1, x)
  PROVE  Ancestors(t2, x) = Ancestors(t1, x)
<1>1. /\ Ancestors(t1, x) \in SUBSET Ids /\ x \in Ancestors(t1, x)
      /\ ClosedAbove(t1, Ancestors(t1, x))
  BY AncestorsFacts
<1>2. ClosedAbove(t2, Ancestors(t1, x))
  BY <1>1 DEF ClosedAbove, OneRowApart, ItemExists
<1>3. Ancestors(t2, x) \subseteq Ancestors(t1, x)
  BY <1>1, <1>2, AncestorsLeast
<1>4. /\ Ancestors(t2, x) \in SUBSET Ids /\ x \in Ancestors(t2, x)
      /\ ClosedAbove(t2, Ancestors(t2, x))
  BY AncestorsFacts
<1>5. ClosedAbove(t1, Ancestors(t2, x))
  BY <1>3, <1>4 DEF ClosedAbove, OneRowApart, ItemExists
<1>6. Ancestors(t1, x) \subseteq Ancestors(t2, x)
  BY <1>4, <1>5, AncestorsLeast
<1> QED
  BY <1>3, <1>6

(* An item no item lies in is above itself only.                           *)
LEMMA NothingBelow ==
  ASSUME NEW tbl \in ItemTable, NEW c \in Ids,
         \A y \in Ids : ItemExists(tbl, y) => tbl[y].parent # c,
         NEW x \in Ids \ {c}
  PROVE  c \notin Ancestors(tbl, x)
<1>1. Ids \ {c} \in SUBSET Ids /\ x \in Ids \ {c}
  OBVIOUS
<1>2. \A y \in Ids : ItemExists(tbl, y) => tbl[y].parent \in Ids \cup {Null}
  BY DEF ItemTable, Row, ItemExists, Parents
<1>3. ClosedAbove(tbl, Ids \ {c})
  BY <1>2 DEF ClosedAbove
<1>4. Ancestors(tbl, x) \subseteq Ids \ {c}
  BY <1>1, <1>3, AncestorsLeast
<1> QED
  BY <1>4
-----------------------------------------------------------------------------
(* The weight an item has in the sums: its size, if it is a file.          *)
Weights(tbl) == [f \in Ids |-> FileSize(tbl, f)]

(* What is summed below an item: the sizes of files as a function on ids.  *)
LEMMA WeightsFacts ==
  ASSUME NEW tbl \in ItemTable
  PROVE  /\ Weights(tbl) \in [Ids -> Int]
         /\ \A x \in Ids : Weights(tbl)[x] = FileSize(tbl, x)
         /\ \A x \in Ids : FileSize(tbl, x) \in Int
         /\ \A x \in Ids : SizeBelow(tbl, x)
                             = SumFunctionOnSet(Weights(tbl), Descendants(tbl, x))
<1>1. \A x \in Ids : FileSize(tbl, x) \in Int
  BY TablesAssumption DEF FileSize, ItemTable, Row, ItemExists, Int32, MinInt
<1> QED
  BY <1>1 DEF Weights, SizeBelow

(* The sum below an item does not change with what no file or place shows. *)
LEMMA SumsOfTheSame ==
  ASSUME IsFiniteSet(Ids), NEW t1 \in ItemTable, NEW t2 \in ItemTable,
         Shape(t1) = Shape(t2), \A x \in Ids : FileSize(t1, x) = FileSize(t2, x),
         NEW top \in Ids
  PROVE  SizeBelow(t1, top) = SizeBelow(t2, top)
<1>1. \A x \in Ids : Ancestors(t1, x) = Ancestors(t2, x)
  BY SameAncestors
<1>2. \A x \in Ids : /\ x \in Descendants(t1, top) <=> top \in Ancestors(t1, x)
                     /\ x \in Descendants(t2, top) <=> top \in Ancestors(t2, x)
  BY BelowIsAbove
<1>3. Descendants(t1, top) \subseteq Ids /\ Descendants(t2, top) \subseteq Ids
  BY DescendantsFacts
<1>4. Descendants(t1, top) = Descendants(t2, top)
  BY <1>1, <1>2, <1>3
<1>5. Weights(t1) = Weights(t2)
  BY DEF Weights
<1> QED
  BY <1>4, <1>5, WeightsFacts

(* What an item adds to the sum below another: its weight, if that is      *)
(* above its parent.                                                       *)
Share(tbl, c, top) ==
  IF /\ ItemExists(tbl, c) /\ tbl[c].parent # Null
     /\ top \in Ancestors(tbl, tbl[c].parent)
  THEN FileSize(tbl, c) ELSE 0

SumElsewhere(tbl, c, top) ==
  SumFunctionOnSet(Weights(tbl), Descendants(tbl, top) \ {c})

(* A sum below an item is the share of one row and the rest, which a       *)
(* write to that row leaves as it is.                                      *)
LEMMA SumSplit ==
  ASSUME IsFiniteSet(Ids), NEW tbl \in ItemTable, NEW c \in Ids, NEW top \in Ids \ {c}
  PROVE  /\ SizeBelow(tbl, top) = SumElsewhere(tbl, c, top) + Share(tbl, c, top)
         /\ SumElsewhere(tbl, c, top) \in Int /\ Share(tbl, c, top) \in Int
<1>1. PICK w \in [Ids -> Int] : w = Weights(tbl)
  BY WeightsFacts
<1>2. PICK D \in SUBSET Ids : D = Descendants(tbl, top)
  BY DescendantsFacts
<1>3. /\ SizeBelow(tbl, top) = SumFunctionOnSet(w, D)
      /\ SumElsewhere(tbl, c, top) = SumFunctionOnSet(w, D \ {c})
      /\ w[c] = FileSize(tbl, c)
  BY <1>1, <1>2, WeightsFacts DEF SumElsewhere
<1>4. c \in D <=> /\ ItemExists(tbl, c) /\ tbl[c].parent # Null
                  /\ top \in Ancestors(tbl, tbl[c].parent)
  <2>1. c \in D <=> top \in Ancestors(tbl, c)
    BY <1>2, BelowIsAbove
  <2>2. top \in Ids /\ top # c
    OBVIOUS
  <2> QED
    BY <2>1, <2>2, AncestorsUnfold
<1>5. D \ {c} \in SUBSET Ids
  OBVIOUS
<1>6. SumFunctionOnSet(w, D \ {c}) \in Int
  BY <1>5, SumFacts
<1>7. w[c] \in Int
  OBVIOUS
<1>8. CASE c \in D
  <2>1. SumFunctionOnSet(w, D) = w[c] + SumFunctionOnSet(w, D \ {c})
    BY <1>8, SumWithout
  <2>2. Share(tbl, c, top) = w[c]
    BY <1>3, <1>4, <1>8 DEF Share
  <2> QED
    BY <1>3, <1>6, <1>7, <2>1, <2>2
<1>9. CASE c \notin D
  <2>1. SumFunctionOnSet(w, D \ {c}) = SumFunctionOnSet(w, D)
    <3>1. D \ {c} = D
      BY <1>9
    <3> QED
      BY <3>1
  <2>2. Share(tbl, c, top) = 0
    BY <1>4, <1>9 DEF Share
  <2> QED
    BY <1>3, <1>6, <2>1, <2>2
<1> QED
  BY <1>8, <1>9

(* A write to a row nothing lies below changes what the item itself adds   *)
(* to a sum, and nothing else.                                             *)
LEMMA SumAfterLeaf ==
  ASSUME IsFiniteSet(Ids), NEW t1 \in ItemTable, NEW t2 \in ItemTable, NEW c \in Ids,
         OneRowApart(t1, t2, c),
         \A y \in Ids : ItemExists(t1, y) => t1[y].parent # c,
         NEW top \in Ids \ {c}
  PROVE  SizeBelow(t2, top) = SizeBelow(t1, top) - Share(t1, c, top) + Share(t2, c, top)
<1>1. \A x \in Ids \ {c} : Ancestors(t2, x) = Ancestors(t1, x)
  BY NothingBelow, AncestorsElsewhere
<1>2. \A x \in Ids : /\ x \in Descendants(t1, top) <=> top \in Ancestors(t1, x)
                     /\ x \in Descendants(t2, top) <=> top \in Ancestors(t2, x)
  BY BelowIsAbove
<1>3. Descendants(t1, top) \subseteq Ids /\ Descendants(t2, top) \subseteq Ids
  BY DescendantsFacts
<1>4. Descendants(t1, top) \ {c} = Descendants(t2, top) \ {c}
  BY <1>1, <1>2, <1>3
<1>5. PICK T \in SUBSET Ids : T = Descendants(t1, top) \ {c}
  BY <1>3
<1>6. PICK w1 \in [Ids -> Int] : w1 = Weights(t1)
  BY WeightsFacts
<1>7. PICK w2 \in [Ids -> Int] : w2 = Weights(t2)
  BY WeightsFacts
<1>8. \A x \in T : w1[x] = w2[x]
  BY <1>5, <1>6, <1>7, WeightsFacts DEF OneRowApart, FileSize, ItemExists
<1>9. SumFunctionOnSet(w1, T) = SumFunctionOnSet(w2, T)
  BY <1>8, SumOfEqual
<1>10. SumElsewhere(t1, c, top) = SumElsewhere(t2, c, top)
  BY <1>4, <1>5, <1>6, <1>7, <1>9 DEF SumElsewhere
<1>11. /\ SizeBelow(t1, top) = SumElsewhere(t1, c, top) + Share(t1, c, top)
       /\ SizeBelow(t2, top) = SumElsewhere(t2, c, top) + Share(t2, c, top)
       /\ SumElsewhere(t1, c, top) \in Int /\ Share(t1, c, top) \in Int
       /\ Share(t2, c, top) \in Int
  BY SumSplit
<1> QED
  BY <1>10, <1>11

(* A write to a folder under which nothing has a weight, before and after, *)
(* changes no sum, wherever the folder comes to lie: even in itself.       *)
LEMMA SumAfterEmpty ==
  ASSUME IsFiniteSet(Ids), NEW t1 \in ItemTable, NEW t2 \in ItemTable, NEW c \in Ids,
         OneRowApart(t1, t2, c), FileSize(t2, c) = 0,
         \A y \in Descendants(t1, c) : FileSize(t1, y) = 0,
         NEW top \in Ids
  PROVE  SizeBelow(t2, top) = SizeBelow(t1, top)
<1>1. FileSize(t1, c) = 0
  BY DescendantsFacts
<1>2. Weights(t1) = Weights(t2)
  BY <1>1 DEF Weights, OneRowApart, FileSize, ItemExists
<1>3. PICK w \in [Ids -> Int] : w = Weights(t1)
  BY WeightsFacts
<1>4. PICK D1 \in SUBSET Ids : D1 = Descendants(t1, top)
  BY DescendantsFacts
<1>5. PICK D2 \in SUBSET Ids : D2 = Descendants(t2, top)
  BY DescendantsFacts
<1>6. ASSUME NEW x \in Ids, w[x] # 0
      PROVE  x \in D1 <=> x \in D2
  <2>1. FileSize(t1, x) # 0
    BY <1>3, <1>6, WeightsFacts
  <2>2. c \notin Ancestors(t1, x)
    BY <2>1, BelowIsAbove
  <2>3. Ancestors(t2, x) = Ancestors(t1, x)
    BY <2>2, AncestorsElsewhere
  <2> QED
    BY <1>4, <1>5, <2>3, BelowIsAbove
<1>7. {x \in D1 : w[x] # 0} = {x \in D2 : w[x] # 0}
  BY <1>6
<1>8. /\ SumFunctionOnSet(w, D1) = SumFunctionOnSet(w, {x \in D1 : w[x] # 0})
      /\ SumFunctionOnSet(w, D2) = SumFunctionOnSet(w, {x \in D2 : w[x] # 0})
  BY SumOfWeighty
<1>9. /\ SizeBelow(t1, top) = SumFunctionOnSet(w, D1)
      /\ SizeBelow(t2, top) = SumFunctionOnSet(w, D2)
  BY <1>2, <1>3, <1>4, <1>5, WeightsFacts
<1> QED
  BY <1>7, <1>8, <1>9

(* Sums of what is not negative are not negative, and 0 only of zeros.     *)
LEMMA SumOfFiles ==
  ASSUME IsFiniteSet(Ids), NEW tbl \in ItemTable,
         \A x \in Ids : FileSize(tbl, x) >= 0, NEW top \in Ids
  PROVE  /\ SizeBelow(tbl, top) \in Nat
         /\ SizeBelow(tbl, top) = 0 =>
              \A y \in Descendants(tbl, top) : FileSize(tbl, y) = 0
<1>1. PICK w \in [Ids -> Int] : w = Weights(tbl)
  BY WeightsFacts
<1>2. PICK D \in SUBSET Ids : D = Descendants(tbl, top)
  BY DescendantsFacts
<1>3. \A x \in D : w[x] = FileSize(tbl, x) /\ w[x] \in Nat
  <2>1. \A x \in Ids : w[x] = FileSize(tbl, x)
    BY <1>1, WeightsFacts
  <2> SUFFICES ASSUME NEW x \in D PROVE w[x] = FileSize(tbl, x) /\ w[x] \in Nat
    OBVIOUS
  <2>2. x \in Ids /\ w[x] \in Int
    OBVIOUS
  <2>3. w[x] >= 0
    BY <2>1, <2>2
  <2> QED
    BY <2>1, <2>2, <2>3
<1>4. SizeBelow(tbl, top) = SumFunctionOnSet(w, D)
  BY <1>1, <1>2, WeightsFacts
<1>5. /\ SumFunctionOnSet(w, D) \in Nat
      /\ SumFunctionOnSet(w, D) = 0 => \A x \in D : w[x] = 0
  BY <1>3, SumOfNaturals
<1> QED
  BY <1>2, <1>3, <1>4, <1>5
-----------------------------------------------------------------------------
SizesInv == DatesInv /\ SizesInvariant

(* What the invariant gives at every step, in parts.                       *)
LEMMA SizesInvFacts ==
  ASSUME SizesInv
  PROVE  /\ TypeInv /\ ProgressInv /\ ParentExists
         /\ FoldersHoldItems /\ RestDisciplined /\ CallsToFolders /\ StackAbove
         /\ pc # "down" => SizesOwed
         /\ items \in ItemTable /\ before \in ItemTable
         /\ calls \in Seq(Call) /\ stack \in Seq(Ids)
BY DEF SizesInv, SizesInvariant, DatesInv, ProgressInv, ForestInv, TypeInv, TypeOK

(* What lies in a folder's place: above a folder there are only folders.   *)
LEMMA FoldersAbove ==
  ASSUME SizesInv, NEW x \in Ids, GetType(items, x) = "FOLDER"
  PROVE  \A y \in Ancestors(items, x) : y \in Ids /\ GetType(items, y) = "FOLDER"
<1>1. FoldersHoldItems
  BY SizesInvFacts
<1>2. PICK S : S = {y \in Ids : GetType(items, y) = "FOLDER"}
  OBVIOUS
<1>3. S \in SUBSET Ids /\ x \in S
  BY <1>2
<1>4. \A y \in Ids : ItemExists(items, y) => items[y].parent \in Ids \cup {Null}
  BY SizesInvFacts DEF ItemTable, Row, ItemExists, Parents
<1>5. ClosedAbove(items, S)
  BY <1>1, <1>2, <1>4 DEF ClosedAbove, FoldersHoldItems
<1>6. Ancestors(items, x) \subseteq S
  BY <1>3, <1>5, AncestorsLeast
<1> QED
  BY <1>2, <1>6

(* Sizes and debts are numbers.                                            *)
LEMMA SizesFacts ==
  ASSUME SizesInv, NEW x \in Ids
  PROVE  /\ ItemExists(items, x) => /\ items[x].size \in Int32
                                    /\ items[x].size \in Int
                                    /\ items[x].type \in Types
                                    /\ items[x].parent \in Parents
         /\ Owed(1, x) \in Int /\ Owed(2, x) \in Int
         /\ FileSize(items, x) >= 0
<1>1. items \in ItemTable /\ calls \in Seq(Call) /\ FoldersHoldItems
  BY SizesInvFacts
<1>2. ItemExists(items, x) => items[x] \in Row
  BY <1>1 DEF ItemTable, ItemExists
<1>3. \A n \in DOMAIN calls : calls[n] \in Call
  BY <1>1
<1>4. \A n \in DOMAIN calls : calls[n].delta \in Int
  BY <1>3 DEF Call
<1>5. Owed(1, x) \in Int /\ Owed(2, x) \in Int
  BY <1>4 DEF Owed
<1>6. FileSize(items, x) >= 0
  BY <1>1 DEF FileSize, FoldersHoldItems
<1> QED
  BY <1>2, <1>5, <1>6, TablesAssumption DEF Row, Int32, MinInt

(* No size changes while the handler logs, starts a call or climbs.        *)
LEMMA WaitingSizes ==
  ASSUME SizesInv, UNCHANGED <<items, calls, req, before, idx>>,
         pc \in {"log", "next", "climb"}, pc' \in {"next", "climb"}, StackAbove'
  PROVE  SizesInvariant'
<1>1. /\ FoldersHoldItems /\ RestDisciplined /\ CallsToFolders /\ SizesOwed
  BY SizesInvFacts
<1>2. FoldersHoldItems'
  BY <1>1 DEF FoldersHoldItems
<1>3. RestDisciplined'
  BY <1>1 DEF RestDisciplined, Handling, Quiet, FirstToStore
<1>4. CallsToFolders'
  BY <1>1 DEF CallsToFolders, Handling, Quiet, CurrentItem, DeleteSteps
<1>5. SizesOwed'
  BY <1>1 DEF SizesOwed, Owed, Unresized, DeleteSteps
<1> QED
  BY <1>2, <1>3, <1>4, <1>5 DEF SizesInvariant

(* A path that ends at the top comes to no item twice: else it would go    *)
(* on from its last item as it did from the first.                         *)
LEMMA PathsEnd ==
  ASSUME NEW tbl, NEW s \in Seq(Ids), s # <<>>, tbl[s[Len(s)]].parent = Null,
         \A n \in 1 .. Len(s) - 1 : tbl[s[n]].parent = s[n + 1]
  PROVE  IsInjective(s)
<1>1. SUFFICES ASSUME NEW i \in 1 .. Len(s), NEW j \in 1 .. Len(s), i < j, s[i] = s[j]
               PROVE  FALSE
  <2>1. DOMAIN s = 1 .. Len(s)
    OBVIOUS
  <2>2. ASSUME NEW i \in 1 .. Len(s), NEW j \in 1 .. Len(s), s[i] = s[j]
        PROVE  i = j
    <3>1. i < j \/ j < i \/ i = j
      OBVIOUS
    <3> QED
      BY <1>1, <2>2, <3>1
  <2> QED
    BY <2>1, <2>2 DEF IsInjective
<1>2. Len(s) \in Nat
  OBVIOUS
<1>3. PICK A : A = {k \in Nat : j + k <= Len(s) => s[i + k] = s[j + k]}
  OBVIOUS
<1>4. 0 \in A
  BY <1>1, <1>3
<1>5. ASSUME NEW k \in Nat, k \in A
      PROVE  k + 1 \in A
  <2>1. SUFFICES ASSUME j + (k + 1) <= Len(s)
                 PROVE  s[i + (k + 1)] = s[j + (k + 1)]
    BY <1>3
  <2>2. s[i + k] = s[j + k]
    BY <1>2, <1>3, <1>5, <2>1
  <2>3. i + k \in 1 .. Len(s) - 1 /\ j + k \in 1 .. Len(s) - 1
    BY <1>1, <1>2, <2>1
  <2>4. tbl[s[i + k]].parent = s[(i + k) + 1] /\ tbl[s[j + k]].parent = s[(j + k) + 1]
    BY <2>3
  <2>5. (i + k) + 1 = i + (k + 1) /\ (j + k) + 1 = j + (k + 1)
    OBVIOUS
  <2> QED
    BY <2>2, <2>4, <2>5
<1>6. Nat \subseteq A
  BY <1>4, <1>5, NumbersInductive
<1>7. PICK k \in Nat : k = Len(s) - j
  <2>1. Len(s) - j \in Nat
    BY <1>2
  <2> QED
    BY <2>1
<1>8. j + k = Len(s) /\ i + k \in 1 .. Len(s) - 1
  BY <1>1, <1>2, <1>7
<1>9. s[i + k] = s[Len(s)]
  <2>1. k \in A
    BY <1>6
  <2>2. j + k <= Len(s)
    BY <1>2, <1>8
  <2> QED
    BY <1>3, <1>8, <2>1, <2>2
<1>10. tbl[s[i + k]].parent = s[(i + k) + 1] /\ s[(i + k) + 1] \in Ids
  BY <1>8
<1> QED
  BY <1>9, <1>10, TablesAssumption

(* Log, call and climb: what is on the stack lies above the first call; at *)
(* the top it is all there is above it.                                    *)
LEMMA ClimbSizes ==
  ASSUME SizesInv, LogItem \/ CallChangeSize \/ Climb
  PROVE  SizesInvariant'
<1>1. /\ TypeInv /\ StackAbove /\ items \in ItemTable /\ StackIsPath
      /\ calls \in Seq(Call) /\ stack \in Seq(Ids)
  BY SizesInvFacts DEF SizesInv, DatesInv, DatesInvariant
<1>2. UNCHANGED <<items, calls, req, before, idx>>
  BY DEF LogItem, CallChangeSize, Climb, tables, volatile
<1>3. CASE LogItem
  <2>1. pc = "log" /\ pc' = "next"
    BY <1>3 DEF LogItem
  <2>2. StackAbove'
    BY <2>1 DEF StackAbove
  <2> QED
    BY <1>2, <2>1, <2>2, WaitingSizes
<1>4. CASE CallChangeSize
  <2>1. /\ pc = "next" /\ pc' = "climb" /\ calls # <<>>
        /\ stack' = <<Head(calls).id>>
    BY <1>4 DEF CallChangeSize
  <2>2. Head(calls).id \in Ids
    <3>1. Head(calls) \in Call
      BY <1>1, <2>1, HeadTailFacts
    <3> QED
      BY <3>1 DEF Call
  <2>3. Range(stack') = {Head(calls).id}
    BY <2>1 DEF Range
  <2>4. Head(calls).id \in Ancestors(items, Head(calls).id)
    BY <1>1, <2>2, AncestorsFacts
  <2>5. StackAbove'
    BY <1>2, <2>1, <2>3, <2>4 DEF StackAbove
  <2> QED
    BY <1>2, <2>1, <2>5, WaitingSizes
<1>5. CASE Climb
  <2>1. /\ pc = "climb" /\ ItemExists(items, Last(stack)) /\ calls' = calls /\ items' = items
    BY <1>2, <1>5 DEF Climb
  <2>2. /\ stack # <<>> /\ calls # <<>>
        /\ Last(stack) \in Ids /\ Head(calls) \in Call
    BY <1>1, <2>1, ClimbFacts DEF TypeInv, Control, ChangeSteps
  <2>3. Head(calls).id \in Ids
    BY <2>2 DEF Call
  <2>4. /\ Range(stack) \subseteq Ancestors(items, Head(calls).id)
        /\ Last(stack) \in Range(stack)
    BY <1>1, <2>1, <2>2, RangeFacts DEF StackAbove
  <2>5. CASE items[Last(stack)].parent # Null
    <3>1. /\ stack' = Append(stack, items[Last(stack)].parent) /\ pc' = "climb"
      BY <1>5, <2>1, <2>5 DEF Climb
    <3>2. items[Last(stack)].parent \in Ids
      BY <1>1, <2>1, <2>2, <2>5, ParentAbove
    <3>3. Range(stack') = Range(stack) \cup {items[Last(stack)].parent}
      BY <1>1, <3>1, <3>2, RangeFacts
    <3>4. ClosedAbove(items, Ancestors(items, Head(calls).id))
      BY <1>1, <2>3, AncestorsFacts
    <3>5. items[Last(stack)].parent \in Ancestors(items, Head(calls).id)
      BY <2>1, <2>4, <2>5, <3>4 DEF ClosedAbove
    <3>6. StackAbove'
      BY <2>1, <2>4, <3>1, <3>3, <3>5 DEF StackAbove
    <3> QED
      BY <1>2, <2>1, <3>1, <3>6, WaitingSizes
  <2>6. CASE items[Last(stack)].parent = Null
    <3>1. stack' = stack /\ pc' = "resize"
      BY <1>5, <2>1, <2>6 DEF Climb
    <3>2. Ancestors(items, Head(calls).id) \subseteq Range(stack)
      BY <1>1, <1>5, <2>6, TopReached
    <3>3. Range(stack) = Ancestors(items, Head(calls).id)
      BY <2>4, <3>2
    <3>4. IsInjective(stack)
      <4>1. \A n \in 1 .. Len(stack) - 1 : items[stack[n]].parent = stack[n + 1]
        BY <1>1, <2>1 DEF StackIsPath
      <4>2. Last(stack) = stack[Len(stack)]
        BY DEF Last
      <4> QED
        BY <1>1, <2>2, <2>6, <4>1, <4>2, PathsEnd
    <3>5. StackAbove'
      BY <2>1, <3>1, <3>3, <3>4 DEF StackAbove
    <3>6. FoldersHoldItems /\ RestDisciplined /\ CallsToFolders /\ SizesOwed
      BY <2>1, SizesInvFacts
    <3>7. FoldersHoldItems'
      BY <2>1, <3>6 DEF FoldersHoldItems
    <3>8. RestDisciplined'
      BY <1>2, <2>1, <3>1, <3>6 DEF RestDisciplined, Handling, Quiet, FirstToStore
    <3>9. CallsToFolders'
      BY <1>2, <2>1, <3>1, <3>6 DEF CallsToFolders, Handling, Quiet, CurrentItem, DeleteSteps
    <3>10. Unresized(1)' = Unresized(1) /\ Unresized(2)' = Unresized(2)
      <4>1. Head(calls) = calls[1]
        BY <1>1, <2>2
      <4> QED
        BY <2>1, <3>1, <3>3, <4>1 DEF Unresized
    <3>11. SizesOwed'
      BY <1>2, <2>1, <3>1, <3>6, <3>10 DEF SizesOwed, Owed, DeleteSteps
    <3> QED
      BY <3>5, <3>7, <3>8, <3>9, <3>11 DEF SizesInvariant
  <2> QED
    BY <2>5, <2>6
<1> QED
  BY <1>3, <1>4, <1>5

(* The item ChangeSize is at: a folder above the one it was called for.    *)
LEMMA AtWork ==
  ASSUME SizesInv, pc \in {"resize", "redate", "record"}
  PROVE  /\ stack # <<>> /\ 1 \in DOMAIN calls /\ calls[1] = Head(calls)
         /\ calls[1] \in Call /\ calls[1].delta \in Int
         /\ Last(stack) \in Ids /\ ItemExists(items, Last(stack))
         /\ GetType(items, Last(stack)) = "FOLDER"
         /\ items[Last(stack)].type = "FOLDER"
         /\ Range(stack) = Range(Front(stack)) \cup {Last(stack)}
         /\ Last(stack) \notin Range(Front(stack))
<1>1. /\ TypeInv /\ StackAbove /\ CallsToFolders
      /\ calls \in Seq(Call) /\ stack \in Seq(Ids)
  BY SizesInvFacts
<1>2. stack # <<>> /\ calls # <<>>
  BY <1>1 DEF TypeInv, Control, ChangeSteps
<1>3. 1 \in DOMAIN calls /\ calls[1] = Head(calls) /\ calls[1] \in Call
  BY <1>1, <1>2
<1>4. calls[1].delta \in Int /\ calls[1].id \in Ids
  BY <1>3 DEF Call
<1>5. /\ Last(stack) \in Range(stack)
      /\ Range(stack) = Range(Front(stack)) \cup {Last(stack)}
  BY <1>1, <1>2, RangeFacts
<1>6. Range(stack) \subseteq Ancestors(items, calls[1].id) /\ IsInjective(stack)
  BY <1>1, <1>3 DEF StackAbove
<1>7. GetType(items, calls[1].id) = "FOLDER"
  BY <1>1, <1>3 DEF CallsToFolders
<1>8. Last(stack) \in Ids /\ GetType(items, Last(stack)) = "FOLDER"
  BY <1>4, <1>5, <1>6, <1>7, FoldersAbove
<1>9. ItemExists(items, Last(stack)) /\ items[Last(stack)].type = "FOLDER"
  BY <1>8 DEF GetType
<1>10. Last(stack) \notin Range(Front(stack))
  <2>1. SUFFICES ASSUME NEW n \in DOMAIN Front(stack), Front(stack)[n] = Last(stack)
                 PROVE  FALSE
    BY DEF Range
  <2>2. /\ Front(stack) \in Seq(Ids) /\ Len(Front(stack)) = Len(stack) - 1
        /\ Len(stack) \in Nat \ {0}
        /\ \A k \in 1 .. Len(stack) - 1 : Front(stack)[k] = stack[k]
    BY <1>1, <1>2, FrontFacts
  <2>3. n \in 1 .. Len(stack) - 1
    BY <2>2
  <2>4. stack[n] = stack[Len(stack)]
    BY <2>1, <2>2, <2>3 DEF Last
  <2>5. n \in DOMAIN stack /\ Len(stack) \in DOMAIN stack /\ n # Len(stack)
    BY <1>1, <2>2, <2>3
  <2> QED
    BY <1>6, <2>4, <2>5 DEF IsInjective
<1> QED
  BY <1>2, <1>3, <1>4, <1>5, <1>8, <1>9, <1>10

(* What the two updates of ChangeSize leave as it was.                     *)
LEMMA RewriteSizes ==
  ASSUME SizesInv, IsFiniteSet(Ids), Resize \/ Redate
  PROVE  /\ items' \in ItemTable /\ UNCHANGED <<req, idx, calls, stack, before>>
         /\ \A y \in Ids : /\ GetType(items', y) = GetType(items, y)
                           /\ ItemExists(items', y) <=> ItemExists(items, y)
                           /\ Ancestors(items', y) = Ancestors(items, y)
                           /\ SizeBelow(items', y) = SizeBelow(items, y)
         /\ \A y \in Ids \ {Last(stack)} : items'[y] = items[y]
         /\ Resize => items'[Last(stack)].size = items[Last(stack)].size + Head(calls).delta
         /\ Redate => items'[Last(stack)].size = items[Last(stack)].size
         /\ FoldersHoldItems' /\ RestDisciplined' /\ CallsToFolders' /\ StackAbove'
<1>1. /\ TypeInv /\ StackAbove /\ CallsToFolders /\ FoldersHoldItems /\ RestDisciplined
      /\ items \in ItemTable /\ calls \in Seq(Call) /\ stack \in Seq(Ids)
  BY SizesInvFacts
<1>2. /\ pc \in {"resize", "redate"} /\ pc' \in {"redate", "record"}
      /\ pc = "resize" <=> Resize
      /\ UNCHANGED <<req, idx, calls, stack, before>>
  BY DEF Resize, Redate, volatile
<1>3. /\ 1 \in DOMAIN calls /\ calls[1] = Head(calls)
      /\ Last(stack) \in Ids /\ ItemExists(items, Last(stack))
      /\ items[Last(stack)].type = "FOLDER"
  BY <1>2, AtWork
<1>4. Shape(items') = Shape(items) /\ items' \in ItemTable
  BY <1>1, ChangeKeepsShape
<1>5. \A y \in Ids : Ancestors(items', y) = Ancestors(items, y)
  BY <1>1, <1>4, SameAncestors
<1>6. items[Last(stack)] \in Row
  BY <1>1, <1>3 DEF ItemTable, ItemExists
<1>7. /\ \A y \in Ids \ {Last(stack)} : items'[y] = items[y]
      /\ Resize => items'[Last(stack)].size = items[Last(stack)].size + Head(calls).delta
      /\ Redate => items'[Last(stack)].size = items[Last(stack)].size
  <2>1. CASE Resize
    <3>1. items' = [items EXCEPT ![Last(stack)].size = @ + Head(calls).delta]
      BY <1>3, <2>1 DEF Resize, AddSize
    <3>2. ~Redate
      BY <2>1 DEF Resize, Redate
    <3> QED
      BY <1>1, <1>3, <1>6, <2>1, <3>1, <3>2 DEF ItemTable, Row
  <2>2. CASE Redate
    <3>1. items' = [items EXCEPT ![Last(stack)].date = req.date]
      BY <1>3, <2>2 DEF Redate, SetDate
    <3>2. ~Resize
      BY <2>2 DEF Resize, Redate
    <3> QED
      BY <1>1, <1>3, <1>6, <2>2, <3>1, <3>2 DEF ItemTable, Row
  <2> QED
    BY <2>1, <2>2
<1>8. \A y \in Ids : /\ ItemExists(items', y) <=> ItemExists(items, y)
                     /\ ItemExists(items, y) => /\ items'[y].type = items[y].type
                                                /\ items'[y].parent = items[y].parent
  BY <1>1, <1>4, SamePlace
<1>9. \A y \in Ids : GetType(items', y) = GetType(items, y)
  BY <1>8 DEF GetType
<1>10. \A y \in Ids : FileSize(items', y) = FileSize(items, y)
  BY <1>3, <1>7, <1>8 DEF FileSize
<1>11. \A y \in Ids : SizeBelow(items', y) = SizeBelow(items, y)
  BY <1>1, <1>4, <1>10, SumsOfTheSame
<1>12. FoldersHoldItems'
  <2> SUFFICES ASSUME NEW id \in Ids, ItemExists(items', id)
               PROVE  /\ items'[id].parent # Null => GetType(items', items'[id].parent) = "FOLDER"
                      /\ items'[id].type = "FILE" => items'[id].size >= 0
    BY DEF FoldersHoldItems
  <2>1. /\ ItemExists(items, id) /\ items'[id].type = items[id].type
        /\ items'[id].parent = items[id].parent
    BY <1>8
  <2>2. items[id].parent # Null => items[id].parent \in Ids
    BY <1>1, <2>1, ParentAbove
  <2>3. items'[id].type = "FILE" => items'[id] = items[id]
    BY <1>3, <1>7, <2>1
  <2> QED
    BY <1>1, <1>9, <2>1, <2>2, <2>3 DEF FoldersHoldItems
<1>13. StackAbove'
  <2>1. Head(calls).id \in Ids
    <3>1. Head(calls) \in Call
      BY <1>1, <1>3
    <3> QED
      BY <3>1 DEF Call
  <2> QED
    BY <1>1, <1>2, <1>5, <2>1 DEF StackAbove
<1>14. CallsToFolders'
  <2>1. \A n \in DOMAIN calls : calls[n].id \in Ids
    <3>1. \A n \in DOMAIN calls : calls[n] \in Call
      BY <1>1
    <3> QED
      BY <3>1 DEF Call
  <2>2. pc \notin DeleteSteps /\ pc' \notin DeleteSteps /\ pc # "store" /\ pc' # "store"
    BY <1>2 DEF DeleteSteps
  <2>3. Handling("imports")' <=> Handling("imports")
    BY <1>2 DEF Handling, Quiet
  <2>4. CurrentItem' = CurrentItem
    BY <1>2 DEF CurrentItem
  <2> QED
    BY <1>1, <1>2, <1>9, <2>1, <2>2, <2>3, <2>4 DEF CallsToFolders
<1>15. RestDisciplined'
  <2> SUFFICES ASSUME Handling("imports")', NEW j \in FirstToStore' .. Len(req'.items),
                      NEW it, it = req.items[j]
               PROVE
          /\ \/ it.parent = Null
             \/ GetType(items', it.parent) = "FOLDER"
             \/ \E k \in FirstToStore' .. j - 1 :
                  req'.items[k].type = "FOLDER" /\ req'.items[k].id = it.parent
          /\ ItemExists(items', it.id) =>
               /\ items'[it.id].type = it.type
               /\ it.type = "FILE" =>
                    items'[it.id].parent \in {Null, it.parent} \/ items'[it.id].size = it.size
               /\ it.type = "FOLDER" =>
                    /\ items'[it.id].size = 0
                    /\ \A k \in 1 .. j - 1 : req'.items[k].type = "FOLDER"
    BY <1>2 DEF RestDisciplined
  <2>1. Handling("imports") /\ FirstToStore' = FirstToStore /\ FirstToStore = idx + 1
    BY <1>2 DEF Handling, Quiet, FirstToStore
  <2>2. /\ req.items \in Seq(Item) /\ idx \in 1 .. Len(req.items)
    BY <1>1, <2>1, NamedFacts DEF Handling
  <2>3. j \in 1 .. Len(req.items) /\ idx \in 1 .. j - 1
    BY <1>2, <2>1, <2>2
  <2>4. it \in Item
    BY <2>2, <2>3
  <2>5. it.id \in Ids /\ it.parent \in Ids \cup {Null} /\ it.type \in Types
    BY <2>4 DEF Item, Parents
  <2>6. /\ \/ it.parent = Null
           \/ GetType(items, it.parent) = "FOLDER"
           \/ \E k \in FirstToStore .. j - 1 :
                req.items[k].type = "FOLDER" /\ req.items[k].id = it.parent
        /\ ItemExists(items, it.id) =>
             /\ items[it.id].type = it.type
             /\ it.type = "FILE" =>
                  items[it.id].parent \in {Null, it.parent} \/ items[it.id].size = it.size
             /\ it.type = "FOLDER" =>
                  /\ items[it.id].size = 0
                  /\ \A k \in 1 .. j - 1 : req.items[k].type = "FOLDER"
    BY <1>1, <1>2, <2>1 DEF RestDisciplined
  <2>7. \/ it.parent = Null
        \/ GetType(items', it.parent) = "FOLDER"
        \/ \E k \in FirstToStore' .. j - 1 :
             req'.items[k].type = "FOLDER" /\ req'.items[k].id = it.parent
    BY <1>2, <1>9, <2>1, <2>5, <2>6
  <2>8. ASSUME ItemExists(items', it.id)
        PROVE  /\ items'[it.id].type = it.type
               /\ it.type = "FILE" =>
                    items'[it.id].parent \in {Null, it.parent} \/ items'[it.id].size = it.size
               /\ it.type = "FOLDER" =>
                    /\ items'[it.id].size = 0
                    /\ \A k \in 1 .. j - 1 : req'.items[k].type = "FOLDER"
    <3>1. ItemExists(items, it.id) /\ items'[it.id].type = it.type
      BY <1>8, <2>5, <2>6, <2>8
    <3>2. CASE it.id # Last(stack)
      <4>1. items'[it.id] = items[it.id]
        BY <1>7, <2>5, <3>2
      <4> QED
        BY <1>2, <2>6, <3>1, <4>1
    <3>3. CASE it.id = Last(stack)
      <4>1. it.type = "FOLDER"
        BY <1>3, <2>6, <3>1, <3>3
      <4>2. items[it.id].size = 0 /\ \A k \in 1 .. j - 1 : req.items[k].type = "FOLDER"
        BY <2>6, <3>1, <4>1
      <4>3. CurrentItem.type = "FOLDER"
        BY <2>3, <4>2 DEF CurrentItem
      <4>4. Head(calls).delta = 0
        BY <1>1, <1>2, <1>3, <2>1, <4>3 DEF CallsToFolders
      <4>5. items'[it.id].size = 0
        BY <1>2, <1>7, <3>3, <4>2, <4>4
      <4> QED
        BY <1>2, <3>1, <4>1, <4>2, <4>5, TablesAssumption DEF Types
    <3> QED
      BY <3>2, <3>3
  <2> QED
    BY <2>7, <2>8
<1> QED
  BY <1>2, <1>4, <1>5, <1>7, <1>8, <1>9, <1>11, <1>12, <1>13, <1>14, <1>15

(* The size of an item goes up by the delta of the call as the item comes  *)
(* off the list of those the call has yet to resize.                       *)
LEMMA ResizeSizes ==
  ASSUME SizesInv, IsFiniteSet(Ids), Resize \/ Redate
  PROVE  SizesInvariant'
<1>1. /\ pc \in {"resize", "redate"} /\ pc' \in {"redate", "record"}
      /\ pc = "resize" <=> Resize
      /\ UNCHANGED <<req, idx, calls, stack, before>>
  BY DEF Resize, Redate, volatile
<1>2. /\ 1 \in DOMAIN calls /\ calls[1] = Head(calls) /\ calls[1].delta \in Int
      /\ Last(stack) \in Ids /\ ItemExists(items, Last(stack))
      /\ Range(stack) = Range(Front(stack)) \cup {Last(stack)}
      /\ Last(stack) \notin Range(Front(stack))
  BY <1>1, AtWork
<1>3. /\ \A y \in Ids : /\ GetType(items', y) = GetType(items, y)
                        /\ Ancestors(items', y) = Ancestors(items, y)
                        /\ SizeBelow(items', y) = SizeBelow(items, y)
      /\ \A y \in Ids \ {Last(stack)} : items'[y] = items[y]
      /\ Resize => items'[Last(stack)].size = items[Last(stack)].size + calls[1].delta
      /\ Redate => items'[Last(stack)].size = items[Last(stack)].size
      /\ FoldersHoldItems' /\ RestDisciplined' /\ CallsToFolders' /\ StackAbove'
  BY <1>2, RewriteSizes
<1>4. \A n \in DOMAIN calls : calls[n].id \in Ids
  <2>1. \A n \in DOMAIN calls : calls[n] \in Call
    BY SizesInvFacts
  <2> QED
    BY <2>1 DEF Call
<1>5. SizesOwed'
  <2> SUFFICES ASSUME NEW id \in Ids, GetType(items', id) = "FOLDER"
               PROVE  items'[id].size + Owed(1, id)' + Owed(2, id)' = SizeBelow(items', id)
    BY DEF SizesOwed
  <2>1. GetType(items, id) = "FOLDER" /\ ItemExists(items, id)
    BY <1>3 DEF GetType
  <2>2. items[id].size + Owed(1, id) + Owed(2, id) = SizeBelow(items, id)
    BY <1>1, <2>1, SizesInvFacts DEF SizesOwed, DeleteSteps
  <2>3. Owed(2, id)' = Owed(2, id)
    BY <1>1, <1>3, <1>4 DEF Owed, Unresized
  <2>4. Unresized(1)' = Range(Front(stack))
    BY <1>1 DEF Unresized
  <2>5. Owed(1, id)' = IF id \in Range(Front(stack)) THEN calls[1].delta ELSE 0
    BY <1>1, <1>2, <2>4 DEF Owed
  <2>6. /\ items[id].size \in Int /\ Owed(1, id) \in Int /\ Owed(2, id) \in Int
    BY <2>1, SizesFacts
  <2>7. CASE Resize
    <3>1. Unresized(1) = Range(stack)
      BY <1>1, <2>7 DEF Unresized
    <3>2. Owed(1, id) = IF id \in Range(stack) THEN calls[1].delta ELSE 0
      BY <1>2, <3>1 DEF Owed
    <3>3. CASE id = Last(stack)
      <4>1. Owed(1, id)' = 0 /\ Owed(1, id) = calls[1].delta
        BY <1>2, <2>5, <3>2, <3>3
      <4>2. items'[id].size = items[id].size + calls[1].delta
        BY <1>3, <2>7, <3>3
      <4> QED
        BY <1>2, <1>3, <2>2, <2>3, <2>6, <4>1, <4>2
    <3>4. CASE id # Last(stack)
      <4>1. Owed(1, id)' = Owed(1, id)
        BY <1>2, <2>5, <3>2, <3>4
      <4>2. items'[id].size = items[id].size
        BY <1>3, <3>4
      <4> QED
        BY <1>3, <2>2, <2>3, <4>1, <4>2
    <3> QED
      BY <3>3, <3>4
  <2>8. CASE Redate
    <3>1. Unresized(1) = Range(Front(stack))
      BY <1>1, <2>8 DEF Unresized, Redate
    <3>2. Owed(1, id)' = Owed(1, id)
      BY <1>2, <2>5, <3>1 DEF Owed
    <3>3. items'[id].size = items[id].size
      BY <1>3, <2>8
    <3> QED
      BY <1>3, <2>2, <2>3, <3>2, <3>3
  <2> QED
    BY <2>7, <2>8
<1> QED
  BY <1>3, <1>5 DEF SizesInvariant

(* When the recursion has returned, its call is done and the next one's    *)
(* turn comes.                                                             *)
LEMMA RecordSizes ==
  ASSUME SizesInv, Record
  PROVE  SizesInvariant'
<1>1. /\ TypeInv /\ StackAbove /\ CallsToFolders /\ FoldersHoldItems
      /\ RestDisciplined /\ SizesOwed
      /\ calls \in Seq(Call) /\ stack \in Seq(Ids)
  BY SizesInvFacts DEF Record
<1>2. /\ pc = "record" /\ UNCHANGED <<items, req, idx, before>>
      /\ stack' = Front(stack)
      /\ IF Len(stack) = 1
         THEN pc' = "next" /\ calls' = Tail(calls)
         ELSE pc' = "resize" /\ UNCHANGED calls
  BY DEF Record
<1>3. /\ stack # <<>> /\ 1 \in DOMAIN calls /\ calls[1] = Head(calls)
      /\ calls[1].delta \in Int
  BY <1>2, AtWork
<1>4. /\ Front(stack) \in Seq(Ids) /\ Len(Front(stack)) = Len(stack) - 1
      /\ Len(stack) \in Nat \ {0}
      /\ Front(stack) = <<>> <=> Len(stack) = 1
      /\ \A n \in 1 .. Len(stack) - 1 : Front(stack)[n] = stack[n]
  BY <1>1, <1>3, FrontFacts
<1>5. /\ \A n \in DOMAIN Tail(calls) : Tail(calls)[n] = calls[n + 1] /\ n + 1 \in DOMAIN calls
  BY <1>1, <1>3, RangeFacts
<1>6. Len(Tail(calls)) = Len(calls) - 1 /\ Tail(calls) \in Seq(Call) /\ Len(calls) \in Nat
  BY <1>1, <1>3
<1>7. FoldersHoldItems'
  BY <1>1, <1>2 DEF FoldersHoldItems
<1>8. RestDisciplined'
  BY <1>1, <1>2 DEF RestDisciplined, Handling, Quiet, FirstToStore
<1>9. CallsToFolders'
  <2>1. pc' \notin DeleteSteps /\ pc' # "store" /\ pc # "store"
    BY <1>2 DEF DeleteSteps
  <2>2. Handling("imports")' <=> Handling("imports")
    BY <1>2 DEF Handling, Quiet
  <2>3. CurrentItem' = CurrentItem
    BY <1>2 DEF CurrentItem
  <2>4. \A n \in DOMAIN calls' : \E m \in DOMAIN calls : calls'[n] = calls[m]
    BY <1>2, <1>5
  <2>5. Len(calls') <= 2
    BY <1>1, <1>2, <1>6 DEF CallsToFolders
  <2>6. \A n \in DOMAIN calls' : GetType(items', calls'[n].id) = "FOLDER"
    BY <1>1, <1>2, <2>4 DEF CallsToFolders
  <2>7. Handling("imports") /\ CurrentItem.type = "FOLDER" =>
          \A n \in DOMAIN calls' : calls'[n].delta = 0
    BY <1>1, <2>1, <2>4 DEF CallsToFolders
  <2> QED
    BY <2>1, <2>2, <2>3, <2>5, <2>6, <2>7 DEF CallsToFolders
<1>10. StackAbove'
  <2>1. CASE Len(stack) = 1
    BY <1>2, <2>1 DEF StackAbove
  <2>2. CASE Len(stack) # 1
    <3>1. Range(Front(stack)) \subseteq Range(stack)
      BY <1>1, <1>3, RangeFacts
    <3>2. IsInjective(Front(stack))
      <4>1. DOMAIN Front(stack) \subseteq DOMAIN stack /\ DOMAIN Front(stack) = 1 .. Len(stack) - 1
        BY <1>1, <1>4
      <4>2. IsInjective(stack)
        BY <1>1, <1>2 DEF StackAbove
      <4> QED
        BY <1>4, <4>1, <4>2 DEF IsInjective
    <3> QED
      BY <1>1, <1>2, <2>2, <3>1, <3>2 DEF StackAbove
  <2> QED
    BY <2>1, <2>2
<1>11. SizesOwed'
  <2> SUFFICES ASSUME NEW id \in Ids, GetType(items', id) = "FOLDER"
               PROVE  items'[id].size + Owed(1, id)' + Owed(2, id)' = SizeBelow(items', id)
    BY DEF SizesOwed
  <2>1. items[id].size + Owed(1, id) + Owed(2, id) = SizeBelow(items, id)
    BY <1>1, <1>2 DEF SizesOwed, DeleteSteps
  <2>2. ItemExists(items, id) /\ items[id].size \in Int /\ Owed(2, id) \in Int
    BY <1>2, SizesFacts DEF GetType
  <2>3. Unresized(1) = Range(Front(stack)) /\ Unresized(2) = Ancestors(items, calls[2].id)
    BY <1>2 DEF Unresized
  <2>4. CASE Len(stack) = 1
    <3>1. Range(Front(stack)) = {}
      BY <1>4, <2>4 DEF Range
    <3>2. Owed(1, id) = 0
      BY <2>3, <3>1 DEF Owed
    <3>3. Unresized(1)' = Ancestors(items, calls'[1].id)
      BY <1>2, <2>4 DEF Unresized
    <3>4. 2 \notin DOMAIN calls' /\ (1 \in DOMAIN calls' <=> 2 \in DOMAIN calls)
      <4>1. calls' = Tail(calls) /\ Len(calls) <= 2 /\ Len(calls) >= 1
        BY <1>1, <1>2, <1>3, <2>4 DEF CallsToFolders
      <4>2. DOMAIN Tail(calls) = 1 .. Len(calls) - 1 /\ DOMAIN calls = 1 .. Len(calls)
        BY <1>1, <1>6
      <4>3. 2 \notin 1 .. Len(calls) - 1 /\ (1 \in 1 .. Len(calls) - 1 <=> 2 \in 1 .. Len(calls))
        BY <1>6, <4>1
      <4> QED
        BY <4>1, <4>2, <4>3
    <3>5. 1 \in DOMAIN calls' => calls'[1] = calls[2]
      <4>1. 1 \in DOMAIN Tail(calls) => Tail(calls)[1] = calls[1 + 1]
        BY <1>5
      <4>2. 1 + 1 = 2
        OBVIOUS
      <4> QED
        BY <1>2, <2>4, <4>1, <4>2
    <3>6. Owed(2, id)' = 0
      BY <3>4 DEF Owed
    <3>7. Owed(1, id)' = Owed(2, id)
      BY <2>3, <3>3, <3>4, <3>5 DEF Owed
    <3> QED
      BY <1>2, <2>1, <2>2, <3>2, <3>6, <3>7
  <2>5. CASE Len(stack) # 1
    <3>1. Unresized(1)' = Range(Front(stack)) /\ Unresized(2)' = Unresized(2)
      BY <1>2, <2>3, <2>5 DEF Unresized
    <3> QED
      BY <1>2, <2>1, <2>3, <2>5, <3>1 DEF Owed
  <2> QED
    BY <2>4, <2>5
<1> QED
  BY <1>7, <1>8, <1>9, <1>10, <1>11 DEF SizesInvariant
-----------------------------------------------------------------------------
(***************************************************************************)
(* A deletion.  t0 is the forest before it and t1 what is left of it.      *)
(***************************************************************************)
LeftOf(t0, t1) ==
  /\ \A y \in Ids : ItemExists(t1, y) =>
       ItemExists(t0, y) /\ t0[y].parent = t1[y].parent
  /\ \A y \in Ids : ItemExists(t1, y) /\ t1[y].parent # Null =>
       ItemExists(t1, t1[y].parent)

(* While an item of the subtree is left, its root is left, above it.       *)
LEMMA RootGoesLast ==
  ASSUME NEW t0 \in ItemTable, NEW t1 \in ItemTable, LeftOf(t0, t1), NEW root \in Ids,
         NEW x \in Descendants(t0, root), ItemExists(t1, x)
  PROVE  ItemExists(t1, root) /\ root \in Ancestors(t1, x)
<1>1. PICK S : S = {z \in Descendants(t0, root) : ItemExists(t1, z) =>
                      ItemExists(t1, root) /\ root \in Ancestors(t1, z)}
  OBVIOUS
<1>2. /\ Descendants(t0, root) \subseteq Ids /\ root \in Descendants(t0, root)
      /\ ClosedBelow(t0, Descendants(t0, root))
  BY DescendantsFacts
<1>3. S \in SUBSET Ids /\ root \in S
  BY <1>1, <1>2, AncestorsFacts
<1>4. ASSUME NEW z \in Ids, ItemExists(t0, z), t0[z].parent \in S
      PROVE  z \in S
  <2>1. z \in Descendants(t0, root)
    BY <1>1, <1>2, <1>4 DEF ClosedBelow
  <2>2. ASSUME ItemExists(t1, z)
        PROVE  ItemExists(t1, root) /\ root \in Ancestors(t1, z)
    <3>1. t1[z].parent \in S /\ t1[z].parent # Null
      BY <1>3, <1>4, <2>2, TablesAssumption DEF LeftOf
    <3>2. ItemExists(t1, t1[z].parent)
      BY <2>2, <3>1 DEF LeftOf
    <3>3. ItemExists(t1, root) /\ root \in Ancestors(t1, t1[z].parent)
      BY <1>1, <3>1, <3>2
    <3> QED
      BY <2>2, <3>1, <3>3, ParentAbove
  <2> QED
    BY <1>1, <2>1, <2>2
<1>5. ClosedBelow(t0, S)
  BY <1>4 DEF ClosedBelow
<1>6. Descendants(t0, root) \subseteq S
  BY <1>3, <1>5, DescendantsLeast
<1> QED
  BY <1>1, <1>6

(* Outside the subtree, above any item of it there is what is above the    *)
(* parent of its root; nothing, when that parent is in the subtree itself. *)
LEMMA AboveTheSubtree ==
  ASSUME NEW t0 \in ItemTable, NEW t1 \in ItemTable, LeftOf(t0, t1), NEW root \in Ids,
         NEW top \in Ids, top \notin Descendants(t0, root)
  PROVE  /\ \A x \in Descendants(t0, root) : ItemExists(t1, x) =>
              (top \in Ancestors(t1, x) <=>
                 t0[root].parent # Null /\ top \in Ancestors(t1, t0[root].parent))
         /\ t0[root].parent \in Descendants(t0, root) =>
              top \notin Ancestors(t1, t0[root].parent)
<1> DEFINE D == Descendants(t0, root)
<1>1. /\ D \subseteq Ids /\ root \in D /\ ClosedBelow(t0, D)
      /\ \A x \in D \ {root} : ItemExists(t0, x) /\ t0[x].parent \in D
  BY DescendantsFacts
<1>2. ClosedBelow(t1, D)
  BY <1>1 DEF ClosedBelow, LeftOf
<1>3. Descendants(t1, root) \subseteq D
  BY <1>1, <1>2, DescendantsLeast
<1>4. ASSUME NEW x \in D, ItemExists(t1, x)
      PROVE  top \in Ancestors(t1, x) <=>
               t0[root].parent # Null /\ top \in Ancestors(t1, t0[root].parent)
  <2>1. x \in Ids
    BY <1>1
  <2>2. ItemExists(t1, root) /\ root \in Ancestors(t1, x)
    BY <1>4, RootGoesLast
  <2>3. t1[root].parent = t0[root].parent
    BY <2>2 DEF LeftOf
  <2>4. top # root
    BY <1>1
  <2>5. top \in Ancestors(t1, root) <=>
          t0[root].parent # Null /\ top \in Ancestors(t1, t0[root].parent)
    BY <2>2, <2>3, <2>4, AncestorsUnfold
  <2>6. Ancestors(t1, root) \subseteq Ancestors(t1, x)
    <3>1. /\ Ancestors(t1, x) \in SUBSET Ids /\ ClosedAbove(t1, Ancestors(t1, x))
      BY <2>1, AncestorsFacts
    <3> QED
      BY <2>2, <3>1, AncestorsLeast
  <2>7. ASSUME top \in Ancestors(t1, x)
        PROVE  top \in Ancestors(t1, root)
    <3>1. top \in Ancestors(t1, root) \/ root \in Ancestors(t1, top)
      BY <2>1, <2>2, <2>7, AncestorsComparable
    <3>2. root \notin Ancestors(t1, top)
      BY <1>3, BelowIsAbove
    <3> QED
      BY <3>1, <3>2
  <2> QED
    BY <2>5, <2>6, <2>7
<1>5. ASSUME t0[root].parent \in D
      PROVE  top \notin Ancestors(t1, t0[root].parent)
  <2>1. ClosedAbove(t1, D)
    BY <1>1, <1>5 DEF ClosedAbove, LeftOf
  <2>2. D \in SUBSET Ids
    BY <1>1
  <2>3. Ancestors(t1, t0[root].parent) \subseteq D
    BY <1>5, <2>1, <2>2, AncestorsLeast
  <2> QED
    BY <2>3
<1> QED
  BY <1>4, <1>5

(* A number that fits INT is not changed by the conversion to int.         *)
LEMMA WrapExact ==
  ASSUME NEW n \in Int32
  PROVE  Wrap(n) = n
<1>1. MaxInt \in Nat
  BY TablesAssumption
<1>2. MinInt \in Int /\ n \in Int /\ n - MinInt \in 0 .. 2 * MaxInt + 1
      /\ 2 * (MaxInt + 1) = 2 * MaxInt + 2
  BY <1>1 DEF MinInt, Int32
<1>3. (n - MinInt) % (2 * MaxInt + 2) = n - MinInt
  BY <1>1, <1>2
<1> QED
  BY <1>2, <1>3 DEF Wrap

(* Whatever is converted to int fits INT.                                  *)
LEMMA WrapInRange ==
  ASSUME NEW n \in Int
  PROVE  Wrap(n) \in Int32
<1>1. MaxInt \in Nat /\ MinInt \in Int /\ 2 * (MaxInt + 1) \in Nat \ {0}
  BY TablesAssumption DEF MinInt
<1>2. (n - MinInt) % (2 * (MaxInt + 1)) \in 0 .. 2 * (MaxInt + 1) - 1
  <2>1. n - MinInt \in Int
    BY <1>1
  <2> QED
    BY <1>1, <2>1
<1> QED
  BY <1>1, <1>2 DEF Wrap, Int32, MinInt

(* The item at the end of DeleteIter's recursion is in the subtree, and    *)
(* is its root only when it is the last one.                               *)
LEMMA DeletionFacts ==
  ASSUME SizesInv, pc \in DeleteSteps
  PROVE  /\ req.id \in Ids /\ req.kind = "delete" /\ pc \notin Quiet
         /\ LeftOf(before, items) /\ before \in ItemTable /\ items \in ItemTable
         /\ Last(frames).id \in Ids /\ Last(frames).id \in Descendants(before, req.id)
         /\ Len(frames) = 1 => Last(frames).id = req.id
<1>1. /\ TypeInv /\ ProgressInv /\ ParentExists
      /\ items \in ItemTable /\ before \in ItemTable
  BY SizesInvFacts
<1>2. /\ frames \in Seq(Frame) /\ Len(frames) \in Nat \ {0}
      /\ Last(frames) \in Frame /\ Last(frames) = frames[Len(frames)]
      /\ req \in Requests /\ req.kind = "delete"
  BY <1>1, DeleteFacts
<1>3. pc \notin Quiet
  BY DEF DeleteSteps, Quiet
<1>4. req.id \in Ids
  BY <1>1, <1>2, <1>3, NamedFacts
<1>5. LeftOf(before, items)
  <2>1. \A y \in Ids : ItemExists(items, y) =>
          ItemExists(before, y) /\ before[y].parent = items[y].parent
    BY <1>1, <1>2, <1>3, UnnamedStay
  <2> QED
    BY <1>1, <2>1 DEF LeftOf, ParentExists
<1>6. /\ frames[1].id = req.id
      /\ \A n \in DOMAIN frames : frames[n].id \in Descendants(before, req.id)
  BY <1>1, <1>2, <1>3 DEF ProgressInv, ProgressInvariant, DeletionSoFar, Handling
<1>7. Len(frames) \in DOMAIN frames
  BY <1>2
<1>8. Last(frames).id \in Ids
  BY <1>2 DEF Frame
<1> QED
  BY <1>1, <1>2, <1>3, <1>4, <1>5, <1>6, <1>7, <1>8

(* The call for the parent of a subtree owes, to what is above it, exactly *)
(* the files deleted so far, and its delta never leaves the range of INT:  *)
(* the parent had room for them.                                           *)
LEMMA DeleteRowSizes ==
  ASSUME SizesInv, IsFiniteSet(Ids), ProgressInv', DeleteRow
  PROVE  SizesInvariant'
<1>1. /\ TypeInv /\ ProgressInv /\ ParentExists /\ CallsToFolders /\ FoldersHoldItems
      /\ SizesOwed /\ calls \in Seq(Call) /\ items \in ItemTable
  BY SizesInvFacts DEF DeleteRow
<1>2. PICK x : x = Last(frames).id
  OBVIOUS
<1>3. PICK R : R = req.id
  OBVIOUS
<1>4. /\ pc = "delete" /\ pc' = "unlog" /\ UNCHANGED <<req, before, idx>>
      /\ Last(frames).todo = {} /\ ItemExists(items, x)
      /\ items' = [items EXCEPT ![x] = NoRow]
      /\ calls' = IF calls # <<>> /\ items[x].type = "FILE"
                  THEN [calls EXCEPT ![1].delta = Wrap(@ - items[x].size)]
                  ELSE calls
  BY <1>2 DEF DeleteRow, DeleteItem
<1>5. /\ R \in Ids /\ req.kind = "delete" /\ pc \notin Quiet
      /\ LeftOf(before, items) /\ before \in ItemTable
      /\ x \in Ids /\ x \in Descendants(before, R)
  BY <1>2, <1>3, <1>4, DeletionFacts DEF DeleteSteps
<1>6. \A y \in Ids : ItemExists(items, y) => items[y].parent # x
  <2>1. /\ frames \in Seq(Frame) /\ Len(frames) \in Nat \ {0}
        /\ Last(frames) = frames[Len(frames)]
    BY <1>1, <1>4, DeleteFacts DEF DeleteSteps
  <2>2. ChildrenListed
    BY <1>1 DEF ProgressInv, ForestInv
  <2>3. Len(frames) \in DOMAIN frames
    BY <2>1
  <2>4. \A c \in GetChildren(items, x) : c \in Last(frames).todo
    <3>1. ~(Len(frames) < Len(frames))
      BY <2>1
    <3>2. \A n \in DOMAIN frames : \A c \in GetChildren(items, frames[n].id) :
            c \in frames[n].todo \/ n < Len(frames)
      BY <1>4, <2>2 DEF ChildrenListed, DeleteSteps
    <3> QED
      BY <1>2, <2>1, <2>3, <3>1, <3>2
  <2> QED
    BY <1>4, <2>4 DEF GetChildren
<1>7. /\ items' \in ItemTable /\ ~ItemExists(items', x)
      /\ \A y \in Ids \ {x} : items'[y] = items[y]
  <2>1. items' \in ItemTable
    BY DEF ProgressInv, ForestInv, TypeInv, TypeOK
  <2> QED
    BY <1>1, <1>4, <1>5, <2>1 DEF ItemTable, ItemExists
<1>8. OneRowApart(items, items', x)
  BY <1>7 DEF OneRowApart
<1>9. \A y \in Ids \ {x} : Ancestors(items', y) = Ancestors(items, y)
  BY <1>1, <1>5, <1>6, <1>7, <1>8, NothingBelow, AncestorsElsewhere
<1>10. PICK p : p = before[R].parent
  OBVIOUS
<1>11. /\ ItemExists(items, R) /\ items[R].parent = p
       /\ p # x /\ ItemExists(before, R)
  <2>1. ItemExists(items, R)
    BY <1>1, <1>4, <1>5, RootGoesLast
  <2>2. ItemExists(before, R) /\ items[R].parent = p
    BY <1>5, <1>10, <2>1 DEF LeftOf
  <2> QED
    BY <1>5, <1>6, <2>1, <2>2
<1>12. IF p = Null THEN calls = <<>>
       ELSE /\ Len(calls) = 1 /\ calls[1].id = p /\ calls[1].delta \in Int32
            /\ p \in Ids /\ GetType(items, p) = "FOLDER" /\ calls # <<>>
            /\ DOMAIN calls = {1} /\ calls[1] \in Call
  <2>1. IF p = Null THEN calls = <<>>
        ELSE Len(calls) = 1 /\ calls[1].id = p /\ calls[1].delta \in Int32
    BY <1>1, <1>3, <1>4, <1>10 DEF CallsToFolders, DeleteSteps
  <2>2. ASSUME p # Null
        PROVE  DOMAIN calls = {1} /\ calls[1] \in Call /\ calls # <<>>
    <3>1. DOMAIN calls = 1 .. 1
      BY <1>1, <2>1, <2>2
    <3>2. 1 .. 1 = {1}
      OBVIOUS
    <3> QED
      BY <1>1, <3>1, <3>2
  <2>3. ASSUME p # Null
        PROVE  p \in Ids
    BY <1>1, <1>5, <1>11, <2>3, ParentAbove
  <2>4. ASSUME p # Null
        PROVE  GetType(items, p) = "FOLDER"
    <3>1. 1 \in DOMAIN calls
      BY <2>2, <2>4
    <3> QED
      BY <1>1, <2>1, <2>4, <3>1 DEF CallsToFolders
  <2> QED
    BY <2>1, <2>2, <2>3, <2>4
<1>13. /\ Len(calls') = Len(calls) /\ DOMAIN calls' = DOMAIN calls
       /\ p # Null => /\ calls'[1].id = p
                      /\ calls'[1].delta = IF items[x].type = "FILE"
                                           THEN Wrap(calls[1].delta - items[x].size)
                                           ELSE calls[1].delta
  <2>1. CASE p = Null
    BY <1>4, <1>12, <2>1
  <2>2. CASE p # Null
    <3>1. calls[1] \in Call /\ DOMAIN calls = {1}
      BY <1>12, <2>2
    <3>2. CASE items[x].type = "FILE"
      <4>1. calls' = [calls EXCEPT ![1].delta = Wrap(@ - items[x].size)]
        BY <1>4, <1>12, <2>2, <3>2
      <4>2. calls' = [calls EXCEPT ![1] = [calls[1] EXCEPT !.delta = Wrap(@ - items[x].size)]]
        BY <4>1
      <4>3. calls'[1] = [calls[1] EXCEPT !.delta = Wrap(@ - items[x].size)]
        BY <3>1, <4>2
      <4>4. DOMAIN calls' = DOMAIN calls /\ Len(calls') = Len(calls)
        BY <1>1, <4>2
      <4> QED
        BY <1>12, <2>2, <3>1, <3>2, <4>3, <4>4 DEF Call
    <3>3. CASE items[x].type # "FILE"
      BY <1>4, <1>12, <2>2, <3>3
    <3> QED
      BY <3>2, <3>3
  <2> QED
    BY <2>1, <2>2
<1>14. /\ items[x].size \in Int /\ FileSize(items, x) >= 0 /\ FileSize(items, x) \in Int
       /\ items[x].type = "FILE" => FileSize(items, x) = items[x].size
       /\ items[x].type # "FILE" => FileSize(items, x) = 0
  BY <1>4, <1>5, SizesFacts DEF FileSize
<1>15. FoldersHoldItems'
  <2> SUFFICES ASSUME NEW id \in Ids, ItemExists(items', id)
               PROVE  /\ items'[id].parent # Null => GetType(items', items'[id].parent) = "FOLDER"
                      /\ items'[id].type = "FILE" => items'[id].size >= 0
    BY DEF FoldersHoldItems
  <2>1. ItemExists(items, id) /\ items'[id] = items[id]
    BY <1>7 DEF ItemExists
  <2>2. items[id].parent # Null =>
          /\ items[id].parent \in Ids /\ items[id].parent # x
          /\ GetType(items, items[id].parent) = "FOLDER"
    BY <1>1, <1>6, <2>1, ParentAbove DEF FoldersHoldItems
  <2>3. items[id].parent # Null => items'[items[id].parent] = items[items[id].parent]
    BY <1>7, <2>2
  <2> QED
    BY <1>1, <2>1, <2>2, <2>3 DEF FoldersHoldItems, GetType, ItemExists
<1>16. RestDisciplined' /\ StackAbove'
  BY <1>4, <1>5 DEF RestDisciplined, Handling, StackAbove
<1>17. CallsToFolders'
  <2>1. ~Handling("imports")'
    BY <1>4, <1>5 DEF Handling
  <2>2. ASSUME p # Null
        PROVE  calls'[1].delta \in Int32 /\ GetType(items', calls'[1].id) = "FOLDER"
    <3>1. calls[1].delta \in Int /\ calls[1].delta \in Int32
      BY <1>12, <2>2 DEF Call
    <3>2. calls[1].delta - items[x].size \in Int
      BY <1>14, <3>1
    <3>3. calls'[1].delta \in Int32
      BY <1>13, <2>2, <3>1, <3>2, WrapInRange
    <3>4. items'[p] = items[p]
      BY <1>7, <1>11, <1>12, <2>2
    <3> QED
      BY <1>12, <1>13, <2>2, <3>3, <3>4 DEF GetType, ItemExists
  <2>3. Len(calls') <= 2 /\ (p = Null => calls' = <<>>) /\ (p # Null => DOMAIN calls' = {1})
    BY <1>4, <1>12, <1>13
  <2>4. \A n \in DOMAIN calls' : GetType(items', calls'[n].id) = "FOLDER"
    BY <2>2, <2>3
  <2> QED
    BY <1>3, <1>4, <1>10, <1>12, <1>13, <2>1, <2>2, <2>3, <2>4 DEF CallsToFolders
<1>18. \A y \in Ids : FileSize(items', y) >= 0
  BY <1>15 DEF FoldersHoldItems, FileSize
<1>19. ASSUME NEW G \in Ids \ {x}
       PROVE  /\ SizeBelow(items', G) = SizeBelow(items, G)
                   - (IF G \in Ancestors(items, x) THEN FileSize(items, x) ELSE 0)
              /\ SizeBelow(items, G) \in Int
  <2>1. /\ SizeBelow(items', G)
             = SizeBelow(items, G) - Share(items, x, G) + Share(items', x, G)
    BY <1>1, <1>5, <1>6, <1>7, <1>8, SumAfterLeaf
  <2>2. Share(items', x, G) = 0
    BY <1>7 DEF Share
  <2>3. Share(items, x, G) = IF G \in Ancestors(items, x) THEN FileSize(items, x) ELSE 0
    BY <1>1, <1>4, <1>5, AncestorsUnfold DEF Share
  <2>4. /\ SizeBelow(items, G) = SumElsewhere(items, x, G) + Share(items, x, G)
        /\ SumElsewhere(items, x, G) \in Int /\ Share(items, x, G) \in Int
    BY <1>1, <1>5, SumSplit
  <2> QED
    BY <2>1, <2>2, <2>3, <2>4
<1>20. SizesOwed'
  <2> SUFFICES ASSUME NEW G \in Ids, GetType(items', G) = "FOLDER",
                      G \notin Descendants(before, R)
               PROVE  items'[G].size + Owed(1, G)' + Owed(2, G)' = SizeBelow(items', G)
    BY <1>3, <1>4 DEF SizesOwed, DeleteSteps
  <2>1. G # x /\ items'[G] = items[G] /\ GetType(items, G) = "FOLDER" /\ ItemExists(items, G)
    BY <1>5, <1>7 DEF GetType, ItemExists
  <2>2. items[G].size + Owed(1, G) + Owed(2, G) = SizeBelow(items, G)
    BY <1>1, <1>3, <2>1 DEF SizesOwed
  <2>3. items[G].size \in Int
    BY <2>1, SizesFacts
  <2>4. Owed(2, G) = 0 /\ Owed(2, G)' = 0
    <3>1. 2 \notin DOMAIN calls
      BY <1>12
    <3> QED
      BY <1>13, <3>1 DEF Owed
  <2>5. G \in Ancestors(items, x) <=> p # Null /\ G \in Ancestors(items, p)
    BY <1>1, <1>4, <1>5, <1>10, AboveTheSubtree
  <2>6. CASE p # Null /\ G \in Ancestors(items, p)
    <3>1. /\ Unresized(1) = Ancestors(items, p)
          /\ Unresized(1)' = Ancestors(items', p)
      BY <1>4, <1>12, <1>13, <2>6 DEF Unresized
    <3>2. Ancestors(items', p) = Ancestors(items, p)
      BY <1>9, <1>11, <1>12, <2>6
    <3>3. Owed(1, G) = calls[1].delta /\ Owed(1, G)' = calls'[1].delta
      BY <1>12, <1>13, <2>6, <3>1, <3>2 DEF Owed
    <3>4. p \notin Descendants(before, R)
      BY <1>1, <1>5, <1>10, <2>6, AboveTheSubtree
    <3>5. /\ p \in Ids /\ p # x /\ GetType(items, p) = "FOLDER" /\ ItemExists(items, p)
          /\ calls[1].delta \in Int32 /\ 1 \in DOMAIN calls
      BY <1>11, <1>12, <2>6 DEF GetType
    <3>6. p \in Ancestors(items, p)
      BY <1>1, <3>5, AncestorsFacts
    <3>7. Owed(1, p) = calls[1].delta
      BY <3>1, <3>5, <3>6 DEF Owed
    <3>8. Owed(2, p) = 0
      <4>1. 2 \notin DOMAIN calls
        BY <1>12
      <4> QED
        BY <4>1 DEF Owed
    <3>9. items[p].size + Owed(1, p) + Owed(2, p) = SizeBelow(items, p)
      BY <1>1, <1>3, <3>4, <3>5 DEF SizesOwed
    <3>10. p \in Ancestors(items, x)
      <4>1. \A y \in Descendants(before, R) : ItemExists(items, y) =>
              (p \in Ancestors(items, y) <=>
                 before[R].parent # Null /\ p \in Ancestors(items, before[R].parent))
        BY <1>1, <1>5, <3>4, <3>5, AboveTheSubtree
      <4> QED
        BY <1>4, <1>5, <1>10, <2>6, <3>6, <4>1
    <3>11. SizeBelow(items', p) = SizeBelow(items, p) - FileSize(items, x)
      BY <1>19, <3>5, <3>10
    <3>12. SizeBelow(items', p) \in Nat
      BY <1>7, <1>18, <3>5, SumOfFiles
    <3>13. items[p].size \in Int32 /\ items[p].size \in Int
      BY <3>5, SizesFacts
    <3>14. calls[1].delta - FileSize(items, x) \in Int32
      <4>1. calls[1].delta \in Int
        BY <3>5, TablesAssumption DEF Int32, MinInt
      <4>2. items[p].size + calls[1].delta = SizeBelow(items, p)
        BY <3>7, <3>8, <3>9, <3>13, <4>1
      <4>3. items[p].size + (calls[1].delta - FileSize(items, x)) >= 0
        BY <1>14, <3>11, <3>12, <3>13, <4>1, <4>2
      <4> QED
        BY <1>14, <3>5, <3>13, <4>1, <4>3, TablesAssumption DEF Int32, MinInt
    <3>15. calls'[1].delta = calls[1].delta - FileSize(items, x)
      <4>1. CASE items[x].type = "FILE"
        BY <1>13, <1>14, <2>6, <3>14, <4>1, WrapExact
      <4>2. CASE items[x].type # "FILE"
        <5>1. calls[1].delta \in Int
          BY <3>5, TablesAssumption DEF Int32, MinInt
        <5> QED
          BY <1>13, <1>14, <2>6, <4>2, <5>1
      <4> QED
        BY <4>1, <4>2
    <3>16. SizeBelow(items', G) = SizeBelow(items, G) - FileSize(items, x)
      BY <1>19, <2>1, <2>5, <2>6
    <3>17. calls[1].delta \in Int
      BY <3>5, TablesAssumption DEF Int32, MinInt
    <3> QED
      BY <1>14, <2>1, <2>2, <2>3, <2>4, <3>3, <3>15, <3>16, <3>17
  <2>7. CASE ~(p # Null /\ G \in Ancestors(items, p))
    <3>1. Owed(1, G) = 0 /\ Owed(1, G)' = 0
      <4>1. CASE p = Null
        BY <1>12, <1>13, <4>1 DEF Owed
      <4>2. CASE p # Null
        <5>1. /\ Unresized(1) = Ancestors(items, p)
              /\ Unresized(1)' = Ancestors(items', p)
          BY <1>4, <1>12, <1>13, <4>2 DEF Unresized
        <5>2. Ancestors(items', p) = Ancestors(items, p)
          BY <1>9, <1>11, <1>12, <4>2
        <5> QED
          BY <2>7, <4>2, <5>1, <5>2 DEF Owed
      <4> QED
        BY <4>1, <4>2
    <3>2. SizeBelow(items', G) = SizeBelow(items, G) /\ SizeBelow(items, G) \in Int
      BY <1>19, <2>1, <2>5, <2>7
    <3> QED
      BY <2>1, <2>2, <2>3, <2>4, <3>1, <3>2
  <2> QED
    BY <2>6, <2>7
<1> QED
  BY <1>15, <1>16, <1>17, <1>20 DEF SizesInvariant

(* The rest of a deletion changes no item; it ends without the subtree.    *)
LEMMA DeleteSizes ==
  ASSUME SizesInv, (\E c \in Ids : Descend(c)) \/ EraseHistory
  PROVE  SizesInvariant'
<1>1. /\ TypeInv /\ CallsToFolders /\ FoldersHoldItems /\ SizesOwed
  BY SizesInvFacts DEF Descend, EraseHistory
<1>2. /\ pc \in DeleteSteps /\ pc' \in DeleteSteps \cup {"next"}
      /\ UNCHANGED <<items, calls, req, before, idx>>
      /\ pc' = "next" => pc = "unlog" /\ Len(frames) = 1
  BY DEF Descend, EraseHistory, DeleteSteps, tables
<1>3. /\ req.id \in Ids /\ req.kind = "delete" /\ pc \notin Quiet
      /\ LeftOf(before, items) /\ before \in ItemTable /\ items \in ItemTable
      /\ Last(frames).id \in Ids
      /\ Len(frames) = 1 => Last(frames).id = req.id
  BY <1>2, DeletionFacts
<1>4. FoldersHoldItems'
  BY <1>1, <1>2 DEF FoldersHoldItems
<1>5. RestDisciplined' /\ StackAbove'
  BY <1>2, <1>3 DEF RestDisciplined, StackAbove, Handling, DeleteSteps
<1>6. CallsToFolders'
  BY <1>1, <1>2, <1>3 DEF CallsToFolders, Handling, DeleteSteps
<1>7. SizesOwed'
  <2> SUFFICES ASSUME NEW id \in Ids, GetType(items, id) = "FOLDER",
                      pc' \in DeleteSteps => id \notin Descendants(before, req.id)
               PROVE  items[id].size + Owed(1, id)' + Owed(2, id)' = SizeBelow(items, id)
    BY <1>2 DEF SizesOwed
  <2>1. Owed(1, id)' = Owed(1, id) /\ Owed(2, id)' = Owed(2, id)
    BY <1>2 DEF Owed, Unresized, DeleteSteps
  <2>2. ASSUME pc' = "next"
        PROVE  id \notin Descendants(before, req.id)
    <3>1. ~ItemExists(items, req.id)
      BY <1>1, <1>2, <1>3, <2>2 DEF TypeInv, HalfDone
    <3>2. ItemExists(items, id)
      BY DEF GetType
    <3> QED
      BY <1>3, <3>1, <3>2, RootGoesLast
  <2>3. id \notin Descendants(before, req.id)
    BY <1>2, <2>2
  <2> QED
    BY <1>1, <2>1, <2>3 DEF SizesOwed
<1> QED
  BY <1>4, <1>5, <1>6, <1>7 DEF SizesInvariant
-----------------------------------------------------------------------------
(***************************************************************************)
(* An import: what storing an item changes, and what it puts on the list   *)
(* of calls.                                                               *)
(***************************************************************************)
(* What a call for p, should there be one, owes to an item.                *)
Due(tbl, p, delta, id) ==
  IF p # Null /\ id \in Ancestors(tbl, p) THEN delta ELSE 0

(* What the calls of ChangeSize made for a stored item owe: the old size   *)
(* to the old parent's path and the new size to the new one's, or the      *)
(* difference if they are the same.                                        *)
LEMMA CallsOwe ==
  ASSUME NEW it \in Item, NEW p \in Parents, NEW d \in Int,
         pc' \notin {"resize", "redate", "record"}, calls' = ChangeSizeCalls(p, it, d)
  PROVE  /\ Len(calls') <= 2
         /\ \A n \in DOMAIN calls' :
              /\ calls'[n].id # Null
              /\ calls'[n].id = p \/ calls'[n].id = it.parent
              /\ calls'[n].delta \in {-ItemSize(it), ItemSize(it), d}
         /\ \A id \in Ids : Owed(1, id)' + Owed(2, id)' =
              IF p # it.parent
              THEN Due(items', p, -ItemSize(it), id) + Due(items', it.parent, ItemSize(it), id)
              ELSE Due(items', p, d, id)
<1>1. PICK one, two, size :
        /\ size = ItemSize(it)
        /\ one = [id |-> p, delta |-> -size]
        /\ two = [id |-> it.parent, delta |-> IF p # it.parent THEN size ELSE d]
  OBVIOUS
<1>2. /\ one.id = p /\ two.id = it.parent
      /\ one.delta = -size /\ two.delta = IF p # it.parent THEN size ELSE d
  BY <1>1
<1>3. size \in Int
  BY <1>1 DEF ItemSize, Item
<1>4. calls' = (IF p # it.parent /\ p # Null THEN <<one>> ELSE <<>>)
                 \o (IF it.parent # Null THEN <<two>> ELSE <<>>)
  BY <1>1 DEF ChangeSizeCalls
<1>5. /\ \A n : Unresized(n)' = Ancestors(items', calls'[n].id)
      /\ \A n, id : Owed(n, id)' = IF n \in DOMAIN calls' /\ id \in Unresized(n)'
                                   THEN calls'[n].delta ELSE 0
  BY DEF Unresized, Owed
<1>6. CASE p # it.parent /\ p # Null /\ it.parent # Null
  <2>1. calls' = <<one>> \o <<two>>
    BY <1>4, <1>6
  <2>2. DOMAIN calls' = {1, 2} /\ calls'[1] = one /\ calls'[2] = two
    BY <2>1, OneOrTwo
  <2>3. Len(calls') = 2
    BY <2>1, OneOrTwo
  <2>4. \A id \in Ids : /\ Owed(1, id)' = Due(items', p, -size, id)
                        /\ Owed(2, id)' = Due(items', it.parent, size, id)
    BY <1>2, <1>5, <1>6, <2>2 DEF Due
  <2> QED
    BY <1>1, <1>2, <1>6, <2>2, <2>3, <2>4
<1>7. CASE p # it.parent /\ p # Null /\ it.parent = Null
  <2>1. calls' = <<one>>
    BY <1>4, <1>7, OneOrTwo
  <2>2. DOMAIN calls' = {1} /\ calls'[1] = one /\ Len(calls') = 1
    BY <2>1
  <2>3. \A id \in Ids : /\ Owed(1, id)' = Due(items', p, -size, id)
                        /\ Owed(2, id)' = 0 /\ Due(items', it.parent, size, id) = 0
                        /\ Due(items', p, -size, id) \in Int
    BY <1>2, <1>3, <1>5, <1>7, <2>2 DEF Due
  <2> QED
    BY <1>1, <1>2, <1>7, <2>2, <2>3
<1>8. CASE p # it.parent /\ p = Null
  <2>1. calls' = <<two>>
    BY <1>4, <1>8, OneOrTwo
  <2>2. DOMAIN calls' = {1} /\ calls'[1] = two /\ Len(calls') = 1
    BY <2>1
  <2>3. \A id \in Ids : /\ Owed(1, id)' = Due(items', it.parent, size, id)
                        /\ Owed(2, id)' = 0 /\ Due(items', p, -size, id) = 0
                        /\ Due(items', it.parent, size, id) \in Int
    BY <1>2, <1>3, <1>5, <1>8, <2>2 DEF Due
  <2> QED
    BY <1>1, <1>2, <1>8, <2>2, <2>3
<1>9. CASE p = it.parent /\ p # Null
  <2>1. calls' = <<two>>
    BY <1>4, <1>9, OneOrTwo
  <2>2. DOMAIN calls' = {1} /\ calls'[1] = two /\ Len(calls') = 1
    BY <2>1
  <2>3. \A id \in Ids : /\ Owed(1, id)' = Due(items', p, d, id)
                        /\ Owed(2, id)' = 0 /\ Due(items', p, d, id) \in Int
    BY <1>2, <1>3, <1>5, <1>9, <2>2 DEF Due
  <2>4. \A id \in Ids : Owed(1, id)' + Owed(2, id)' = Due(items', p, d, id)
    BY <2>3
  <2>5. \A n \in DOMAIN calls' : /\ calls'[n].id # Null /\ calls'[n].id = p
                                 /\ calls'[n].delta = d
    BY <1>2, <1>9, <2>2
  <2>6. \A n \in DOMAIN calls' : calls'[n].delta \in {-ItemSize(it), ItemSize(it), d}
    BY <2>5, Zenon
  <2>7. Len(calls') <= 2
    BY <2>2
  <2>8. \A id \in Ids : Owed(1, id)' + Owed(2, id)' =
          IF p # it.parent
          THEN Due(items', p, -ItemSize(it), id) + Due(items', it.parent, ItemSize(it), id)
          ELSE Due(items', p, d, id)
    BY <1>9, <2>4, Zenon
  <2> QED
    BY <1>9, <2>5, <2>6, <2>7, <2>8, Zenon
<1>10. CASE p = it.parent /\ p = Null
  <2>1. calls' = <<>>
    BY <1>4, <1>10, OneOrTwo
  <2>2. DOMAIN calls' = {} /\ Len(calls') = 0
    BY <2>1
  <2>3. \A id \in Ids : /\ Owed(1, id)' = 0 /\ Owed(2, id)' = 0
                        /\ Due(items', p, d, id) = 0
    BY <1>5, <1>10, <2>2 DEF Due
  <2> QED
    BY <1>10, <2>2, <2>3
<1> QED
  BY <1>6, <1>7, <1>8, <1>9, <1>10

(* Without files below it an item sums to nothing.                         *)
LEMMA SumOfZeros ==
  ASSUME IsFiniteSet(Ids), NEW tbl \in ItemTable, NEW top \in Ids,
         \A y \in Descendants(tbl, top) : FileSize(tbl, y) = 0
  PROVE  SizeBelow(tbl, top) = 0
<1>1. PICK w \in [Ids -> Int] : w = Weights(tbl)
  BY WeightsFacts
<1>2. PICK D \in SUBSET Ids : D = Descendants(tbl, top)
  BY DescendantsFacts
<1>3. \A x \in D : w[x] = 0
  BY <1>1, <1>2, WeightsFacts
<1>4. {x \in D : w[x] # 0} = {}
  BY <1>3
<1>5. SumFunctionOnSet(w, D) = SumFunctionOnSet(w, {})
  BY <1>4, SumOfWeighty
<1> QED
  BY <1>1, <1>2, <1>5, SumFacts, WeightsFacts

(* A delta of 0, taken back, is 0.                                         *)
LEMMA MinusZero == \A n : n = 0 => -n = 0
<1>1. \A n \in Int : n <= 0 /\ n >= 0 => -n = 0
  OBVIOUS
<1>2. 0 \in Int /\ 0 <= 0 /\ 0 >= 0
  OBVIOUS
<1> QED
  BY <1>1, <1>2, Zenon

(* What RestDisciplined says of the item that is stored now.               *)
LEMMA StoreDiscipline ==
  ASSUME SizesInv, InsertNewItem \/ UpdateOldItem, NEW x, x = CurrentItem.id
  PROVE  \E p \in Parents, d \in Int :
           /\ p = IF ItemExists(items, x) THEN items[x].parent ELSE Null
           /\ d = IF ItemExists(items, x)
                  THEN Wrap(ItemSize(CurrentItem) - items[x].size) ELSE ItemSize(CurrentItem)
           /\ calls' = ChangeSizeCalls(p, CurrentItem, d)
           /\ p # Null => p \in Ids /\ GetType(items, p) = "FOLDER"
           /\ CurrentItem.parent # Null =>
                CurrentItem.parent \in Ids /\ GetType(items, CurrentItem.parent) = "FOLDER"
           /\ ItemExists(items, x) =>
                /\ items[x].type = CurrentItem.type
                /\ CurrentItem.type = "FILE" =>
                     p \in {Null, CurrentItem.parent} \/ items[x].size = CurrentItem.size
                /\ CurrentItem.type = "FOLDER" => items[x].size = 0
           /\ CurrentItem.type = "FOLDER" => ItemSize(CurrentItem) = 0 /\ d = 0
<1>1. TypeInv /\ FoldersHoldItems /\ RestDisciplined /\ items \in ItemTable
  BY SizesInvFacts
<1>2. /\ pc = "store" /\ req.kind = "imports" /\ req.items \in Seq(Item)
      /\ idx \in 1 .. Len(req.items)
      /\ CurrentItem = req.items[idx] /\ CurrentItem \in Item
      /\ CurrentItem.id \in Ids /\ CurrentItem.parent \in Parents
  BY <1>1, StoreFacts
<1>3. PICK p : p = IF ItemExists(items, x) THEN items[x].parent ELSE Null
  OBVIOUS
<1>4. PICK d : d = IF ItemExists(items, x)
                   THEN Wrap(ItemSize(CurrentItem) - items[x].size)
                   ELSE ItemSize(CurrentItem)
  OBVIOUS
<1>5. /\ ItemSize(CurrentItem) \in Int
      /\ ItemExists(items, x) => /\ items[x].size \in Int
                                 /\ items[x].parent \in Parents
  BY <1>2, SizesFacts DEF ItemSize, Item
<1>6. p \in Parents
  BY <1>3, <1>5 DEF Parents
<1>7. d \in Int
  <2>1. CASE ItemExists(items, x)
    <3>1. ItemSize(CurrentItem) - items[x].size \in Int
      BY <1>5, <2>1
    <3> QED
      BY <1>4, <2>1, <3>1, WrapType
  <2> QED
    BY <1>4, <1>5, <2>1
<1>8. calls' = ChangeSizeCalls(p, CurrentItem, d)
  BY <1>3, <1>4 DEF InsertNewItem, UpdateOldItem
<1>9. p # Null => p \in Ids /\ GetType(items, p) = "FOLDER"
  BY <1>1, <1>2, <1>3, <1>6 DEF FoldersHoldItems, Parents
<1>10. /\ CurrentItem.parent = Null \/ GetType(items, CurrentItem.parent) = "FOLDER"
       /\ ItemExists(items, x) =>
            /\ items[x].type = CurrentItem.type
            /\ CurrentItem.type = "FILE" =>
                 \/ items[x].parent \in {Null, CurrentItem.parent}
                 \/ items[x].size = CurrentItem.size
            /\ CurrentItem.type = "FOLDER" => items[x].size = 0
  <2>1. Handling("imports") /\ FirstToStore = idx
    BY <1>2 DEF Handling, Quiet, FirstToStore
  <2>2. idx \in idx .. Len(req.items)
    BY <1>2
  <2>3. idx .. idx - 1 = {}
    BY <1>2
  <2> QED
    BY <1>1, <1>2, <2>1, <2>2, <2>3 DEF RestDisciplined
<1>11. CurrentItem.type = "FOLDER" => ItemSize(CurrentItem) = 0 /\ d = 0
  <2>1. CurrentItem.type = "FOLDER" => ItemSize(CurrentItem) = 0
    BY DEF ItemSize
  <2>2. 0 \in Int32 /\ 0 - 0 = 0
    BY TablesAssumption DEF Int32, MinInt
  <2>3. Wrap(0) = 0
    BY <2>2, WrapExact
  <2> QED
    BY <1>4, <1>10, <2>1, <2>2, <2>3
<1>12. /\ CurrentItem.parent # Null =>
            CurrentItem.parent \in Ids /\ GetType(items, CurrentItem.parent) = "FOLDER"
       /\ ItemExists(items, x) /\ CurrentItem.type = "FILE" =>
            p \in {Null, CurrentItem.parent} \/ items[x].size = CurrentItem.size
  BY <1>2, <1>3, <1>10 DEF Parents
<1> QED
  BY <1>3, <1>4, <1>6, <1>7, <1>8, <1>9, <1>10, <1>11, <1>12

(* Storing a file changes the sums above it by what the calls will add.    *)
LEMMA StoredFile ==
  ASSUME SizesInv, IsFiniteSet(Ids), InsertNewItem \/ UpdateOldItem,
         NEW x, x = CurrentItem.id, CurrentItem.type = "FILE",
         NEW id \in Ids \ {x}
  PROVE  SizeBelow(items', id) = SizeBelow(items, id) + (Owed(1, id)' + Owed(2, id)')
<1>1. /\ TypeInv /\ FoldersHoldItems /\ ParentExists /\ items \in ItemTable
  BY SizesInvFacts
<1>2. /\ pc' = "log" /\ items' \in ItemTable
      /\ CurrentItem \in Item /\ x \in Ids /\ CurrentItem.parent \in Parents
      /\ items'[x] = ItemRow(CurrentItem) /\ ItemExists(items', x)
      /\ \A y \in Ids \ {x} : items'[y] = items[y]
  BY <1>1, StoreFacts
<1>3. PICK p \in Parents, d \in Int :
        /\ p = IF ItemExists(items, x) THEN items[x].parent ELSE Null
        /\ d = IF ItemExists(items, x)
               THEN Wrap(ItemSize(CurrentItem) - items[x].size) ELSE ItemSize(CurrentItem)
        /\ calls' = ChangeSizeCalls(p, CurrentItem, d)
        /\ p # Null => p \in Ids /\ GetType(items, p) = "FOLDER"
        /\ CurrentItem.parent # Null =>
             CurrentItem.parent \in Ids /\ GetType(items, CurrentItem.parent) = "FOLDER"
        /\ ItemExists(items, x) =>
             /\ items[x].type = CurrentItem.type
             /\ CurrentItem.type = "FILE" =>
                  p \in {Null, CurrentItem.parent} \/ items[x].size = CurrentItem.size
  BY StoreDiscipline
<1>4. PICK q : q = CurrentItem.parent
  OBVIOUS
<1>5. PICK size : size = ItemSize(CurrentItem)
  OBVIOUS
<1>6. /\ size = CurrentItem.size /\ size \in Nat /\ size \in Int32
      /\ items'[x].size = size /\ items'[x].parent = q /\ items'[x].type = "FILE"
  BY <1>2, <1>4, <1>5 DEF ItemSize, ItemRow, Item, InsertNewItem, UpdateOldItem
<1>7. PICK old : old = IF ItemExists(items, x) THEN items[x].size ELSE 0
  OBVIOUS
<1>8. ItemExists(items, x) => items[x].type = "FILE" /\ old = items[x].size
  BY <1>3, <1>7
<1>9. old \in Int32 /\ old \in Nat
  <2>1. CASE ItemExists(items, x)
    <3>1. items[x].size \in Int32 /\ items[x].size \in Int
      BY <1>2, <2>1, SizesFacts
    <3>2. items[x].size >= 0
      BY <1>1, <1>2, <1>8, <2>1 DEF FoldersHoldItems
    <3> QED
      BY <1>8, <2>1, <3>1, <3>2
  <2>2. CASE ~ItemExists(items, x)
    BY <1>7, <2>2, TablesAssumption DEF Int32, MinInt
  <2> QED
    BY <2>1, <2>2
<1>10. p # x /\ q # x
  BY <1>2, <1>3, <1>4, <1>8, TablesAssumption DEF GetType
<1>11. \A y \in Ids : ItemExists(items, y) => items[y].parent # x
  <2> SUFFICES ASSUME NEW y \in Ids, ItemExists(items, y), items[y].parent = x
               PROVE  FALSE
    OBVIOUS
  <2>1. items[y].parent # Null
    BY <1>2, TablesAssumption
  <2>2. ItemExists(items, x) /\ GetType(items, x) = "FOLDER"
    BY <1>1, <2>1 DEF ParentExists, FoldersHoldItems
  <2> QED
    BY <1>8, <2>2 DEF GetType
<1>12. OneRowApart(items, items', x)
  BY <1>2 DEF OneRowApart
<1>13. \A y \in Ids \ {x} : Ancestors(items', y) = Ancestors(items, y)
  BY <1>1, <1>2, <1>11, <1>12, NothingBelow, AncestorsElsewhere
<1>14. \A n : /\ Due(items, p, n, id) = Due(items', p, n, id)
              /\ Due(items, q, n, id) = Due(items', q, n, id)
  <2>1. p # Null => p \in Ids \ {x}
    BY <1>3, <1>10
  <2>2. q # Null => q \in Ids \ {x}
    BY <1>3, <1>4, <1>10
  <2> QED
    BY <1>13, <2>1, <2>2 DEF Due
<1>15. /\ SizeBelow(items', id)
            = SizeBelow(items, id) - Share(items, x, id) + Share(items', x, id)
       /\ SizeBelow(items, id) \in Int
  <2>1. SizeBelow(items', id)
            = SizeBelow(items, id) - Share(items, x, id) + Share(items', x, id)
    BY <1>1, <1>2, <1>11, <1>12, SumAfterLeaf
  <2>2. /\ SizeBelow(items, id) = SumElsewhere(items, x, id) + Share(items, x, id)
        /\ SumElsewhere(items, x, id) \in Int /\ Share(items, x, id) \in Int
    BY <1>1, <1>2, SumSplit
  <2> QED
    BY <2>1, <2>2
<1>16. Share(items, x, id) = Due(items, p, old, id)
  <2>1. CASE ItemExists(items, x)
    BY <1>3, <1>8, <2>1 DEF Share, Due, FileSize
  <2>2. CASE ~ItemExists(items, x)
    BY <1>3, <2>2 DEF Share, Due
  <2> QED
    BY <2>1, <2>2
<1>17. Share(items', x, id) = Due(items', q, size, id)
  BY <1>2, <1>6 DEF Share, Due, FileSize
<1>18. Owed(1, id)' + Owed(2, id)' =
          IF p # q THEN Due(items', p, -size, id) + Due(items', q, size, id)
          ELSE Due(items', p, d, id)
  <2>1. pc' \notin {"resize", "redate", "record"}
    BY <1>2
  <2>2. id \in Ids
    OBVIOUS
  <2> QED
    BY <1>2, <1>3, <1>4, <1>5, <2>1, <2>2, CallsOwe
<1>19. CASE p # q
  <2>1. ItemExists(items, x) /\ p # Null => old = size
    BY <1>3, <1>4, <1>6, <1>7, <1>19
  <2>2. /\ Due(items', p, -size, id) = -Due(items, p, old, id)
        /\ Due(items, p, old, id) \in Int
    <3>1. CASE p # Null /\ id \in Ancestors(items, p)
      <4>1. old = size
        BY <1>3, <2>1, <3>1
      <4>2. Due(items, p, -size, id) = -size /\ Due(items, p, old, id) = size
        BY <3>1, <4>1 DEF Due
      <4> QED
        BY <1>6, <1>14, <4>2
    <3>2. CASE ~(p # Null /\ id \in Ancestors(items, p))
      <4>1. Due(items, p, -size, id) = 0 /\ Due(items, p, old, id) = 0
        BY <3>2 DEF Due
      <4> QED
        BY <1>14, <4>1
    <3> QED
      BY <3>1, <3>2
  <2>3. Due(items', q, size, id) \in Int
    BY <1>6 DEF Due
  <2> QED
    BY <1>15, <1>16, <1>17, <1>18, <1>19, <2>2, <2>3
<1>20. CASE p = q
  <2>1. p # Null => d = size - old
    <3>1. ASSUME p # Null
          PROVE  d = size - old
      <4>1. ItemExists(items, x)
        BY <1>3, <3>1
      <4>2. size - old \in Int32
        BY <1>6, <1>9, TablesAssumption DEF Int32, MinInt
      <4> QED
        BY <1>3, <1>5, <1>8, <4>1, <4>2, WrapExact
    <3> QED
      BY <3>1
  <2>2. CASE p # Null /\ id \in Ancestors(items, p)
    <3>1. /\ Due(items, p, d, id) = size - old /\ Due(items, p, old, id) = old
          /\ Due(items, q, size, id) = size
      BY <1>20, <2>1, <2>2 DEF Due
    <3>2. Owed(1, id)' + Owed(2, id)' = size - old
      BY <1>14, <1>18, <1>20, <3>1
    <3>3. Share(items, x, id) = old /\ Share(items', x, id) = size
      BY <1>14, <1>16, <1>17, <3>1
    <3> QED
      BY <1>6, <1>9, <1>15, <3>2, <3>3
  <2>3. CASE ~(p # Null /\ id \in Ancestors(items, p))
    <3>1. /\ Due(items, p, d, id) = 0 /\ Due(items, p, old, id) = 0
          /\ Due(items, q, size, id) = 0
      BY <1>20, <2>3 DEF Due
    <3>2. Owed(1, id)' + Owed(2, id)' = 0
      BY <1>14, <1>18, <1>20, <3>1
    <3>3. Share(items, x, id) = 0 /\ Share(items', x, id) = 0
      BY <1>14, <1>16, <1>17, <3>1
    <3> QED
      BY <1>15, <3>2, <3>3
  <2> QED
    BY <2>2, <2>3
<1> QED
  BY <1>19, <1>20

(* Storing a folder, new or empty of files, changes no sum and no size.    *)
LEMMA StoredFolder ==
  ASSUME SizesInv, IsFiniteSet(Ids), InsertNewItem \/ UpdateOldItem,
         NEW x, x = CurrentItem.id, CurrentItem.type = "FOLDER",
         NEW id \in Ids
  PROVE  /\ SizeBelow(items', id) = SizeBelow(items, id)
         /\ Owed(1, id)' + Owed(2, id)' = 0
         /\ SizeBelow(items, x) = 0
<1>1. /\ TypeInv /\ FoldersHoldItems /\ ParentExists /\ items \in ItemTable
      /\ CallsToFolders
  BY SizesInvFacts
<1>2. /\ pc = "store" /\ pc' = "log" /\ items' \in ItemTable
      /\ CurrentItem \in Item /\ x \in Ids /\ CurrentItem.parent \in Parents
      /\ items'[x] = ItemRow(CurrentItem) /\ ItemExists(items', x)
      /\ \A y \in Ids \ {x} : items'[y] = items[y]
  BY <1>1, StoreFacts
<1>3. PICK p \in Parents, d \in Int :
        /\ calls' = ChangeSizeCalls(p, CurrentItem, d)
        /\ ItemExists(items, x) => items[x].type = "FOLDER" /\ items[x].size = 0
        /\ ItemSize(CurrentItem) = 0 /\ d = 0
  BY StoreDiscipline
<1>4. Owed(1, id)' + Owed(2, id)' = 0
  <2>1. PICK q, size : q = CurrentItem.parent /\ size = ItemSize(CurrentItem)
    OBVIOUS
  <2>2. pc' \notin {"resize", "redate", "record"}
    BY <1>2
  <2>3. Owed(1, id)' + Owed(2, id)' =
          IF p # q THEN Due(items', p, -size, id) + Due(items', q, size, id)
          ELSE Due(items', p, d, id)
    BY <1>2, <1>3, <2>1, <2>2, CallsOwe
  <2>4. size = 0 /\ -size = 0
    <3>1. size = 0
      BY <1>3, <2>1
    <3> QED
      BY <3>1, MinusZero
  <2>5. /\ Due(items', p, -size, id) = 0 /\ Due(items', q, size, id) = 0
        /\ Due(items', p, d, id) = 0
    BY <1>3, <2>4 DEF Due
  <2> QED
    BY <2>3, <2>5
<1>5. \A y \in Descendants(items, x) : FileSize(items, y) = 0
  <2>1. CASE ItemExists(items, x)
    <3>1. GetType(items, x) = "FOLDER"
      BY <1>3, <2>1 DEF GetType
    <3>2. items[x].size + Owed(1, x) + Owed(2, x) = SizeBelow(items, x)
      BY <1>2, <3>1, SizesInvFacts DEF SizesOwed, DeleteSteps
    <3>3. Owed(1, x) = 0 /\ Owed(2, x) = 0
      <4>1. calls = <<>>
        BY <1>1, <1>2 DEF CallsToFolders
      <4>2. DOMAIN calls = {}
        BY <4>1
      <4> QED
        BY <4>2 DEF Owed
    <3>4. SizeBelow(items, x) = 0
      BY <1>3, <2>1, <3>2, <3>3
    <3>5. \A y \in Ids : FileSize(items, y) >= 0
      BY SizesFacts
    <3> QED
      BY <1>1, <1>2, <3>4, <3>5, SumOfFiles
  <2>2. CASE ~ItemExists(items, x)
    <3>1. \A y \in Ids : ItemExists(items, y) => items[y].parent # x
      BY <1>1, <1>2, <2>2, TablesAssumption DEF ParentExists
    <3>2. \A y \in Ids \ {x} : x \notin Ancestors(items, y)
      BY <1>1, <1>2, <3>1, NothingBelow
    <3>3. Descendants(items, x) \subseteq Ids
      BY <1>1, <1>2, DescendantsFacts
    <3>4. Descendants(items, x) \subseteq {x}
      BY <1>1, <1>2, <3>2, <3>3, BelowIsAbove
    <3> QED
      BY <2>2, <3>4 DEF FileSize
  <2> QED
    BY <2>1, <2>2
<1>6. FileSize(items', x) = 0
  BY <1>2 DEF FileSize, ItemRow
<1>7. OneRowApart(items, items', x)
  BY <1>2 DEF OneRowApart
<1>8. SizeBelow(items', id) = SizeBelow(items, id)
  BY <1>1, <1>2, <1>5, <1>6, <1>7, SumAfterEmpty
<1>9. SizeBelow(items, x) = 0
  BY <1>1, <1>2, <1>5, SumOfZeros
<1> QED
  BY <1>4, <1>8, <1>9

(* Storing an item leaves the discipline of the import and the calls as    *)
(* the invariant has them.                                                 *)
LEMMA StoreSizes ==
  ASSUME SizesInv, IsFiniteSet(Ids), ProgressInv', InsertNewItem \/ UpdateOldItem
  PROVE  SizesInvariant'
<1>1. /\ TypeInv /\ ProgressInv /\ FoldersHoldItems /\ RestDisciplined /\ CallsToFolders
      /\ items \in ItemTable
  BY SizesInvFacts
<1>2. PICK x : x = CurrentItem.id
  OBVIOUS
<1>3. /\ pc = "store" /\ pc' = "log" /\ UNCHANGED <<req, idx, before>>
      /\ items' \in ItemTable /\ req.kind = "imports"
      /\ req.items \in Seq(Item) /\ idx \in 1 .. Len(req.items)
      /\ CurrentItem = req.items[idx] /\ CurrentItem \in Item
      /\ x \in Ids /\ CurrentItem.parent \in Parents
      /\ items'[x] = ItemRow(CurrentItem) /\ ItemExists(items', x)
      /\ \A y \in Ids \ {x} : items'[y] = items[y]
  BY <1>1, <1>2, StoreFacts
<1>4. PICK p \in Parents, d \in Int :
        /\ calls' = ChangeSizeCalls(p, CurrentItem, d)
        /\ p # Null => p \in Ids /\ GetType(items, p) = "FOLDER"
        /\ CurrentItem.parent # Null =>
             CurrentItem.parent \in Ids /\ GetType(items, CurrentItem.parent) = "FOLDER"
        /\ ItemExists(items, x) => items[x].type = CurrentItem.type
        /\ CurrentItem.type = "FOLDER" => ItemSize(CurrentItem) = 0 /\ d = 0
  BY <1>2, StoreDiscipline
<1>5. /\ items'[x].type = CurrentItem.type /\ items'[x].parent = CurrentItem.parent
      /\ items'[x].size = ItemSize(CurrentItem)
      /\ CurrentItem.type \in Types /\ ItemSize(CurrentItem) \in Nat
  BY <1>3 DEF ItemRow, ItemSize, Item
<1>6. \A y \in Ids : ItemExists(items, y) => GetType(items', y) = GetType(items, y)
  BY <1>3, <1>4, <1>5 DEF GetType, ItemExists
<1>7. \A y \in Ids : GetType(items, y) = "FOLDER" => GetType(items', y) = "FOLDER"
  BY <1>6 DEF GetType
<1>8. FoldersHoldItems'
  <2> SUFFICES ASSUME NEW id \in Ids, ItemExists(items', id)
               PROVE  /\ items'[id].parent # Null => GetType(items', items'[id].parent) = "FOLDER"
                      /\ items'[id].type = "FILE" => items'[id].size >= 0
    BY DEF FoldersHoldItems
  <2>1. CASE id = x
    BY <1>4, <1>5, <1>7, <2>1
  <2>2. CASE id # x
    <3>1. items'[id] = items[id] /\ ItemExists(items, id)
      BY <1>3, <2>2 DEF ItemExists
    <3>2. items[id].parent # Null => items[id].parent \in Ids
      BY <1>1, <3>1, ParentAbove
    <3> QED
      BY <1>1, <1>7, <3>1, <3>2 DEF FoldersHoldItems
  <2> QED
    BY <2>1, <2>2
<1>9. RestDisciplined'
  <2>1. Handling("imports") /\ FirstToStore = idx /\ FirstToStore' = idx + 1
    BY <1>3 DEF Handling, Quiet, FirstToStore
  <2> SUFFICES ASSUME NEW j \in idx + 1 .. Len(req.items), NEW it, it = req.items[j]
               PROVE
          /\ \/ it.parent = Null
             \/ GetType(items', it.parent) = "FOLDER"
             \/ \E k \in idx + 1 .. j - 1 :
                  req.items[k].type = "FOLDER" /\ req.items[k].id = it.parent
          /\ ItemExists(items', it.id) =>
               /\ items'[it.id].type = it.type
               /\ it.type = "FILE" =>
                    items'[it.id].parent \in {Null, it.parent} \/ items'[it.id].size = it.size
               /\ it.type = "FOLDER" =>
                    /\ items'[it.id].size = 0
                    /\ \A k \in 1 .. j - 1 : req.items[k].type = "FOLDER"
    BY <1>3, <2>1 DEF RestDisciplined
  <2>2. j \in idx .. Len(req.items) /\ j \in 1 .. Len(req.items) /\ j # idx
    BY <1>3
  <2>3. it \in Item
    BY <1>3, <2>2
  <2>4. it.id \in Ids /\ it.parent \in Ids \cup {Null}
    BY <2>3 DEF Item, Parents
  <2>5. /\ \/ it.parent = Null
           \/ GetType(items, it.parent) = "FOLDER"
           \/ \E k \in idx .. j - 1 :
                req.items[k].type = "FOLDER" /\ req.items[k].id = it.parent
        /\ ItemExists(items, it.id) =>
             /\ items[it.id].type = it.type
             /\ it.type = "FILE" =>
                  items[it.id].parent \in {Null, it.parent} \/ items[it.id].size = it.size
             /\ it.type = "FOLDER" =>
                  /\ items[it.id].size = 0
                  /\ \A k \in 1 .. j - 1 : req.items[k].type = "FOLDER"
    BY <1>1, <2>1, <2>2 DEF RestDisciplined
  <2>6. it.id # x
    <3>1. \A m, n \in DOMAIN req.items : req.items[m].id = req.items[n].id => m = n
      BY <1>1, <2>1 DEF ProgressInv, ProgressInvariant, ImportSoFar
    <3>2. j \in DOMAIN req.items /\ idx \in DOMAIN req.items
      BY <1>3, <2>2
    <3> QED
      BY <1>2, <1>3, <2>2, <3>1, <3>2
  <2>7. items'[it.id] = items[it.id]
    BY <1>3, <2>4, <2>6
  <2>8. \/ it.parent = Null
        \/ GetType(items', it.parent) = "FOLDER"
        \/ \E k \in idx + 1 .. j - 1 :
             req.items[k].type = "FOLDER" /\ req.items[k].id = it.parent
    <3>1. CASE it.parent = Null \/ GetType(items, it.parent) = "FOLDER"
      BY <1>7, <2>4, <3>1
    <3>2. CASE \E k \in idx .. j - 1 :
                 req.items[k].type = "FOLDER" /\ req.items[k].id = it.parent
      <4>1. PICK k \in idx .. j - 1 :
              req.items[k].type = "FOLDER" /\ req.items[k].id = it.parent
        BY <3>2
      <4>2. CASE k = idx
        <5>1. it.parent = x /\ CurrentItem.type = "FOLDER"
          BY <1>2, <1>3, <4>1, <4>2
        <5> QED
          BY <1>3, <1>5, <5>1 DEF GetType
      <4>3. CASE k # idx
        <5>1. k \in idx + 1 .. j - 1
          BY <1>3, <4>3
        <5> QED
          BY <4>1, <5>1
      <4> QED
        BY <4>2, <4>3
    <3> QED
      BY <2>5, <3>1, <3>2
  <2> QED
    BY <2>5, <2>7, <2>8 DEF ItemExists
<1>10. CallsToFolders'
  <2>1. pc' \notin {"resize", "redate", "record"}
    BY <1>3
  <2>2. /\ Len(calls') <= 2
        /\ \A n \in DOMAIN calls' :
             /\ calls'[n].id # Null
             /\ calls'[n].id = p \/ calls'[n].id = CurrentItem.parent
             /\ calls'[n].delta \in {-ItemSize(CurrentItem), ItemSize(CurrentItem), d}
    BY <1>3, <1>4, <2>1, CallsOwe
  <2>3. \A n \in DOMAIN calls' : GetType(items', calls'[n].id) = "FOLDER"
    BY <1>4, <1>7, <2>2
  <2>4. CurrentItem.type = "FOLDER" => \A n \in DOMAIN calls' : calls'[n].delta = 0
    <3>1. ASSUME CurrentItem.type = "FOLDER", NEW n \in DOMAIN calls'
          PROVE  calls'[n].delta = 0
      <4>1. ItemSize(CurrentItem) = 0 /\ d = 0
        BY <1>4, <3>1
      <4>2. -ItemSize(CurrentItem) = 0
        BY <4>1, MinusZero
      <4> QED
        BY <2>2, <4>1, <4>2
    <3> QED
      BY <3>1
  <2>5. CurrentItem' = CurrentItem
    BY <1>3 DEF CurrentItem
  <2> QED
    BY <1>3, <2>2, <2>3, <2>4, <2>5 DEF CallsToFolders, DeleteSteps
<1>11. StackAbove'
  BY <1>3 DEF StackAbove
<1>12. SizesOwed'
  <2> SUFFICES ASSUME NEW id \in Ids, GetType(items', id) = "FOLDER"
               PROVE  items'[id].size + Owed(1, id)' + Owed(2, id)' = SizeBelow(items', id)
    BY DEF SizesOwed
  <2>1. calls = <<>> /\ DOMAIN calls = {}
    BY <1>1, <1>3 DEF CallsToFolders
  <2>2. Owed(1, id) = 0 /\ Owed(2, id) = 0
    BY <2>1 DEF Owed
  <2>3. ASSUME id # x
        PROVE  /\ items'[id].size = items[id].size /\ items[id].size \in Int
               /\ items[id].size = SizeBelow(items, id)
    <3>1. items'[id] = items[id] /\ GetType(items, id) = "FOLDER" /\ ItemExists(items, id)
      BY <1>3, <2>3 DEF GetType, ItemExists
    <3>2. items[id].size + Owed(1, id) + Owed(2, id) = SizeBelow(items, id)
      BY <1>3, <3>1, SizesInvFacts DEF SizesOwed, DeleteSteps
    <3> QED
      BY <2>2, <3>1, <3>2, SizesFacts
  <2>4. Owed(1, id)' \in Int /\ Owed(2, id)' \in Int
    <3>1. calls' \in Seq(Call)
      BY DEF ProgressInv, ForestInv, TypeInv, TypeOK
    <3>2. \A n \in DOMAIN calls' : calls'[n] \in Call
      BY <3>1
    <3>3. \A n \in DOMAIN calls' : calls'[n].delta \in Int
      BY <3>2 DEF Call
    <3> QED
      BY <3>3 DEF Owed
  <2>5. CASE CurrentItem.type = "FILE"
    <3>1. id # x
      BY <1>3, <1>5, <2>5 DEF GetType
    <3>2. SizeBelow(items', id) = SizeBelow(items, id) + (Owed(1, id)' + Owed(2, id)')
      BY <1>2, <2>5, <3>1, StoredFile
    <3> QED
      BY <2>3, <2>4, <3>1, <3>2
  <2>6. CASE CurrentItem.type = "FOLDER"
    <3>1. /\ SizeBelow(items', id) = SizeBelow(items, id)
          /\ Owed(1, id)' + Owed(2, id)' = 0
          /\ SizeBelow(items, x) = 0
      BY <1>2, <2>6, StoredFolder
    <3>2. CASE id = x
      <4>1. items'[id].size = 0
        BY <1>4, <1>5, <2>6, <3>2
      <4> QED
        BY <2>4, <3>1, <3>2, <4>1
    <3>3. CASE id # x
      BY <2>3, <2>4, <3>1, <3>3
    <3> QED
      BY <3>2, <3>3
  <2> QED
    BY <1>5, <2>5, <2>6 DEF Types
<1> QED
  BY <1>8, <1>9, <1>10, <1>11, <1>12 DEF SizesInvariant
-----------------------------------------------------------------------------
(* Nothing is owed while there are no calls.                               *)
LEMMA NothingOwed ==
  ASSUME SizesInv, calls = <<>>, UNCHANGED <<items, calls>>, pc # "down",
         pc \notin DeleteSteps, pc' \notin DeleteSteps
  PROVE  SizesOwed'
<1>1. DOMAIN calls = {}
  OBVIOUS
<1>2. \A id \in Ids : /\ Owed(1, id) = 0 /\ Owed(2, id) = 0
                      /\ Owed(1, id)' = 0 /\ Owed(2, id)' = 0
  BY <1>1 DEF Owed
<1> QED
  BY <1>2, SizesInvFacts DEF SizesOwed

(* The validation, and the discipline of the requests, put an import into  *)
(* the form the invariant keeps.                                           *)
LEMMA BeginImportSizes ==
  ASSUME SizesInv, NEW r \in Requests, BeginImport(r),
         \A j \in DOMAIN r.items : Disciplined(r.items, j)
  PROVE  SizesInvariant'
<1>1. /\ TypeInv /\ FoldersHoldItems /\ items \in ItemTable
  BY SizesInvFacts
<1>2. /\ pc = "idle" /\ pc' = "store" /\ r.kind = "imports"
      /\ req' = r /\ idx' = 1 /\ UNCHANGED <<items, calls, before>>
      /\ ImportsValidate(r) = "accept"
  BY DEF BeginImport, Receive, tables
<1>3. calls = <<>>
  BY <1>1, <1>2 DEF TypeInv, Control, Quiet
<1>4. r.items \in Seq(Item) /\ \A j \in DOMAIN r.items : ParentAccepted(r.items, j)
  BY <1>2, RequestFacts, AcceptedImport
<1>5. FoldersHoldItems'
  BY <1>1, <1>2 DEF FoldersHoldItems
<1>6. RestDisciplined'
  <2>1. FirstToStore' = 1
    BY <1>2 DEF FirstToStore
  <2>2. DOMAIN r.items = 1 .. Len(r.items)
    BY <1>4
  <2> SUFFICES ASSUME NEW j \in 1 .. Len(r.items)
               PROVE
          /\ \/ r.items[j].parent = Null
             \/ GetType(items, r.items[j].parent) = "FOLDER"
             \/ \E k \in 1 .. j - 1 :
                  r.items[k].type = "FOLDER" /\ r.items[k].id = r.items[j].parent
          /\ ItemExists(items, r.items[j].id) =>
               /\ items[r.items[j].id].type = r.items[j].type
               /\ r.items[j].type = "FILE" =>
                    \/ items[r.items[j].id].parent \in {Null, r.items[j].parent}
                    \/ items[r.items[j].id].size = r.items[j].size
               /\ r.items[j].type = "FOLDER" =>
                    /\ items[r.items[j].id].size = 0
                    /\ \A k \in 1 .. j - 1 : r.items[k].type = "FOLDER"
    BY <1>2, <2>1 DEF RestDisciplined
  <2>3. ParentAccepted(r.items, j) /\ Disciplined(r.items, j)
    BY <1>4, <2>2
  <2> QED
    BY <2>3 DEF ParentAccepted, Disciplined
<1>7. CallsToFolders'
  BY <1>2, <1>3 DEF CallsToFolders, DeleteSteps
<1>8. StackAbove'
  BY <1>2 DEF StackAbove
<1>9. SizesOwed'
  BY <1>2, <1>3, NothingOwed DEF DeleteSteps
<1> QED
  BY <1>5, <1>6, <1>7, <1>8, <1>9 DEF SizesInvariant

(* A deletion begins with one call, for the parent, that owes nothing yet. *)
LEMMA BeginDeleteSizes ==
  ASSUME SizesInv, NEW r \in Requests, BeginDelete(r)
  PROVE  SizesInvariant'
<1>1. /\ TypeInv /\ FoldersHoldItems /\ items \in ItemTable /\ SizesOwed /\ ProgressInv
  BY SizesInvFacts DEF BeginDelete, Receive
<1>2. /\ pc = "idle" /\ pc' = "delete" /\ r.kind = "delete" /\ ItemExists(items, r.id)
      /\ req' = r /\ UNCHANGED <<items, before>>
      /\ calls' = IF items[r.id].parent = Null THEN <<>>
                  ELSE <<[id |-> items[r.id].parent, delta |-> 0]>>
  BY DEF BeginDelete, Receive, tables
<1>3. calls = <<>> /\ DOMAIN calls = {} /\ before = items /\ r.id \in Ids
  BY <1>1, <1>2, RequestFacts DEF TypeInv, Control, Quiet, ProgressInv,
     ProgressInvariant, AnswerPending
<1>4. PICK p : p = items[r.id].parent
  OBVIOUS
<1>5. \/ p = Null /\ calls' = <<>> /\ Len(calls') = 0 /\ DOMAIN calls' = {}
      \/ /\ p # Null /\ Len(calls') = 1 /\ DOMAIN calls' = {1}
         /\ calls'[1].id = p /\ calls'[1].delta = 0
  BY <1>2, <1>4
<1>6. FoldersHoldItems'
  BY <1>1, <1>2 DEF FoldersHoldItems
<1>7. RestDisciplined' /\ StackAbove'
  BY <1>2 DEF RestDisciplined, StackAbove, Handling
<1>8. CallsToFolders'
  <2>1. p # Null => GetType(items, p) = "FOLDER"
    BY <1>1, <1>2, <1>3, <1>4 DEF FoldersHoldItems
  <2>2. 0 \in Int32
    BY TablesAssumption DEF Int32, MinInt
  <2> QED
    BY <1>2, <1>3, <1>4, <1>5, <2>1, <2>2 DEF CallsToFolders, Handling
<1>9. SizesOwed'
  <2> SUFFICES ASSUME NEW id \in Ids, GetType(items, id) = "FOLDER"
               PROVE  items[id].size + Owed(1, id)' + Owed(2, id)' = SizeBelow(items, id)
    BY <1>2 DEF SizesOwed
  <2>1. Owed(1, id) = 0 /\ Owed(2, id) = 0
    BY <1>3 DEF Owed
  <2>2. Owed(1, id)' = 0 /\ Owed(2, id)' = 0
    BY <1>5 DEF Owed
  <2> QED
    BY <1>1, <1>2, <2>1, <2>2 DEF SizesOwed, DeleteSteps
<1> QED
  BY <1>6, <1>7, <1>8, <1>9 DEF SizesInvariant

(* The next item, and the end of a request.                                *)
LEMMA NextSizes ==
  ASSUME SizesInv, NextItem \/ Finish
  PROVE  SizesInvariant'
<1>1. /\ FoldersHoldItems /\ RestDisciplined
  BY SizesInvFacts
<1>2. /\ pc = "next" /\ calls = <<>> /\ UNCHANGED <<items, calls>>
      /\ pc' \in {"store", "idle"}
  BY DEF NextItem, Finish, tables
<1>3. FoldersHoldItems'
  BY <1>1, <1>2 DEF FoldersHoldItems
<1>4. RestDisciplined'
  <2>1. CASE NextItem
    <3>1. req' = req /\ req.kind = "imports" /\ idx' = idx + 1 /\ pc' = "store"
      BY <2>1 DEF NextItem
    <3>2. FirstToStore' = FirstToStore
      BY <1>2, <3>1 DEF FirstToStore
    <3> QED
      BY <1>1, <1>2, <3>1, <3>2 DEF RestDisciplined, Handling, Quiet
  <2>2. CASE Finish
    BY <2>2 DEF Finish, RestDisciplined, Handling, Quiet
  <2> QED
    BY <2>1, <2>2
<1>5. CallsToFolders'
  <2>1. pc' = "store" \/ ~Handling("imports")'
    BY <1>2 DEF Handling, Quiet
  <2> QED
    BY <1>2, <2>1 DEF CallsToFolders, DeleteSteps
<1>6. StackAbove'
  BY <1>2 DEF StackAbove
<1>7. SizesOwed'
  BY <1>2, NothingOwed DEF DeleteSteps
<1> QED
  BY <1>3, <1>4, <1>5, <1>6, <1>7 DEF SizesInvariant

(* A request that is refused at once, or ends the process.                 *)
LEMMA QuietSizes ==
  ASSUME SizesInv, UNCHANGED items, pc' \in Quiet, calls' = <<>>,
         pc' = "idle" => pc = "idle" /\ calls = <<>>
  PROVE  SizesInvariant'
<1>1. FoldersHoldItems'
  BY SizesInvFacts DEF FoldersHoldItems
<1>2. RestDisciplined' /\ StackAbove' /\ CallsToFolders'
  BY DEF RestDisciplined, StackAbove, CallsToFolders, Handling, Quiet, DeleteSteps
<1>3. pc' # "down" => SizesOwed'
  BY NothingOwed DEF Quiet, DeleteSteps
<1> QED
  BY <1>1, <1>2, <1>3 DEF SizesInvariant

(* Every step of the handlers keeps the sizes, under the discipline.       *)
LEMMA StepSizes ==
  ASSUME IsFiniteSet(Ids), SizesInv, [CalmNext]_vars
  PROVE  SizesInv'
<1>1. [Next]_vars
  BY DEF CalmNext, CalmArrival, Next
<1>2. DatesInv'
  BY <1>1, StepDates DEF SizesInv
<1>3. ProgressInv'
  BY <1>2 DEF DatesInv
<1>4. SUFFICES SizesInvariant'
  BY <1>2 DEF SizesInv
<1>5. TypeInv
  BY SizesInvFacts
<1>6. CASE CalmArrival
  <2>1. PICK r \in Requests :
          /\ r.kind = "imports" => \A j \in DOMAIN r.items : Disciplined(r.items, j)
          /\ Arrive(r)
    BY <1>6 DEF CalmArrival
  <2>2. CASE BeginImport(r)
    BY <2>1, <2>2, BeginImportSizes DEF BeginImport
  <2>3. CASE BeginDelete(r)
    BY <2>3, BeginDeleteSizes
  <2>4. CASE RejectImport(r) \/ RejectDelete(r) \/ ThrowInValidation(r)
    <3>1. /\ pc = "idle" /\ pc' \in Quiet /\ UNCHANGED <<items, calls>>
      BY <2>4 DEF RejectImport, RejectDelete, ThrowInValidation, Receive, AnswerAtOnce,
         tables, volatile, Quiet
    <3>2. calls = <<>>
      BY <1>5, <3>1 DEF TypeInv, Control, Quiet
    <3> QED
      BY <3>1, <3>2, QuietSizes
  <2> QED
    BY <2>1, <2>2, <2>3, <2>4 DEF Arrive
<1>7. CASE InsertNewItem \/ UpdateOldItem
  BY <1>3, <1>7, StoreSizes
<1>8. CASE LogItem \/ CallChangeSize \/ Climb
  BY <1>8, ClimbSizes
<1>9. CASE Resize \/ Redate
  BY <1>9, ResizeSizes
<1>10. CASE Record
  BY <1>10, RecordSizes
<1>11. CASE DeleteRow
  BY <1>3, <1>11, DeleteRowSizes
<1>12. CASE (\E c \in Ids : Descend(c)) \/ EraseHistory
  BY <1>12, DeleteSizes
<1>13. CASE NextItem \/ Finish
  BY <1>13, NextSizes
<1>14. CASE Fault
  <2>1. pc' = "down" /\ calls' = <<>> /\ items' = items
    BY <1>14 DEF Fault, Die, tables
  <2> QED
    BY <2>1, QuietSizes DEF Quiet
<1>15. CASE UNCHANGED vars
  <2>1. UNCHANGED <<items, pc, req, idx, calls, stack, before>>
    BY <1>15 DEF vars
  <2>2. /\ FoldersHoldItems /\ RestDisciplined /\ CallsToFolders /\ StackAbove
        /\ pc # "down" => SizesOwed
    BY SizesInvFacts
  <2>3. FoldersHoldItems' /\ RestDisciplined' /\ CallsToFolders' /\ StackAbove'
    BY <2>1, <2>2 DEF FoldersHoldItems, RestDisciplined, CallsToFolders, StackAbove,
       Handling, FirstToStore, CurrentItem
  <2>4. (pc # "down" => SizesOwed)'
    BY <2>1, <2>2 DEF SizesOwed, Owed, Unresized
  <2> QED
    BY <2>3, <2>4 DEF SizesInvariant
<1> QED
  BY <1>6, <1>7, <1>8, <1>9, <1>10, <1>11, <1>12, <1>13, <1>14, <1>15
     DEF CalmNext, HandlerStep, ImportStep, ChangeSizeStep, DeleteStep

(* It holds of the empty tables.                                           *)
LEMMA InitSizes ==
  ASSUME Init
  PROVE  SizesInv
<1>1. /\ pc = "idle" /\ calls = <<>> /\ items = EmptyItems
  BY DEF Init
<1>2. \A id \in Ids : ~ItemExists(items, id)
  BY <1>1 DEF EmptyItems, ItemExists
<1>3. FoldersHoldItems /\ SizesOwed
  BY <1>2 DEF FoldersHoldItems, SizesOwed, GetType
<1>4. RestDisciplined /\ CallsToFolders /\ StackAbove
  BY <1>1 DEF RestDisciplined, CallsToFolders, StackAbove, Handling, Quiet, DeleteSteps
<1>5. DatesInv
  BY InitDates
<1> QED
  BY <1>3, <1>4, <1>5 DEF SizesInv, SizesInvariant

(* In every step of every request that keeps the discipline, the size of a *)
(* folder and what the calls of ChangeSize still owe it are the sum of the *)
(* files below it; the deltas of a deletion never wrap                     *)
(* (Main.cpp:62-70, 87-102, 109-115, 134-136).                             *)
THEOREM SizesInvariantHolds ==
  ASSUME IsFiniteSet(Ids)
  PROVE  CalmSpec => []SizesInvariant
<1>1. Init => SizesInv
  BY InitSizes
<1>2. SizesInv /\ [CalmNext]_vars => SizesInv'
  BY StepSizes
<1>3. SizesInv => SizesInvariant
  BY DEF SizesInv
<1> QED
  BY <1>1, <1>2, <1>3, PTL DEF CalmSpec

(* The size of every folder is the sum of the sizes of the files below it  *)
(* whenever no request is being handled, though no code computes the sum:  *)
(* for any finite set of ids, sizes up to the largest int and forests of   *)
(* any depth, while requests keep the discipline and the process is not    *)
(* killed (Main.cpp:62-70, 87-102, 109-115, 134-136).                      *)
THEOREM SizesHold ==
  ASSUME IsFiniteSet(Ids)
  PROVE  CalmSpec => []SizesAreSums
<1>1. Init => SizesInv
  BY InitSizes
<1>2. SizesInv /\ [CalmNext]_vars => SizesInv'
  BY StepSizes
<1>3. SizesInv => SizesAreSums
  <2> SUFFICES ASSUME SizesInv, pc = "idle", NEW id \in Ids,
                      ItemExists(items, id), items[id].type = "FOLDER"
               PROVE  items[id].size = SizeBelow(items, id)
    BY DEF SizesAreSums
  <2>1. calls = <<>> /\ DOMAIN calls = {}
    BY SizesInvFacts DEF TypeInv, Control, Quiet
  <2>2. Owed(1, id) = 0 /\ Owed(2, id) = 0
    BY <2>1 DEF Owed
  <2>3. items[id].size + Owed(1, id) + Owed(2, id) = SizeBelow(items, id)
    BY SizesInvFacts DEF SizesOwed, GetType, DeleteSteps
  <2>4. items[id].size \in Int
    BY SizesFacts
  <2> QED
    BY <2>2, <2>3, <2>4
<1> QED
  BY <1>1, <1>2, <1>3, PTL DEF CalmSpec
=============================================================================
