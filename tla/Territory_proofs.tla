-------------------------- MODULE Territory_proofs --------------------------
(***************************************************************************)
(* Lemmas about the rules of the game: what placing a piece does to the    *)
(* cells each seat owns, and how many moves a board can take.              *)
(***************************************************************************)
EXTENDS Territory, FiniteSetTheorems, TLAPS

\* A board has Size * Size cells.
LEMMA CellsFinite ==
    /\ IsFiniteSet(Cells)
    /\ Cardinality(Cells) = Size * Size
<1>1. Size - 1 \in Int /\ 0 \in Int
  BY TerritoryAssumption
<1>2. IsFiniteSet(0 .. Size - 1) /\ Cardinality(0 .. Size - 1) = Size
  BY <1>1, FS_Interval, TerritoryAssumption
<1> QED BY <1>2, FS_Product DEF Cells

\* Sets of cells are finite, and adding disjoint ones adds their sizes.
LEMMA CellSets ==
    ASSUME NEW A \in SUBSET Cells, NEW B \in SUBSET Cells
    PROVE  /\ IsFiniteSet(A) /\ Cardinality(A) \in Nat
           /\ A \cap B = {} => Cardinality(A \cup B) = Cardinality(A) + Cardinality(B)
<1>1. IsFiniteSet(A) /\ IsFiniteSet(B)
  BY CellsFinite, FS_Subset
<1>2. Cardinality(A) \in Nat /\ Cardinality(B) \in Nat
  BY <1>1, FS_CardinalityType
<1>3. Cardinality(A \cup B) = Cardinality(A) + Cardinality(B) - Cardinality(A \cap B)
  BY <1>1, FS_Union
<1>4. A \cap B = {} => Cardinality(A \cap B) = 0
  BY FS_EmptySet
<1> QED BY <1>1, <1>2, <1>3, <1>4

\* A move claims its cell and empty cells only.
LEMMA ClaimedCells ==
    ASSUME NEW board \in Boards, NEW c \in Cells, board[c] = Empty
    PROVE  /\ Claimed(board, c) \subseteq Owned(board, Empty)
           /\ c \in Claimed(board, c)
           /\ Cardinality(Claimed(board, c)) \in Nat \ {0}
<1>1. Claimed(board, c) \subseteq Owned(board, Empty) /\ c \in Claimed(board, c)
  BY DEF Claimed, Neighbours, Owned
<1>2. Claimed(board, c) \subseteq Cells
  BY <1>1 DEF Owned
<1>3. IsFiniteSet(Claimed(board, c)) /\ Cardinality(Claimed(board, c)) \in Nat
  BY <1>2, CellSets
<1>4. Cardinality(Claimed(board, c)) # 0
  BY <1>1, <1>3, FS_EmptySet
<1> QED BY <1>1, <1>3, <1>4

\* A placement yields a board; the mover's cells grow by exactly the number
\* of claimed cells, and the opponent's stay the same.
LEMMA PlaceCounts ==
    ASSUME NEW board \in Boards, NEW s \in Seats, NEW c \in Cells, board[c] = Empty
    PROVE  /\ Place(board, s, c) \in Boards
           /\ Cardinality(Owned(Place(board, s, c), s)) =
                 Cardinality(Owned(board, s)) + Cardinality(Claimed(board, c))
           /\ \A o \in Seats : o # s => Owned(Place(board, s, c), o) = Owned(board, o)
<1>. DEFINE after == Place(board, s, c)
<1>1. Claimed(board, c) \subseteq Owned(board, Empty)
  BY ClaimedCells
<1>2. s # Empty
  BY DEF Seats, Empty
<1>3. after \in Boards
  BY DEF Place, Boards
<1>4. \A d \in Cells : after[d] = IF d \in Claimed(board, c) THEN s ELSE board[d]
  BY DEF Place
<1>. HIDE DEF after
<1>5. Owned(after, s) = Owned(board, s) \cup Claimed(board, c)
  BY <1>1, <1>4 DEF Owned
<1>6. Owned(board, s) \cap Claimed(board, c) = {}
  BY <1>1, <1>2 DEF Owned
<1>7. \A o \in Seats : o # s => Owned(after, o) = Owned(board, o)
  BY <1>1, <1>4, <1>2 DEF Owned, Seats, Empty
<1>8. Owned(board, s) \in SUBSET Cells /\ Claimed(board, c) \in SUBSET Cells
  BY <1>1 DEF Owned
<1>9. Cardinality(Owned(after, s)) =
          Cardinality(Owned(board, s)) + Cardinality(Claimed(board, c))
  BY <1>5, <1>6, <1>8, CellSets
<1> QED BY <1>3, <1>7, <1>9 DEF after

\* When the two seats own as many cells as there are, the board is full.
LEMMA FullByCount ==
    ASSUME NEW board \in Boards,
           Cardinality(Owned(board, 1)) + Cardinality(Owned(board, 2)) >= Size * Size
    PROVE  BoardFull(board)
<1>. DEFINE both == Owned(board, 1) \cup Owned(board, 2)
<1>1. /\ Owned(board, 1) \in SUBSET Cells /\ Owned(board, 2) \in SUBSET Cells
      /\ Owned(board, 1) \cap Owned(board, 2) = {}
  BY DEF Owned
<1>2. Cardinality(both) = Cardinality(Owned(board, 1)) + Cardinality(Owned(board, 2))
  BY <1>1, CellSets
<1>3. both \in SUBSET Cells
  BY <1>1
<1>4. Cardinality(both) <= Cardinality(Cells)
  BY <1>3, CellsFinite, FS_Subset
<1>5. Cardinality(both) \in Nat /\ Size * Size \in Nat
  BY <1>3, CellSets, TerritoryAssumption
<1>6. both = Cells
  <2>1. Cardinality(both) >= Size * Size
    BY <1>2
  <2>2. Cardinality(Cells) = Cardinality(both)
    <3>. HIDE DEF both
    <3> QED BY <2>1, <1>4, <1>5, CellsFinite
  <2> QED BY <2>2, <1>3, CellsFinite, FS_Subset
<1> QED BY <1>6 DEF BoardFull, Owned, Empty
=============================================================================
