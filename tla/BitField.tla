------------------------------ MODULE BitField ------------------------------
(***************************************************************************)
(* Class BitField: which pieces and blocks of the file this peer has, and  *)
(* which it has asked for.  The methods are operators from one value of    *)
(* the object to the next.                                                 *)
(*                                                                         *)
(* nextBlock_var is recomputed by findNextBlock whenever the flags of its  *)
(* piece change, so NextBlock computes it.  currentBlock_var,              *)
(* numRequestedBlocks_var and numRequestedPieces_var are left out: nothing *)
(* but a return value that no caller uses depends on them.                 *)
(***************************************************************************)
EXTENDS Integers, FiniteSetsExt

CONSTANTS
    NumPieces,      \* numPieces_var: file_size / piece_size
    NumBlocks       \* numBlocks_var: piece_size / block_size

ASSUME NumPiecesAssumption == NumPieces \in Nat \ {0}
ASSUME NumBlocksAssumption == NumBlocks \in Nat \ {0}

Piece == 0 .. NumPieces - 1
Block == 0 .. NumBlocks - 1

(* The pieces and blocks available, the blocks asked for until the request  *)
(* is given up (and how many of each piece), and the counters.              *)
EmptyBitField ==
    [bitfield |-> {}, blockfield |-> {}, requested |-> {},
     currentlyRequested |-> [p \in Piece |-> 0],
     numRemainingPieces |-> NumPieces,
     numRemainingBlocks |-> NumPieces * NumBlocks,
     numNonRequestedNonAvailableBlocks |-> NumPieces * NumBlocks]

Decrement(n) == Max({n - 1, 0})

FreeBlocks(bf, p) == {b \in Block : <<p, b>> \notin bf.requested \cup bf.blockfield}

(* nextBlock, findNextBlock: the first block that is neither requested nor  *)
(* available, -1 if there is none.                                          *)
NextBlock(bf, p) == IF FreeBlocks(bf, p) = {} THEN -1 ELSE Min(FreeBlocks(bf, p))

IsPieceRequested(bf, p) == bf.currentlyRequested[p] > 0
HavePiece(bf)           == bf.numRemainingPieces < NumPieces
FinishedDownloading(bf) == bf.numRemainingBlocks = 0

(* What update(piece, block, expected) returns, on the object it leaves     *)
(* behind.                                                                  *)
Completes(bf, p) == NextBlock(bf, p) = -1 /\ bf.currentlyRequested[p] = 0

(* update(piece, block, expected): a block has arrived, with or without a   *)
(* request of this connection for it.  It is counted off every time.        *)
Update(bf, p, b, expected) ==
    LET got == [bf EXCEPT !.blockfield = @ \cup {<<p, b>>},
                          !.currentlyRequested[p] = IF expected THEN Decrement(@) ELSE @,
                          !.numRemainingBlocks = Decrement(@)]
    IN  IF Completes(got, p)
        THEN [got EXCEPT !.bitfield = @ \cup {p}, !.numRemainingPieces = Decrement(@)]
        ELSE got

(* setBlockRequested: a request for the block is made, or given up. *)
SetBlockRequested(bf, p, b, value) ==
    IF value
    THEN [bf EXCEPT !.requested = @ \cup {<<p, b>>},
                    !.currentlyRequested[p] = @ + 1,
                    !.numNonRequestedNonAvailableBlocks = Decrement(@)]
    ELSE [bf EXCEPT !.requested = @ \ {<<p, b>>},
                    !.currentlyRequested[p] = Decrement(@),
                    !.numNonRequestedNonAvailableBlocks = @ + 1]
=============================================================================
