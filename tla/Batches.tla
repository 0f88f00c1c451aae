------------------------------ MODULE Batches ------------------------------
(***************************************************************************)
(* The batches of one node and the JSON file that holds them: an object    *)
(* keyed by an index, of records with the batch and the block that         *)
(* executes it.  Every script loads the whole file into its memory, and    *)
(* writes its whole copy back.                                             *)
(***************************************************************************)
EXTENDS Naturals, Sequences

CONSTANTS
    N,        \* batches 1..N, in the order in which they are produced
    Tx,       \* the transactions
    Txs,      \* the transactions of each batch
    NoBlock   \* the blockhash of a batch that is not executed: null

(***************************************************************************)
(* A block is named by its hash, which covers its ancestry: it is the      *)
(* sequence of the sets of transactions of the blocks from the first one   *)
(* after genesis to itself.  Genesis is << >>, and the height of a block   *)
(* its length.  Two blocks that differ in timestamp only are one here.     *)
(***************************************************************************)
Block == Seq(SUBSET Tx)

ASSUME BatchesAssumption ==
    /\ N \in Nat
    /\ Txs \in [1..N -> SUBSET Tx]
    /\ NoBlock \notin Block

VARIABLES
    file,     \* the content of the batch file
    replaced  \* whether a new file took its place since it was last opened

disk == <<file, replaced>>

Record == [batch : 1..N, block : Block \cup {NoBlock}]

(***************************************************************************)
(* No record.  Every loader makes this of a file that is missing, torn or  *)
(* otherwise unreadable, so it is also what a torn file is.                *)
(***************************************************************************)
Empty == [k \in {} |-> NoBlock]

(***************************************************************************)
(* The two ways to save.  Some scripts write a new file and put it in the  *)
(* place of the old one (os.replace).  The others open the file itself,    *)
(* which empties it, and write it then: in between anybody may load it, or *)
(* replace it, and then the write is lost; the content of two scripts that *)
(* write at once is unreadable or the last one's.                          *)
(***************************************************************************)
Replace(f) == file' = f /\ replaced' = TRUE

Truncate == file' = Empty /\ replaced' = FALSE

Write(f) ==
    /\ file' \in IF replaced THEN {file} ELSE IF file = Empty THEN {f} ELSE {f, Empty}
    /\ UNCHANGED replaced

Put(f, k, r) == [i \in DOMAIN f \cup {k} |-> IF i = k THEN r ELSE f[i]]

NewRecord(b) == [batch |-> b, block |-> NoBlock]

\* max(int(k) for k in keys) + 1, or the given key for an empty object.
next_index(f, first) ==
    IF DOMAIN f = {} THEN first
    ELSE 1 + (CHOOSE k \in DOMAIN f : \A i \in DOMAIN f : i <= k)

\* The keys of the batches without a blockhash.
Pending(f) == {k \in DOMAIN f : f[k].block = NoBlock}

\* The set of the least element of a set of numbers.
Least(S) == {k \in S : \A i \in S : k <= i}

IsFile(f) ==
    /\ DOMAIN f \subseteq Nat
    /\ \A k \in DOMAIN f : f[k] \in Record
    /\ DOMAIN f # {} => \E m \in DOMAIN f : \A k \in DOMAIN f : k <= m

\* The first n batches of the order, at the keys 0..n-1.
IsPrefix(f) ==
    \E n \in 0..N : DOMAIN f = 0..(n - 1) /\ \A k \in DOMAIN f : f[k].batch = k + 1
=============================================================================
