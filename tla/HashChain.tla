----------------------------- MODULE HashChain -----------------------------
(***************************************************************************)
(* The hash chain of an op stream (op_stream/hash_chain.py): how a record  *)
(* is sealed and how verify_chain walks a sequence of records.             *)
(*                                                                         *)
(* A SHA-256 digest of previous_hash + "|" + payload is modelled by its    *)
(* pre-image: a digest is the sequence of the <<sequence, payload>> pairs  *)
(* it was computed over, genesis is the empty one.  Two digests are equal  *)
(* exactly when their pre-images are (no collisions), which is the         *)
(* standing assumption of every hash chain.  The payload stands for the    *)
(* op together with its timestamp, actor, prompt id and result envelope,   *)
(* all of which compute_hash folds in.                                     *)
(***************************************************************************)
EXTENDS Integers, Sequences, FiniteSetsExt

CONSTANT Payload

Digest == Seq(Nat \X Payload)

\* "0" * 64: the previous_hash of every stream's record 1.
Genesis == << >>

\* The digest of a record; the payload folds the 0-based index.
ComputeHash(previousHash, payload, sequence) ==
    Append(previousHash, <<sequence - 1, payload>>)

OpRecord == [seq : Nat \ {0}, prev : Digest, hash : Digest, op : Payload]

\* An OpRecord whose hash is the one its own fields give.
Sealed(sequence, previousHash, payload) ==
    [seq  |-> sequence,
     prev |-> previousHash,
     hash |-> ComputeHash(previousHash, payload, sequence),
     op   |-> payload]

(***************************************************************************)
(* verify_chain: the loop stops at the first record that violates one of   *)
(* three checks, made in this order.  Before that record every stored hash *)
(* was the expected previous hash of the next one, so the loop variables   *)
(* are functions of the index: expected_sequence is i and previous_hash    *)
(* the hash stored at i - 1.                                               *)
(***************************************************************************)
ExpectedPrevious(records, i) == IF i = 1 THEN Genesis ELSE records[i - 1].hash

OutOfOrder(records, i) == records[i].seq # i

\* Mutant: the link a record states is taken for granted.
PreviousHashTaken(records, i) == FALSE
PreviousHashMismatch(records, i) ==
    records[i].prev # ExpectedPrevious(records, i)

HashMismatch(records, i) ==
    LET r == records[i] IN r.hash # ComputeHash(r.prev, r.op, r.seq)

Violations(records) ==
    {i \in DOMAIN records : \/ OutOfOrder(records, i)
                            \/ PreviousHashMismatch(records, i)
                            \/ HashMismatch(records, i)}

Clean(records) == Violations(records) = {}

VerifyChain(records) ==
    IF Clean(records) THEN [at |-> 0, error |-> "None"]
    ELSE LET i == Min(Violations(records)) IN
         [at |-> i,
          error |-> CASE OutOfOrder(records, i) -> "OutOfOrder"
                      [] ~OutOfOrder(records, i)
                           /\ PreviousHashMismatch(records, i)
                           -> "PreviousHashMismatch"
                      [] OTHER -> "HashMismatch"]
=============================================================================
