------------------------------ MODULE DigestTable ------------------------------
(***************************************************************************)
(* The aegis/digest table (engine/recursion/src/digest.rs): the one row    *)
(* that makes a value computed in a circuit a public value of its proof.   *)
(* Its main columns are the coefficients of the digest, free for a prover  *)
(* to choose; its preprocessed columns <<index, multiplicity>> for each    *)
(* digest element and the flag of a real row are fixed by the circuit.  A  *)
(* receive on the WitnessChecks bus ties each group of columns to a        *)
(* witness, which the table that computes it sends as often as it is read. *)
(***************************************************************************)
EXTENDS Integers, Sequences, SequencesExt, FiniteSets

CONSTANTS
  DIGEST_EF,   \* extension elements of a digest
  D,           \* extension degree
  MinHeight,   \* rows of the padded table
  Field        \* base field values

Elements == 1 .. DIGEST_EF
DIGEST_LIMBS == DIGEST_EF * D

\* A witness is the coefficients of an extension element; the digest's elements
\* are witnesses 1 .. DIGEST_EF.
Witness == [Elements -> [1 .. D -> Field]]
Row == [1 .. DIGEST_LIMBS -> Field]
Rows == 1 .. MinHeight

Group(row, e) == [j \in 1 .. D |-> row[(e - 1) * D + j]]

\* The executor's row: the base coefficients of the digest's witnesses.
Execute(w) == [i \in 1 .. DIGEST_LIMBS |-> w[((i - 1) \div D) + 1][((i - 1) % D) + 1]]

ZeroRow == [i \in 1 .. DIGEST_LIMBS |-> 0]

\* The main trace, padded with zeros.
TraceToMatrix(row) == [r \in Rows |-> IF r = 1 THEN row ELSE ZeroRow]

\* Mutant: the flag of the real row is left at its placeholder.
UnflaggedRow ==
  [idx |-> [e \in Elements |-> e], mult |-> [e \in Elements |-> -1], is_real |-> 0]

\* The committed columns: one real row, a reader of each witness; padding is zero.
PreprocessedRow ==
  [idx |-> [e \in Elements |-> e], mult |-> [e \in Elements |-> -1], is_real |-> 1]
PaddingRow ==
  [idx |-> [e \in Elements |-> 0], mult |-> [e \in Elements |-> 0], is_real |-> 0]
Preprocessed == [r \in Rows |-> IF r = 1 THEN PreprocessedRow ELSE PaddingRow]

\* The executor registers one read of each witness: the sender's multiplicity.
RegisteredReads == [e \in Elements |-> 1]

\* eval: the receives of the table, as <<row, element>>, and what each names.
Receives == {<<r, e>> \in Rows \X Elements : Preprocessed[r].mult[e] # 0}
Received(matrix, at) == <<Preprocessed[at[1]].idx[at[2]], Group(matrix[at[1]], at[2])>>

\* Every tuple is received as often as it is sent.
BusBalanced(w, matrix) ==
  LET sent == {<<e, w[e]>> : e \in Elements}
      got == {Received(matrix, at) : at \in Receives}
      times(t) == Cardinality({at \in Receives : Received(matrix, at) = t})
  IN  /\ got \subseteq sent
      /\ \A e \in Elements : times(<<e, w[e]>>) = RegisteredReads[e]

\* eval: the public values equal the main columns of a real row.
PublicsBound(matrix, publics) ==
  \A r \in Rows : \A j \in 1 .. DIGEST_LIMBS :
    Preprocessed[r].is_real * (matrix[r][j] - publics[j]) = 0

Accepts(w, matrix, publics) == BusBalanced(w, matrix) /\ PublicsBound(matrix, publics)

================================================================================
