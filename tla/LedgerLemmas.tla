---------------------------- MODULE LedgerLemmas ----------------------------
(***************************************************************************)
(* Facts about histories kept as sequences, for the proofs that the two    *)
(* replay checks implement OnceLedger.                                     *)
(***************************************************************************)
EXTENDS Integers, Sequences, SequenceTheorems, TLAPS

(* A function on 1..n is a sequence of length n.                           *)
LEMMA FunctionIsSequence ==
  ASSUME NEW S, NEW n \in Nat, NEW f \in [1..n -> S]
  PROVE  f \in Seq(S) /\ Len(f) = n
  OBVIOUS

(* The entry-by-entry image of an empty history is the empty log.          *)
LEMMA EmptyImage ==
  ASSUME NEW f, f = [i \in 1..0 |-> f[i]]
  PROVE  f = << >>
  <1>1. f \in [1..0 -> {}]
    OBVIOUS
  <1>2. f \in Seq({}) /\ Len(f) = 0
    BY <1>1, FunctionIsSequence
  <1> QED BY <1>2

(* The image of a history that grew by one entry is the log grown by one.  *)
LEMMA GrownImage ==
  ASSUME NEW S, NEW n \in Nat, NEW f \in [1..n -> S],
         NEW g \in [1..(n + 1) -> S], \A i \in 1..n : g[i] = f[i]
  PROVE  g = Append(f, g[n + 1])
  <1>1. f \in Seq(S) /\ Len(f) = n /\ g \in Seq(S) /\ Len(g) = n + 1
    BY FunctionIsSequence
  <1>2. g[n + 1] \in S
    OBVIOUS
  <1>3. /\ Append(f, g[n + 1]) \in Seq(S)
        /\ Len(Append(f, g[n + 1])) = n + 1
        /\ \A i \in 1..n : Append(f, g[n + 1])[i] = f[i]
        /\ Append(f, g[n + 1])[n + 1] = g[n + 1]
    BY <1>1, <1>2, AppendProperties
  <1>4. \A i \in 1..(n + 1) : g[i] = Append(f, g[n + 1])[i]
    BY <1>3
  <1> QED BY <1>1, <1>3, <1>4, SeqEqual
=============================================================================
