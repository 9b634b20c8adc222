----------------------------- MODULE TickLedger -----------------------------
(***************************************************************************)
(* What the tick path has written down and promises about it: the raw file *)
(* holds what went on to the cleaner, and the backend gets no tick twice.  *)
(***************************************************************************)
EXTENDS Integers, FiniteSets, SequencesExt

CONSTANT HistoryLimit    \* history_limit of the duplicate validator

VARIABLES
    prints,      \* fingerprint of every tick that arrived
    rawFile,     \* the raw file
    broadcast,   \* history: ticks given to the backend, in order
    offered      \* history: ticks that entered the cleaner queue

\* "Raw truth must never be lost": what goes on to the cleaner is in the raw
\* file (write_batches_by_partition comes before the forwarding).
RawKept == offered \subseteq ToSet(rawFile)

\* A fingerprint is broadcast again only after the duplicate history has
\* seen enough others to forget it (_is_duplicate, _remember).
NoRepeat ==
    \A i, j \in ToSet(broadcast) :
        i < j /\ prints[i] = prints[j]
          => Cardinality({prints[k] : k \in offered \cap (i + 1)..(j - 1)} \ {prints[i]})
               >= HistoryLimit
=============================================================================
