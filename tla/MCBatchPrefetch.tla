---------------------------- MODULE MCBatchPrefetch ----------------------------
(***************************************************************************)
(* Instances of BatchPrefetch for TLC.  Two keys make a batch that half    *)
(* succeeds; three batches allow one lost, one resumed and one submitted.  *)
(***************************************************************************)
EXTENDS BatchPrefetch

CONSTANTS k1, k2

TwoKeys == {k1, k2}

\* Every invocation asks for the whole corpus.
WholeSet == {TwoKeys}

\* Invocations ask for different sets (--set anchors, then --set training).
DifferentSets == {{k1}, {k2}}

===============================================================================
