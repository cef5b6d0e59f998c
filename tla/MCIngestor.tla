----------------------------- MODULE MCIngestor -----------------------------
(* Model-checking instances of Ingestor.                                    *)
EXTENDS Ingestor, TLC

CONSTANTS u1, u2

\* Ids are ULIDs: the keys are in the order of the requests.
KeyOrder == u1 :> 1 @@ u2 :> 2

\* Upload requests are interchangeable where a page holds all their files, and
\* so are cycles of the same kind.
Symmetry == Permutations(Upload) \cup Permutations(Reconciler)

\* The first of the two files is a JPEG, which a reconciler may recover; the
\* second is the same file, or another that is none.
LiveInit == Init /\ content[u1] \in Jpeg

LiveSpec == LiveInit /\ [][Next]_vars /\ Fairness

=============================================================================
