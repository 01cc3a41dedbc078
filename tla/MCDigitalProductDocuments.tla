---------------------- MODULE MCDigitalProductDocuments ----------------------
(* Small instances of DigitalProductDocuments for TLC. *)
EXTENDS DigitalProductDocuments, TLC

\* Requests are interchangeable: nothing but their progress tells them apart.
Symmetry == Permutations(Requests)

=============================================================================
