-------------------------- MODULE MCImageProcessing -------------------------
(* Finite instances of ImageProcessing. *)
EXTENDS ImageProcessing, TLC

CONSTANTS p1, p2, w1, w2

OnePhoto == {p1}
TwoPhotos == {p1, p2}
OneWorker == {w1}
TwoWorkers == {w1, w2}
OneMode == {"white"}
=============================================================================
