------------------------- MODULE MCUploadAdmission -------------------------
EXTENDS UploadAdmission, TLC

\* Neither workers nor documents are told apart by the specification.
FullSymmetry == Permutations(Workers) \cup Permutations(Docs)

\* Bound: either a worker is killed or a job that was done is queued again, not both.
OneMishap == crashes + revived <= 1
=============================================================================
