---------------------------- MODULE MCWriteBack ----------------------------
EXTENDS WriteBack, TLC

WriterSymmetry == Permutations(Writers)
============================================================================
