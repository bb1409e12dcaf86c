---------------------------- MODULE MCThreadPool ----------------------------
\* The constants are given in the .cfg; there is no symmetry set, because the
\* run checks liveness too.
EXTENDS ThreadPool
=============================================================================
