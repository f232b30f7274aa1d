------------------------------- MODULE AppIds -------------------------------
\* What the modules about the files kept for apps have in common.
CONSTANTS Apps,
          MayFail   \* whether the power and the calls on the file systems may fail

ASSUME AppIdsAssumption == MayFail \in BOOLEAN
=============================================================================
