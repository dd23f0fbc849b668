------------------------ MODULE MCConditionVariable -------------------------
\* The instance of ConditionVariable that TLC checks.
EXTENDS ConditionVariable, TLC
=============================================================================
