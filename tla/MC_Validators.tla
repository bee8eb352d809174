---------------------------- MODULE MC_Validators ----------------------------
EXTENDS Validators

\* The limits tried: around zero, which swag.IsZero treats as absent, and
\* around the schema's Maximum: 10000.
MCLimitValues == {-1, 0, 1, 10000, 10001}

\* Lists of up to two nested models: an invalid element after a nil one,
\* and two invalid elements.
MCMaxListLen == 2

\* Reused receivers: a zero one, and one whose every field is set, so that
\* any field the decoder failed to overwrite would show its stale value.
MCOldAttempts ==
    {Zero,
     [containerInstanceARN |-> "c", createdAt |-> "sub", exitCode |-> 1,
      reason |-> "r", startedAt |-> "ms", stoppedAt |-> "sub", taskARN |-> "t"]}
=============================================================================
