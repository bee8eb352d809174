SPECIFICATION Spec
\* One handler invocation per behaviour: it returns and the behaviour ends.
CHECK_DEADLOCK FALSE
INVARIANT NotFoundSurfaced
