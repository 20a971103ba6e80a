SPECIFICATION Spec
INVARIANT ChainIsComplete
