SPECIFICATION Spec
CONSTANT Sources <- MCSources
INVARIANT SeparatorReturned
