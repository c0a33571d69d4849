SPECIFICATION tags_Spec
CONSTANT Directory <- AnyDirectories
INVARIANT NewestFirst
CHECK_DEADLOCK FALSE
