CONSTANT NUM_BUCKETS = 5
SPECIFICATION Spec
INVARIANTS IncrementallyFurther VisitsAll RepeatsOnlyFirst
CHECK_DEADLOCK FALSE
