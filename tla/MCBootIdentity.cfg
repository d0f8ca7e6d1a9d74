\* Eight boots, torn everywhere, and the counter used up.
SPECIFICATION SetupSpec
CONSTANT MaxBoot = 8
INVARIANT Remembered
PROPERTY BootsDiffer
