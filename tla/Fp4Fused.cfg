SPECIFICATION Spec
CONSTANT Kernels <- PersistentKernels
INVARIANT TakesWhatIsMeant
