SPECIFICATION Spec
CONSTANT Kernels <- MCKernels
INVARIANTS EveryTileStored StoresWhatIsExpected TakesWhatIsMeant OncePerGeneration SignalsFollowStores BarriersDrained
