SPECIFICATION Spec
INVARIANT TypeOK
INVARIANT DeviceKeypairUsed
INVARIANT SkipVerifyOnlyWhenRequestedOrDegraded
