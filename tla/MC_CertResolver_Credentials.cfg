SPECIFICATION Spec
INVARIANT CredentialsUsedWhenGiven
