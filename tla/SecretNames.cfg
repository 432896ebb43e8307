SPECIFICATION Spec
CONSTANTS
    None = None
    Specs <- TwoSecrets
    ResourceNames = {"r"}
    Bodies = {"b"}
    Labels = {"app"}
    Keys = {"key"}
    Ports = {"http"}
    SecretNames = {"s1", "s2"}
    SecretValues <- MCSecretValues
    SliceNames = {"e1", "e2"}
    SliceValues <- MCSliceValues
    InitialClusters <- MCClusters
    MaxChanges = 2
    MaxRestarts = 1
INVARIANT SecretsKeepTheirNames
