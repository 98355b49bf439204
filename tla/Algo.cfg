SPECIFICATION Spec
INVARIANTS RoundTrip TxSizesRight OwnersCanSpend OnlyOwnersSpend OpcodesAlike MerkleProves PicksCover RouteIsBest
CHECK_DEADLOCK FALSE
