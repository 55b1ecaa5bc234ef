SPECIFICATION KillSpec
INVARIANTS
  LockUndoesAll
CONSTANTS
  ante = ante
  bina = bina
  anteId = anteId
  otherId = otherId
  imageId = imageId
  None = None
  BootId = imageId
  Hosts <- MCHosts
  PoolNames <- OnePoolName
  Guids <- OneGuid
  LuksNames <- MCLuksNames
  Points <- OnePoint
  Ids <- MCIds
  NameOf <- OneNameOf
  HostId <- MCHostId
  FileSystems <- FewFileSystems
  ExtraPools <- NoExtraPools
  InitLabels <- OneInitLabel
  GoesOn = TRUE
