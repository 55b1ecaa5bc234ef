SPECIFICATION Spec
INVARIANTS
  LockedMeansReleased
  LockCanUndo
  LabelsKeepHostId
  UnlockedMeansMounted
  HostIdRecoverable
  SecretsOnlyWhileUnlocked
PROPERTIES
  CommandEnds
  ImplementsSession
CONSTANTS
  ante = ante
  bina = bina
  anteId = anteId
  otherId = otherId
  imageId = imageId
  None = None
  BootId = imageId
  Hosts <- MCHosts
  PoolNames <- MCPoolNames
  Guids <- MCGuids
  LuksNames <- MCLuksNames
  Points <- MCPoints
  Ids <- MCIds
  NameOf <- MCNameOf
  HostId <- MCHostId
  FileSystems <- MCFileSystems
  ExtraPools <- MCExtraPools
  InitLabels <- MCInitLabels
  GoesOn = FALSE
