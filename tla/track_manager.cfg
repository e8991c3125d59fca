SPECIFICATION Spec
CONSTANTS
  MaxTracks = 3
  ConfirmHits = 2
  DeleteMisses = 2
  ConfirmedDeleteMisses = 3
  Window = 2
  UseEoir = TRUE
INVARIANTS
  TypeOK
  NoTrackOutlivesSilence
  EventsFollowTracks
  DeletedAreRemembered
PROPERTIES
  OnlySilenceDeletes
  ImplementsLifecycle
