SPECIFICATION FairSpec
CONSTANTS
  r1 = r1
  r2 = r2
  r3 = r3
  Requests = {r1, r2, r3}
  NoToken = NoToken
  FailuresToOpen = 2
  Cooldown = 3
  FailureWindow = 2
  Window <- MCWindow
INVARIANT TypeOK
PROPERTIES OneProbeAtATime CooldownNeverSlides OnlyTheProbeCloses NeverLockedOut
