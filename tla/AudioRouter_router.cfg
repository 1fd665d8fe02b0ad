\* All four modes, both sources failing and coming back, a crossfade longer
\* than a frame (30 ms against 20 ms), one control message per frame.
CONSTANTS
  ArmFrames = 1
  LostFrames = 1
  FadeLen = 3
  FrameLen = 2
  Modes = {"ModeAuto", "ModePhoneOnly", "ModeLocalOnly", "ModeMute"}
  MayFail = {"local", "phone"}
  MaxPosts = 1
SPECIFICATION FairSpec
INVARIANTS ModeConfinesState MixFollowsState WatchdogBound FadesAreFed
PROPERTIES ModeHonouredInGains ArmingEnds FailsBack SwitchesAsPromised
