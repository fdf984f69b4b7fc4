\* Alternative mixes of two or three disturbances: failing commands, tools,
\* replugged radios, restarts, edits, deactivations of other profiles.
SPECIFICATION Spec
CONSTANTS
  Radio = {"wlan0", "wlan1"}
  Display = {"sta0", "lab1"}
  Netns = {"ns_a"}
  Root = "root"
  None = "none"
  Profile = {"default", "A", "B"}
  Default = "default"
  Version = {"d", "a", "b", "bad"}
  Invalid = {"bad"}
  Layout <- MCLayout
  Factory <- MCFactory
  Budgets <- Mixes
INVARIANTS
  SystemFollowsProfile
  CurrentIsSetUp
  NoRadioLost
PROPERTIES
  FailedActivationHandsBack
  LeavesToolsAlone
