\* Files are edited, damaged and deleted, a profile that is not active is
\* deactivated, Core or the device restarts.
SPECIFICATION FairSpec
CONSTANTS
  Radio = {"wlan0", "wlan1"}
  Display = {"sta0", "lab1"}
  Netns = {"ns_a"}
  Root = "root"
  None = "none"
  Profile = {"default", "A"}
  Default = "default"
  Version = {"d", "a", "bad"}
  Invalid = {"bad"}
  Layout <- OneLayout
  Factory <- OneProfile
  Budgets <- Files
PROPERTY ChangesEnd
