\* A restart between the creation of a namespace and its marker.
SPECIFICATION Spec
CONSTANTS
  Radio = {"wlan0", "wlan1"}
  Display = {"sta0", "lab1"}
  Netns = {"ns_a"}
  Root = "root"
  None = "none"
  Profile = {"default", "A", "B"}
  Default = "default"
  Version = {"d", "a", "b", "bad"}
  Invalid = {"bad"}
  Layout <- MCLayout
  Factory <- MCFactory
  Budgets <- OneCrash
INVARIANT SupplicantsAreStopped
