\* An edit while the profile is being activated.
SPECIFICATION Spec
CONSTANTS
  Radio = {"wlan0", "wlan1"}
  Display = {"sta0", "lab1"}
  Netns = {"ns_a"}
  Root = "root"
  None = "none"
  Profile = {"default", "A", "B"}
  Default = "default"
  Version = {"d", "a", "b", "bad"}
  Invalid = {"bad"}
  Layout <- MCLayout
  Factory <- MCFactory
  Budgets <- OneEdit
INVARIANT ActiveIsNotEdited
