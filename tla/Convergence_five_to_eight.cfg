SPECIFICATION Spec
CONSTANTS
  Node = {"form", "staple", "meat", "noodle-soup", "rice-bowl", "meat-grill", "noodle-rich"}
  Form = "form"
  Main <- MCMain
  Fine <- MCFine
  Ortho = {"spice", "texture"}
  MustOrtho = {"spice", "texture"}
  Spice = "spice"
  Bank <- MCBank
  MaxAskSteps = 5
  MaxHits = 2
  MinSteps = {3, 4}
INVARIANT
  LocalSessionsTakeFive
