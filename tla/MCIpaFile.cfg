SPECIFICATION Spec
CONSTANTS
  Manifests <- MCManifests
  NoId = "null"
  EmptyId = ""
  Unkeyed = "unkeyed"
  None = None
INVARIANTS
  RoundTrip
  OpenSeesBuilt
  RefusedOnlyFor
  HarmOnlyDisturbed
