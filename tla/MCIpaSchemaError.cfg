SPECIFICATION Spec
CONSTANTS
  Manifests <- MCManifests
  NoId = "null"
  EmptyId = ""
  Unkeyed = "unkeyed"
  None = None
INVARIANT SchemaErrorReported
