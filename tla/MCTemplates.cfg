SPECIFICATION Spec
CONSTANTS
  k1 = k1
  k2 = k2
  None = None
  Keys = {k1, k2}
  Specs <- AllSpecs
  Edits <- LaterSpecs
  MaxEdits = 1
  MaxDepth = 3
  UsesClientSecret <- TemplateUsesClientSecret
  Rendered <- RenderedBy
INVARIANTS
  TameEntriesRetained
  IndependentEntriesRefreshed
  OmissionIsJudged
PROPERTIES
  RenderingIsAtomic
CHECK_DEADLOCK FALSE
