SPECIFICATION Spec
CONSTANTS
  Blocks <- MCBlocks
  Genesis = "g"
  NoBlock = "none"
  Prev <- MCPrev
  Height <- MCHeight
  CumDiff <- MCCumDiff
  Contribution <- MCContribution
  Sound <- MCSound
INVARIANT TemplateHeightValid
