SPECIFICATION FairSpec
CONSTANTS
  Demanders = {r1, r2}
  Others = {m}
  Parser = parser
  None = none
  MaxHandoffs = 4
  OvertakenCap = 4
INVARIANTS TypeOK DemandExact NoLostHandoff BoundedOvertaking
PROPERTIES RendererGetsTurn YieldReturns
