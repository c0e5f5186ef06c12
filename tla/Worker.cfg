CONSTANTS
    Files = {"f"}
    Specs <- ThreeSpecs
    MaxToolCalls = 2
SPECIFICATION Spec
INVARIANTS AgentTypeOK EffectsAreAllowed ContainerIsClaimed ToldGoneIsGone StopTakesHold FreezeTakesHold CallsAreCharged HonestPass
PROPERTIES AgentEnds
CHECK_DEADLOCK FALSE
