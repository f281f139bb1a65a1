SPECIFICATION Spec
CONSTANTS
  Absent = Absent
  Malformed = Malformed
  NoKey = NoKey
  AgentIds <- MCAgentIds
  KeyOf <- MCKeyOf
  Names <- MCNames
  GatewayKind <- MCGatewayKind
  Environments <- MCEnvironments
INVARIANT ReclaimReachesAgents
