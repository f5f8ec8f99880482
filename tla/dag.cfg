SPECIFICATION FairSpec
CONSTANTS
  Names <- MCNames
  Members <- MCMembers
  Specs <- MCSpecs
  RoleOrder <- MCRoleOrder
  Jobs <- MCJobs
  None = None
INVARIANTS
    NodesAsMeant
    InputsExist
PROPERTIES
    EveryTaskRuns
CHECK_DEADLOCK FALSE
