SPECIFICATION StoreSpec
CONSTANTS
  Tenants <- MCTenants
  DefaultTenant = "default"
  NoTenant = ""
  Stores = {TRUE, FALSE}
  Bodies <- MCBodies
  DemoPolicy <- MCDemoPolicy
  Inputs <- MCInputs
  MaxId = 4
  MaxRestarts = 1
INVARIANTS StoreTypeOK EvaluateFollowsRules
PROPERTIES TenantsDecideAlone IdsNameOnePolicy
CHECK_DEADLOCK FALSE
