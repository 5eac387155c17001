SPECIFICATION FairSpec
CONSTANTS
  Clients = {c1}
  Inherit = {TRUE, FALSE}
PROPERTIES OrphanExits
CHECK_DEADLOCK FALSE
