SPECIFICATION Spec
CONSTANTS
  Names = {cooking, baking}
  Hosts = {world, ml}
  Limit = 2
  MaxPosts = 1
  None = None
INVARIANT AddressIsPreferred
