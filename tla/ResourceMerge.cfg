SPECIFICATION MonitorSpec
CONSTANTS
  post = post
  put = put
  get = get
  json = json
  text = text
  Threads = {t1, t2}
  Trackers = {t1, t2}
  Operations = {post, put, get}
  ResourceOps = {post, put, get}
  StatusCodes = {"200", "404"}
  Success = {"200"}
  Wildcard <- MCWildcard
  Default = "default"
  MediaTypes = {json, text, octets}
  OctetStream = octets
  Facts <- MCFacts
  NoMedia = noMedia
  Declared <- MCDeclared
  Absent = absent
  NoSchema = noSchema
  NoThread = noThread
  Role <- MCRole
  Suggested <- MCSuggested
  IdentityChoices = {{"id"}, {"name"}}
  StateNames = {"open", "closed"}
  Null = null
  Unknown = unknown
  TypeOf <- MCTypeOf
  Responses <- MCResponses
  MaxResponses = 3
SYMMETRY ThreadSymmetry
PROPERTIES
  MissingPropertiesStay
CHECK_DEADLOCK FALSE
