SPECIFICATION MediaSpec
CONSTANTS v1 = v1 a = a i = i j = j o = o rv = rv ra = ra rn = rn sv = sv sa = sa x = x y = y
CONSTANTS node = node dev = dev src = src ia = ia ib = ib ic = ic oa = oa ob = ob oc = oc
CONSTANTS NoInput = NoInput NoSender = NoSender
CONSTANTS Attempts = 2  Reads = 2  Tries = 3  Collection = 3  WsTimeout = 2  Auth = TRUE  Posts = 20
CONSTANTS Sender = {v1, a}  Video = {v1}  BaseEdid = {i}
CONSTANTS MediaInput = {i, j, k}  Connected = {i, j}  Edid = {i, j}  Base = {i, j}  Adjust = {j}
CONSTANTS Receiver = {rv, ra, rn}  Output = {o}  Rtp = {v1, rv}
CONSTANTS Sources = {ea, eb}  Uris = {ua, ub}  MqttSources = {ma, mb}  Statusless = {mb}
CONSTANTS ReplyTime = 2  Slack = 2
CONSTANT InputsOf <- MCInputsOf
CONSTANT OutputsOf <- MCOutputsOf
CONSTANT FormatOf <- MCFormatOf
CONSTANT RefSender <- MCRefSender
CONSTANT PortSenders <- MCPortSenders
CONSTANT PortReceivers <- MCPortReceivers
CONSTANT Allowed <- MCAllowed
CONSTANT UpdatedSenders <- MCUpdatedSenders
CONSTANT UpdatedReceivers <- MCUpdatedReceivers
CONSTANT Types <- MCTypes
CONSTANT Parent <- MCParent
CONSTANT MapInputs <- MCMapInputs
CONSTANT MapOutputs <- MCMapOutputs
CONSTANT Width <- MCWidth
CONSTANT BlockSize <- MCBlockSize
CONSTANT Reorders <- MCReorders
CONSTANT Routable <- MCRoutable
INVARIANTS MediaTypeOK ConformingDevicesPass MistakesAreFound NothingIsLeft
PROPERTIES ActivationIsAwaited StreamsAreReceived
CHECK_DEADLOCK FALSE
