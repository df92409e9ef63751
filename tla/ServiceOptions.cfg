\* One client, one worker: what the comment on the socket's options says.
CONSTANTS
  AcceptCount = 1
  Workers = {w1}
  ConnectCount = 1
  NoClient = 0
SPECIFICATION Spec
INVARIANT
  NagleDisabled
