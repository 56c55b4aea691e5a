SPECIFICATION MCSpec
CONSTANTS
  Scenes = {"screen"}
  Users = {u1, u2}
  NoUser = no
  Requests = {r1, r2}
  Emails = {e1}
  Passwords = {p1, p2}
  NoPassword = no
  Logins = {g1, g2}
  MaxUsers = 1
  MaxVersion = 1
  MaxAttempts = 1
  Clients = {c1}
  MaxCodes = 1
  MaxTokens = 3
  MaxDevices = 2
  Names = {n1, n2}
  Outcomes = {"ok"}
  MaxRows = 2
  MaxSaves = 2
  Handoffs = 2
  Voices = 2
  MaxHandoffs = 1
  HeldTokens = {t1}
  Calls = {1, 2}
  Ttl = 1
  Deadline = 2
  Places = {a}
  Home = h
  Unknown = u
  InboxSize = 2
  FlightTicks = 1
  HoldTicks = 2
  IdleTicks = 2
  BurstTicks = 1
  VoiceTicks = 2
  Envelopes = 2
  Deaths = 1
  Controls = {k1, k2}
  Secrets = {k2}
  Empty = no
  Windows = {w1, w2}
  Slots = {1, 2}
  Actions = 2
  Changes = 1
  k1 = k1
  k2 = k2
  w1 = w1
CHECK_DEADLOCK FALSE
INVARIANT StagedRenormalizes
