SPECIFICATION Spec
CONSTANTS
  NoValue = NoValue
  Garbage = Garbage
  ToSign = ToSign
  Key = Key
  Hash = Hash
  Signature = Signature
  NoPassword = NoPassword
  Slack = 2
  PasswordMax <- MCPasswordMax
  TokenLengths <- MCTokenLengths
  Components <- MCComponents
  Known <- MCKnown
  Rooms <- MCRooms
  Packets <- MCPackets
INVARIANTS
  SentTokenIsWhole
  ReadsWhatIsThere
  PublishedAcknowledges
