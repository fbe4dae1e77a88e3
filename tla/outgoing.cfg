SPECIFICATION Spec
CONSTANTS
  Bits = 4
  Moduli = {7, 11, 13, 17}
  Hashed = {3, 9}
  KeyLists <- SomeKeyLists
  AddressLists <- SomeAddressLists
  MaxUnlocks = 2
  Addrs = {a1, a2}
  Recipients <- SomeRecipients
  MaxEncrypts = 2
  MaxAttKeys = 2
  Texts <- SomeTexts
  Strangers <- SomeStrangers
CHECK_DEADLOCK FALSE
SYMMETRY AddressSymmetry
INVARIANTS
  TypeOK
  SessionsAgree
  TypeAndKeys
  BodyReadable
  AttachmentReadable
  EncryptedToBestKey
  CardVerdictRight
PROPERTIES
  RingIsExact
