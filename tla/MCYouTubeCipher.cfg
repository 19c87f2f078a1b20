\* Players of the three generations, regular and odd ones, and five signature blobs.
CONSTANTS
  Absent = Absent
  Words = 16
  SearchBound = 8
  Xor <- MCXor
  Tokens = {"ks", "kw", "kr", "splice", "reverse", "t"}
  Idents = {"X", "Y"}
  Chars = {"a", "b", "c", "d", "e"}
  Keys = {"id", "flag", "sig", "signature", "ratebypass"}
  Players <- MCPlayers
  Ciphers <- MCCiphers
SPECIFICATION CipherSpec
INVARIANTS
  CipherTypeOK
  NeverGuesses
  PlaysTheRealSignature
