SPECIFICATION Spec
CONSTANTS
  SeqNums <- MCSeqNums
  PayloadBytes = {0, 1, 128, 255}
  MaxPayload = 2
INVARIANTS ReadAsSentOrRejected AnswersNameTheirPacket
