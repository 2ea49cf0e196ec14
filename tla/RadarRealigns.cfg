\* Bytes of two bits, of which 0xAA and 0x55 keep 2 and 1; payloads of two bytes.
CONSTANTS
  Bytes = {0, 1, 2, 3}
  Head1 = 2
  Head2 = 1
  PayloadLength = 2
  Checksum <- XorOfBytes
  NoFrame = NoFrame
SPECIFICATION FairSpec
PROPERTY RadarRealigns
