CONSTANTS
  UsizeModulus = 256
  Senders = {"js", "rust"}
  MaxPad = 3
  MaxText = 2
  NSigneds = {0, 1, 2}
  OtherBytes <- BoundaryBytes
  None = None
SPECIFICATION Spec
INVARIANT DecodersAgree
INVARIANT SectionsTile
INVARIANT RoundTrip
INVARIANT CutDetected
