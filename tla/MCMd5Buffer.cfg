\* Two messages of up to ten bytes, in chunks of every size.
SPECIFICATION Md5Spec
CONSTANTS
  BlockLen = 4
  LenLen = 2
  MaxBytes = 10
  MaxMessages = 2
INVARIANT DigestOfOwnBytes
PROPERTY DigestRepeats
