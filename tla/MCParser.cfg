\* Escape sequences of up to four bytes and text of up to five, cut anywhere.
CONSTANTS
  Bytes <- Controls
  Utf8Bytes <- Letters
  MaxBytes = 4
  MaxUtf8Bytes = 5
SPECIFICATION Spec
INVARIANTS SameAsWhole Utf8SameAsWhole Cancelled
CHECK_DEADLOCK FALSE
