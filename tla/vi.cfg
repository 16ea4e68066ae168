\* A text of seven characters on a screen of two lines of three; the last line
\* takes three keys, as many as the commands of the code have.
CONSTANTS
  BUFFER_SIZE = 7
  ROW_LEN = 2
  COLUMN_LEN = 3
  Letter = {"a"}
  Files <- Contents
  MaxInst = 3
SPECIFICATION Spec
INVARIANTS CursorInText CursorOnScreen
PROPERTIES RoundTrip
CHECK_DEADLOCK FALSE
