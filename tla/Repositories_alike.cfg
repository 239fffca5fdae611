\* Two rows of each table, and the calls to both repositories.
CONSTANTS
  MaxId = 2
  Areas <- MCAreas
SPECIFICATION Spec
INVARIANTS SameAnswers SameReads LinksAreLive
CHECK_DEADLOCK FALSE
