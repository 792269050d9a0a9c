\* Two messages; the second is recalled while it is answered, and a third one asked.
SPECIFICATION Spec
CONSTANTS
  Environment = {"recall"}
  MaxMessages = 3
  MaxEvents = 2
INVARIANTS
  OnlyAcceptedTurns
\* The owner need not write again.
CHECK_DEADLOCK FALSE
