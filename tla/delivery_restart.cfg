\* One task of the direct mode in two versions; a crash leaves its answer and its marks behind.
SPECIFICATION MCSpec
CONSTANTS
  t1 = t1  w1 = w1
  Tasks = {t1}
  Workers = {w1}
  Mode = "direct"
  QueueLimit = 1
  Environment = {"crash", "edit", "operator", "update"}
  MaxVersion = 2
  MaxEvents = 2
PROPERTIES
  OutcomeIsAnnounced
\* A task whose outcome is announced leaves nothing to do.
CHECK_DEADLOCK FALSE
