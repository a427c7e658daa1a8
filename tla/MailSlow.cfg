\* Two workers, two emails, deliveries that may outlast their lock.
CONSTANTS
  e1 = e1
  e2 = e2
  w1 = w1
  w2 = w2
  NoMail = NoMail
  Emails = {e1, e2}
  Workers = {w1, w2}
  MaxAttempts = 2
  SlowSends = TRUE
  MaxFaults = 2
SPECIFICATION Spec
INVARIANT OneSender
