\* One connection and pages of one record.
CONSTANTS
  MaxConns = 1
  MaxPublished = 3
  BacklogLimit = 1
  MaxBuffered = 2
SPECIFICATION StreamSpec
INVARIANTS NoRecordIsDropped
