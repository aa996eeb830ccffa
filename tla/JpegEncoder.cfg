\* Two shots, one worker thread left behind, one size of thumbnail.
SPECIFICATION Spec
CONSTANTS
  Sizes = {0, 1}
  MainSizes = {1}
  MaxShots = 2
  Workers = {1}
  Requests <- MCRequests
  MainFailures = {"none", "try", "qbuf_dst", "error"}
  SubFailures = {"none", "error"}
  ThumbLengths <- MCThumbLengths
  MainLength = 5000
INVARIANTS EmbeddedIsOwn  QueuedTogether
CHECK_DEADLOCK FALSE
