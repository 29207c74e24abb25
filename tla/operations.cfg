SPECIFICATION MCSpec
CONSTANTS
  j1 = j1
  render = render
  download = download
  cleanup = cleanup
  v1 = v1
  v2 = v2
  Job = {j1}
  JobOf <- Jobs
  Kind <- Kinds
  Request = {render, download, cleanup}
  Version = {v1, v2}
  Chunks = 2
  Limit = 2
  MaxRows = 2
  MaxRetries = 2
  MaxRestarts = 1
  MaxChanges = 2
INVARIANTS
  TypeOK
  RequestsDistinct
  RunningOwned
  DownloadVerified
  CompletedBacked
PROPERTIES
  CancelKept
  PublishedKept
  Settles
