SPECIFICATION Spec
CONSTANTS
  Threads = {t1, t2, t3}
  Levels = {{}, {"sse42"}, {"avx2"}, {"sse42", "avx2"}}
  Reorders = {TRUE, FALSE}
INVARIANTS
  CallsRunnableKernel SettlesOnReportedBackend
