SPECIFICATION Spec
CONSTANTS
  Threads = {t1, t2}
  Levels = {{}, {"sse42"}, {"avx2"}, {"sse42", "avx2"}}
  Reorders = {TRUE}
INVARIANTS
  AutoInitialized
