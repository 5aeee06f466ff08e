SPECIFICATION FairSpec
CONSTANTS
  Thread = {t1, t2}
  Job = {j1, j2}
  NoThread = NoThread
  NoJob = NoJob
  MaxQueued = 2
INVARIANTS TypeOK NeverReadsEmptyQueue
PROPERTIES ImplementsFifo EveryCallReturns
