CONSTANTS
  n1=n1 n2=n2 c1=c1 c2=c2 s1=s1 s2=s2 s3=s3 s4=s4 d1=d1 d2=d2
  CacheNode={n1,n2} CacheRequest={c1,c2} NodeOf<-MCNodeOf MaxReconnects=2 MaxVersion=2 MaxCacheFaults=2
  Call={q1,q2,q3,q4} QueueMax=1 BatchMax=2 MaxInsertErrors=1
  Socket={s1,s2,s3,s4} Device={d1,d2} DeviceOf<-MCDeviceOf
  Login={r1,r2} Password={a,b} Threshold=2 HistoryCheck=1 ExpiryDays=1 MaxFailures=3 MaxChanges=2 MaxAge=2
SPECIFICATION Spec
CHECK_DEADLOCK FALSE
INVARIANTS
  CacheInv LogInv PresenceInv PasswordInv
PROPERTIES
  StaleDiesOut PutsEnd
