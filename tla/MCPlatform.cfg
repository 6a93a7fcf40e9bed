CONSTANTS
  lc1=lc1 em1=em1 em2=em2 uu1=uu1 ip1=ip1 t1=t1 x1=x1 x2=x2 x3=x3 b1=b1 b2=b2 na1=na1 na2=na2
  k1=k1 k2=k2 f1=f1 f2=f2 ch1=ch1 ch2=ch2 sec=sec
  Process={p1,p2} MaxNode=0 MaxSequence=1 Tolerance=1 Lease=2 MaxClock=2 MaxBack=1 MaxStalls=1 MaxStarts=2
  Code={lc1,em1,em2} LoginCode={lc1} Slot={uu1,ip1} SlotOf<-MCSlotOf NoCode=NoCode Presenter={pr1,pr2}
  TaskId={t1} Execution={x1,x2,x3} TaskOf<-MCTaskOf MaxAttempts=2 MaxResultDeletes=1 MaxKills=1
  Addon={ad1,ad2,ad3}
  MaxParagraphs=3 MaxLength=5 ChunkSizes={3,4} Overlaps={0,1,2} MaxLines=4 MaxTexts=5 Limits={1,2,3,4}
  MaxSources=3 Excerpts<-MCExcerpts Budgets={2,3,6}
  DataRule={dr1,dr2} FilterRole={fr1,fr2} NoFilter=NoFilter
  Person={b1,b2,b3} Founder={b1,b2} Name={na1,na2,na3} FirstName<-MCFirstName AdminRequest={ar1,ar2} MaxAdminRequests=3 Nobody=Nobody
  Identifier={i1,i2} MaxArrivals=4 RateLimit=1 RateInterval=1 CacheTtl=2 CacheMax=1 MaxNow=3
  Base={k1,k2} Doc={f1,f2} BaseOf<-MCBaseOf Question={q1} Child={ch1,ch2} ParentOf<-MCParentOf TopK=2 MaxIndexes=2
SPECIFICATION Spec
CHECK_DEADLOCK FALSE
INVARIANTS
  SnowInv CaptchasInv  LifespanInv PureInv UserAdminInv
   RetrievalInv
