CONSTANTS
  u1=u1 u2=u2 ro1=ro1 ro2=ro2 me1=me1 sc1=sc1 ru1=ru1 ac1=ac1 sid1=sid1 ty1=ty1 co1=co1
  User={u1,u2} Role={ro1,ro2} Menu={me1,me2} Scope={sc1} Rule={ru1} Filtering={ro1} Admin={a1,a2}
  StartLinks<-MCStartLinks MaxEdits=2
  Dept={e1,e2,e3} Member={m1} DeptRequest={q1,q2} NoDept=NoDept
  Account={ac1,ac2,ac3} Known={ac1} MailOf<-MCMailOf Sid={sid1,sid2} LinkState={ls1,ls2} Callback={cb1,cb2,cb3} NoSid=NoSid
  DictType={ty1,ty2} DictData={da1,da2} Code={co1,co2} Label={la1,la2} DictRequest={dr1,dr2} StartCode<-MCStartCode MaxTasks=4
  Plugin={x,y,z} Required={x} PluginRequest={pr1,pr2} MaxRequests=3 MaxLockTrouble=1
  Business={bu1,bu2} App={ap1,ap2} Column={cn1} GenRequest={g1,g2} MaxGenerations=2 MaxGenEdits=3 MaxGenTrouble=1
SPECIFICATION Spec
CHECK_DEADLOCK FALSE
INVARIANTS
  PermInv DeptInv SocialInv DictInv  GenInv
