SPECIFICATION GraphSpec
CONSTANTS
 m=m n=n p=p q=q ab=ab nk=nk nn=nn nd=nd
 Files={1,2,3}
 Names={m,n,p,q}
 PlainNames={m,n,p}
 Types={11,12,13}
 Qualifiers={8,9,11,12,13}
 Places <- MCPlaces
 Directory <- MCDirectory
 NoDirectory=nd
 TestFiles={3}
 FactoryHint <- MCFactoryHint
 NoType=0
 NoName=nn
 Contents <- MCContents
 Absent=ab
 NoKey=nk
 MaxEdits=2
INVARIANTS SettledIsRebuilt GraphInv
CHECK_DEADLOCK FALSE
