SPECIFICATION FairSpec
CONSTANTS
    Together = FALSE
    MaxJti = 2
    MaxLogins = 1
    Tabs <- MCTabs
    Requests <- MCRequests
    TabOf <- MCTabOf
PROPERTIES
    StaysIn
    NoPingPong
    NobodyHangs
