SPECIFICATION FairSpec
INVARIANT KeysAgree
INVARIANT MismatchHasNoKey
INVARIANT OpenHasPeer
PROPERTY Settles
PROPERTY SameModeOpens
