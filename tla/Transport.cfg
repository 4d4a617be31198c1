\* The limit of the shipped build.
CONSTANT MissLimit = 3
SPECIFICATION FairSpec
INVARIANTS TypeOK NoSocketLeftOpen OneHelloPerSocket TimersBelong NeverUnattended
PROPERTIES Recovers
