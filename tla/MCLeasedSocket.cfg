CONSTANTS
    erase = erase
    build = build
    look = look
    Command <- MCCommand
    Mutation <- MCMutation
    None = None
    Fin = Fin
    MaxConns = 4
    MaxFaults = 2
SPECIFICATION LFairSpec
INVARIANTS TypeOK ReplyMatches OneMutationAlive
PROPERTIES ImplementsChannel EngineIsKept CallsEnd
CHECK_DEADLOCK FALSE
