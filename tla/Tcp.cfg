CONSTANTS
    TCP_STANDARD_RETRY_TOUT = 1
    TCP_SYN_RETRY_TOUT = 1
    TCP_FIN_WAIT_2_TIMEOUT = 1
    TCP_MSL_TIMEOUT = 1
    TCP_DEF_RETRIES = 2
    LengthMod = 16
    MaxOut = 2
    MaxIn = 3
SPECIFICATION FairSpec
INVARIANTS StreamInOrder CloseIsLast EndIsTold
PROPERTIES AckedIsTaken ClosedIsComplete EndsInTime PeerIsAcked
