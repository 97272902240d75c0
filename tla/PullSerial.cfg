\* Two networks whose nodes the server changes once; Pulls of either with
\* every failure of Authenticate, GET, the config writes, UpdateWgPeers and
\* the daemon start, new pulling processes, and daemon resets in between
\* whose node-file reads succeed.
CONSTANTS
    Networks = {n1, n2}
    MaxVer <- MCMaxVer
    ReadCanFail = FALSE
SPECIFICATION Spec
INVARIANT PulledNodePersisted
PROPERTY PulledPeersEventuallyInstalled
