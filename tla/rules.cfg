SPECIFICATION Spec
CONSTANTS
  Pools <- SmallPools
  Sources = {101, 102}
  Hosts = {201, 202}
  Ports = {1, 2, 3}
  Ifaces = {301, 302}
  Hash <- SourceHash
  Every = 0
  Backends = {"nftables", "iptables"}
  OldNft = FALSE
  MaxConns = 2
INVARIANT RelaysAsPromised
INVARIANT FairShares
INVARIANT PayloadReplays
INVARIANT VerificationIsExact
