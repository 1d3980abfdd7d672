CONSTANTS
  a = a
  k1 = k1
  k2 = k2
  NoKey = NoKey
  Domain = Domain
  Star = Star
  Addrs <- OneAddr
  Keys <- TwoKeys
  Certs <- TwoKeys
  Forms <- OtherPort
  Foreign <- AnyPort
  Bundles <- TwoBundles
  MaxEntries = 2
  MaxKnown = 1
  MaxProbes = 1
  MaxEdits = 1
SYMMETRY KeySymmetry
SPECIFICATION Spec
INVARIANTS TypeOK AcceptsOnlyConsented RevokedRefused TrustLasts
PROPERTIES RefusalChangesNoTrust
