\* Manifests true and forged, and the columns of those that are accepted; or
\* three threads around two targets that need each other.
SPECIFICATION MCSpec
CONSTANTS
  ka = ka  kb = kb  kc = kc
  Thread = {t1, t2, t3}
  Key = {ka, kb, kc}
  Deps <- Ring
  Contract = {x}
  Build = {b1, b2, b3, b4, b5}
  Nobody = Nobody
  Systems <- MCSystems
  Offers <- MCOffers
  Forms = {rational_radius, exact_radius}
  Taylor = 2
SYMMETRY ColumnSymmetry
INVARIANTS TrueManifest EveryChainOnce EdgesExact NoWaitCircle
