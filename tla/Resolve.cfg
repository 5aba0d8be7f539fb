SPECIFICATION Spec
CONSTANTS
  Conns = {c1, c2}
  Addresses <- TwoOfEach
  Ports = {8080, 65616}
  Results <- UpToThree
INVARIANTS Redirects ConnectsToResult
