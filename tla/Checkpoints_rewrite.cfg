\* Two builders of one size: the second overwrites the first.
SPECIFICATION CpSpec
CONSTANTS
  Ids = {e1, e2}
  Clients = {c1}
  Builders = {b1, b2}
  Keys = {k1}
  VerifyKey = k1
  NoKey = NoKey
  Dev = Dev
  Absent = Absent
  Nil = Nil
SYMMETRY MCSymmetry
PROPERTY
  TreeHeadsImmutable
