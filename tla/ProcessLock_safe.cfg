\* Acquisitions and verifications of one owner, over two guard files.
SPECIFICATION Spec
CONSTANTS
  None = None
  a = a
  b = b
  u = u
  v = v
  Contenders = {a, b}
  Probers = {u, v}
  Expected <- ExpectA
  MaxInode = 2
SYMMETRY Symmetric
INVARIANTS
  VerifiedHolderExcludes
  MetadataNeverMisleads
PROPERTIES
  AcceptedOwnerIsUnfinished
