\* Two sets, a layout of any of five forms, tables of two entries; every binding
\* written once, twice, with resources WebGPU has or does not have.
SPECIFICATION DescriptorSpec
CONSTANTS
  NULL = NULL
  s1 = s1
  s2 = s2
  r1 = r1
  r2 = r2
  broken = broken
  Sets <- MCSets
  Layouts = {l1}
  Resources <- MCResources
  Usable = {r1, r2}
  Bindings <- MCBindings
  MaxEntries = 2
  Declarations <- MCDeclarations
  Calls <- MCCalls
INVARIANTS
  DescriptorTypeOK
  NothingLost
  GroupsHoldLastWrites
  CompleteSetsAccepted
