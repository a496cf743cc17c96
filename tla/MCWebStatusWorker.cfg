SPECIFICATION Spec
CONSTANT
  MaxSeq = 4
INVARIANTS
  NoFailureOvertaken
PROPERTIES
  ImplementsMailbox
