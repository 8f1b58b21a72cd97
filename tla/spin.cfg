SPECIFICATION FairSpec
CONSTANTS
  Goals <- ArrayBodies
PROPERTIES
  Terminates
