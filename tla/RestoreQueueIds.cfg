\* An id that a player has seen stays that task's: unrestore deletes no other.
SPECIFICATION Spec
CONSTANTS
  Keys = {here, there}
  MaxAdds = 3
SYMMETRY Symmetry
PROPERTY DeletesWhatWasSeen
