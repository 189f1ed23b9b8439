SPECIFICATION Spec
CONSTANTS
  Keys = {here, there}
  MaxAdds = 3
SYMMETRY Symmetry
INVARIANT ErasedWereRun
