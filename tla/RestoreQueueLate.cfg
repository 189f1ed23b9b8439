SPECIFICATION Spec
CONSTANTS
  Keys = {here, there}
  MaxAdds = 3
INVARIANT OnlyRestoredAreErased
