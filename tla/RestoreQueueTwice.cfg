SPECIFICATION Spec
CONSTANTS
  Keys = {here, there}
  MaxAdds = 3
PROPERTY ErasedStayDone
